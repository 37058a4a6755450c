--------------------------- MODULE DriversProofs ----------------------------
(***************************************************************************)
(* Proofs about the drivers that wait for their device, for rings, drives  *)
(* and pages of any size.                                                  *)
(***************************************************************************)
EXTENDS Drivers, TLAPS

-----------------------------------------------------------------------------
(* The inductive invariant. *)

\* Whether the device has carried out the command the kernel waits for, and
\* the number of commands of the call it has carried out.
Served == call.waiting /\ used[Current.queue] = available[Current.queue]
Answered == IF Served THEN Len(call.got) + 1 ELSE Len(call.got)

WaitsFor(q) == call # None /\ call.waiting /\ Current.queue = q

DisplayType ==
  [created : SUBSET Resource, backing : [Resource -> Images \cup {None}],
   host : [Resource -> Value \cup {None}], scanout : Resource \cup {None},
   screen : Value \cup {None}, cursor : Value \cup {None}, pos : Value \cup {None},
   changed : BOOLEAN, enabled : BOOLEAN]

Descriptor == [address : Address, write : BOOLEAN, next : {1, 2, None}]
PanicReason == {"no", "index", "drive", "size", "refused", "disabled"}

StateType ==
  /\ devices \in Machines
  /\ descriptors \in [Queue -> [0 .. 2 -> Descriptor]]
  /\ available \in [Queue -> 0 .. INDEX_END - 1] /\ used \in [Queue -> 0 .. INDEX_END - 1]
  /\ DOMAIN taken = Queue /\ taken = [q \in Queue |-> taken[q]]
  /\ call \in CallType \cup {None}
  /\ \A r \in regions : r.first \in Nat
  /\ "drive" \in devices => disk \in [0 .. CAPACITY - 1 -> Value]
  /\ images \in [Images -> Value]
  /\ display \in DisplayType
  /\ panicked \in PanicReason

\* What is available and not used is the one request the kernel waits for.
QueuesInv ==
  \A q \in Queue :
    \/ used[q] = available[q] /\ taken[q] = None
    \/ used[q] + 1 = available[q] /\ WaitsFor(q)

\* The calls and the commands they make.
OpInv ==
  \/ /\ call.op = "new" /\ call.commands = DisplayInit /\ "display" \in devices
  \/ /\ call.op = "read" /\ "drive" \in devices
     /\ \E s \in Nat : call.arg = <<s>> /\ call.commands = <<In(s)>>
  \/ /\ call.op = "write" /\ "drive" \in devices
     /\ \E s \in Nat, v \in Value : call.arg = <<s, v>> /\ call.commands = <<Out(s, v)>>
  \/ /\ call.op = "load_page" /\ "drive" \in devices
     /\ \E first, page \in Nat :
          /\ call.arg = <<first, page>>
          /\ call.commands = [i \in 1 .. PAGE_SECTORS |-> In(first + page * PAGE_SECTORS + (i - 1))]
  \/ call.op = "draw" /\ call.commands = <<TransferToHost(1), Flush>> /\ "display" \in devices
  \/ /\ call.op = "cursor_image_modified" /\ call.commands = <<TransferToHost(2)>>
     /\ "display" \in devices
  \/ /\ call.op = "update_cursor" /\ "display" \in devices
     /\ \E pos \in Value :
          call.arg = <<pos>> /\ call.commands \in {<<UpdateCursor(pos)>>, <<MoveCursor(pos)>>}
  \/ call.op = "handle" /\ call.commands = <<GetDisplayInfo>>

CallInv ==
  call # None =>
    /\ OpInv
    /\ Len(call.got) <= Len(call.commands)
    /\ call.waiting => Len(call.got) < Len(call.commands)

\* Until a command is carried out its buffers and its chain are there.
MemoryInv ==
  call # None /\ call.waiting =>
    /\ memory["data"] \in Data
    /\ ~Served =>
         /\ memory["request"] = Current /\ memory["data"] = Current.data
         /\ \A i \in 1 .. Len(Layout(Current)) :
              descriptors[Current.queue][i - 1] = Layout(Current)[i]
         /\ taken[Current.queue] \in {None, Layout(Current)}

\* A command that succeeded did what it is for, and so did the ones before it.
DriveInv ==
  call # None =>
    /\ Served /\ memory["response"] = "ok" =>
         /\ Current.cmd = "in" => memory["data"] = disk[Current.arg]
         /\ Current.cmd = "out" => disk[Current.arg] = Current.data
    /\ panicked = "no" => \A i \in 1 .. Len(call.got) :
         /\ call.commands[i].cmd = "in" => call.got[i] = disk[call.commands[i].arg]
         /\ call.commands[i].cmd = "out" => disk[call.commands[i].arg] = call.commands[i].data

\* The display after n commands of DisplayInit.
SetUp(n) ==
  /\ 1 \in display.created <=> n >= 2
  /\ 2 \in display.created <=> n >= 5
  /\ n >= 3 => display.backing[1] = "framebuffer"
  /\ n >= 4 => display.scanout = 1
  /\ n >= 6 => display.backing[2] = "cursor_image"

SetUpInv == "display" \in devices => IF call # None /\ call.op = "new" THEN SetUp(Answered) ELSE SetUp(6)

\* No command is refused.
AcceptedInv ==
  /\ panicked # "refused"
  /\ call # None /\ Served /\ Current.queue = "control" => memory["response"] \in {"ok", "disabled"}

ScreenInv ==
  call # None /\ call.op = "draw" =>
    /\ Answered >= 1 => display.host[1] = images["framebuffer"]
    /\ Answered >= 2 => display.screen = images["framebuffer"]

\* The cursor shows the image that was sent last, unless a new one has just
\* been sent or is on its way with the next update.
CursorInv ==
  /\ call # None /\ call.op = "update_cursor" /\ Answered >= 1 => display.pos = call.arg[1]
  /\ call # None /\ call.op = "update_cursor" => ~cursor_updated
  /\ ~cursor_updated =>
       \/ display.cursor = display.host[2]
       \/ call # None /\ call.op = "cursor_image_modified" /\ Served
       \/ call # None /\ call.op = "update_cursor" /\ Answered = 0 /\ Current.cmd = "update_cursor"

DisplayInv == SetUpInv /\ AcceptedInv /\ ScreenInv /\ CursorInv

DrvInv == StateType /\ QueuesInv /\ CallInv /\ MemoryInv /\ DriveInv /\ DisplayInv

-----------------------------------------------------------------------------
(* Commands and calls. *)

\* Only two commands go to the queue of the cursor.
WellFormed == {c \in CommandType : c.queue = "cursor" <=> c.cmd \in {"update_cursor", "move_cursor"}}

LEMMA CommandFields ==
  ASSUME NEW q \in Queue, NEW cmd \in Cmd, NEW arg \in Nat, NEW d \in Data,
         q = "cursor" <=> cmd \in {"update_cursor", "move_cursor"},
         NEW c, c = Command(q, cmd, arg, d)
  PROVE  c \in WellFormed /\ c.queue = q /\ c.cmd = cmd /\ c.arg = arg /\ c.data = d
BY DEF Command, CommandType, WellFormed

\* c is a command with these fields.
Has(c, q, cmd, arg, d) ==
  c \in WellFormed /\ c.queue = q /\ c.cmd = cmd /\ c.arg = arg /\ c.data = d

LEMMA CommandFacts ==
  /\ \A s \in Nat : Has(In(s), "drive", "in", s, None)
  /\ \A s \in Nat, v \in Value : Has(Out(s, v), "drive", "out", s, v)
  /\ Has(GetDisplayInfo, "control", "get_display_info", 0, None)
  /\ \A r \in Resource : Has(Create2D(r), "control", "create_2d", r, None)
  /\ \A r \in Resource : Has(AttachBacking(r), "control", "attach_backing", r, ImageOf(r))
  /\ Has(SetScanout, "control", "set_scanout", 1, None)
  /\ \A r \in Resource : Has(TransferToHost(r), "control", "transfer", r, None)
  /\ Has(Flush, "control", "flush", 1, None)
  /\ \A pos \in Value : Has(UpdateCursor(pos), "cursor", "update_cursor", 2, pos)
  /\ \A pos \in Value : Has(MoveCursor(pos), "cursor", "move_cursor", 2, pos)
<1>1. /\ None \in Data /\ \A v \in Value : v \in Data
      /\ \A r \in Resource : r \in Nat /\ ImageOf(r) \in Data
      /\ 1 \in Nat /\ 2 \in Nat /\ 0 \in Nat
  BY DEF Data, Images, Resource, ImageOf
<1>2. \A cmd \in Cmd \ {"update_cursor", "move_cursor"}, q \in Queue \ {"cursor"}, arg \in Nat, d \in Data :
        Has(Command(q, cmd, arg, d), q, cmd, arg, d)
  BY CommandFields DEF Has
<1>3. \A cmd \in {"update_cursor", "move_cursor"}, arg \in Nat, d \in Data :
        Has(Command("cursor", cmd, arg, d), "cursor", cmd, arg, d)
  <2>1. "cursor" \in Queue /\ "update_cursor" \in Cmd /\ "move_cursor" \in Cmd
    BY DEF Queue, Cmd
  <2> QED  BY <2>1, CommandFields DEF Has
<1>4. /\ "drive" \in Queue \ {"cursor"} /\ "control" \in Queue \ {"cursor"}
      /\ {"in", "out", "get_display_info", "create_2d", "attach_backing", "set_scanout", "transfer",
          "flush"} \subseteq Cmd \ {"update_cursor", "move_cursor"}
  BY DEF Queue, Cmd
<1>5. /\ \A s \in Nat : Has(In(s), "drive", "in", s, None)
      /\ \A s \in Nat, v \in Value : Has(Out(s, v), "drive", "out", s, v)
  BY <1>1, <1>2, <1>4 DEF In, Out
<1>6. /\ Has(GetDisplayInfo, "control", "get_display_info", 0, None)
      /\ \A r \in Resource : Has(Create2D(r), "control", "create_2d", r, None)
      /\ \A r \in Resource : Has(AttachBacking(r), "control", "attach_backing", r, ImageOf(r))
      /\ Has(SetScanout, "control", "set_scanout", 1, None)
  BY <1>1, <1>2, <1>4 DEF GetDisplayInfo, Create2D, AttachBacking, SetScanout
<1>7. /\ \A r \in Resource : Has(TransferToHost(r), "control", "transfer", r, None)
      /\ Has(Flush, "control", "flush", 1, None)
  BY <1>1, <1>2, <1>4 DEF TransferToHost, Flush
<1>8. /\ \A pos \in Value : Has(UpdateCursor(pos), "cursor", "update_cursor", 2, pos)
      /\ \A pos \in Value : Has(MoveCursor(pos), "cursor", "move_cursor", 2, pos)
  BY <1>1, <1>3 DEF UpdateCursor, MoveCursor
<1> QED  BY <1>5, <1>6, <1>7, <1>8

LEMMA SubmitCall ==
  ASSUME NEW c \in CallType, NEW d, d = [c EXCEPT !.waiting = TRUE]
  PROVE  /\ d \in CallType /\ d # None
         /\ d.op = c.op /\ d.arg = c.arg /\ d.commands = c.commands /\ d.got = c.got /\ d.waiting
BY NoneAssumption DEF CallType

-----------------------------------------------------------------------------
(* Chains: the device finds the layout the driver filled in. *)

\* The four layouts.
LEMMA Layouts ==
  ASSUME NEW c \in WellFormed, NEW L, L = Layout(c)
  PROVE  \/ /\ c.cmd = "in"
            /\ L = <<readonly("request", 1), writeonly("data", 2), writeonly("response", None)>>
         \/ /\ c.cmd \in {"out", "attach_backing"}
            /\ L = <<readonly("request", 1), readonly("data", 2), writeonly("response", None)>>
         \/ /\ c.cmd \notin {"in", "out", "attach_backing"} /\ c.queue = "cursor"
            /\ L = <<readonly("request", None)>>
         \/ /\ c.cmd \notin {"in", "out", "attach_backing"} /\ c.queue # "cursor"
            /\ L = <<readonly("request", 1), writeonly("response", None)>>
<1>1. CASE c.cmd = "in"
  <2>1. c.cmd \notin {"out", "attach_backing"} /\ c.queue # "cursor"
    BY <1>1 DEF WellFormed
  <2> QED  BY <1>1, <2>1, Zenon DEF Layout
<1>2. CASE c.cmd \in {"out", "attach_backing"}
  <2>1. c.cmd # "in" /\ c.queue # "cursor"
    BY <1>2 DEF WellFormed
  <2> QED  BY <1>2, <2>1, Zenon DEF Layout
<1>3. CASE c.cmd \notin {"in", "out", "attach_backing"}
  <2>1. c.cmd # "in" /\ c.cmd \notin {"out", "attach_backing"}
    BY <1>3
  <2>2. CASE c.queue = "cursor"
    BY <1>3, <2>1, <2>2, Zenon DEF Layout
  <2>3. CASE c.queue # "cursor"
    BY <1>3, <2>1, <2>3, Zenon DEF Layout
  <2> QED  BY <2>2, <2>3
<1> QED  BY <1>1, <1>2, <1>3

LEMMA DescriptorTyped ==
  ASSUME NEW address \in Address, NEW next \in {1, 2, None}
  PROVE  /\ readonly(address, next) \in Descriptor /\ writeonly(address, next) \in Descriptor
         /\ readonly(address, next).address = address /\ readonly(address, next).next = next
         /\ writeonly(address, next).address = address /\ writeonly(address, next).next = next
         /\ ~readonly(address, next).write /\ writeonly(address, next).write
BY DEF readonly, writeonly, Descriptor

\* What all layouts have in common.
LEMMA LayoutFacts ==
  ASSUME NEW c \in WellFormed, NEW L, L = Layout(c)
  PROVE  /\ L \in Seq(Descriptor) /\ Len(L) \in 1 .. 3
         /\ L[1].address = "request"
         /\ L[Len(L)].next = None
         /\ \A i \in 1 .. Len(L) - 1 : L[i].next = i
         /\ L[Len(L)].write <=> c.queue # "cursor"
         /\ L[Len(L)].write => L[Len(L)].address = "response"
         /\ c.cmd \in {"in", "out"} => L[2].address = "data"
<1> DEFINE r1 == readonly("request", 1)
           r0 == readonly("request", None)
           w2 == writeonly("data", 2)
           d2 == readonly("data", 2)
           w0 == writeonly("response", None)
<1>1. /\ r1 \in Descriptor /\ r1.address = "request" /\ r1.next = 1
      /\ r0 \in Descriptor /\ r0.address = "request" /\ r0.next = None /\ ~r0.write
      /\ w2 \in Descriptor /\ w2.address = "data" /\ w2.next = 2
      /\ d2 \in Descriptor /\ d2.address = "data" /\ d2.next = 2
      /\ w0 \in Descriptor /\ w0.address = "response" /\ w0.next = None /\ w0.write
  <2>1. /\ "request" \in Address /\ "data" \in Address /\ "response" \in Address
        /\ 1 \in {1, 2, None} /\ 2 \in {1, 2, None} /\ None \in {1, 2, None}
    BY DEF Address
  <2> QED  BY <2>1, DescriptorTyped, Zenon
<1>2. \/ c.cmd = "in" /\ c.queue # "cursor" /\ L = <<r1, w2, w0>>
      \/ c.cmd \in {"out", "attach_backing"} /\ c.queue # "cursor" /\ L = <<r1, d2, w0>>
      \/ c.cmd \notin {"in", "out", "attach_backing"} /\ c.queue = "cursor" /\ L = <<r0>>
      \/ c.cmd \notin {"in", "out", "attach_backing"} /\ c.queue # "cursor" /\ L = <<r1, w0>>
  BY Layouts DEF WellFormed
<1> HIDE DEF r1, r0, w2, d2, w0
<1>3. CASE c.cmd = "in" /\ c.queue # "cursor" /\ L = <<r1, w2, w0>>
  BY <1>1, <1>3
<1>4. CASE c.cmd \in {"out", "attach_backing"} /\ c.queue # "cursor" /\ L = <<r1, d2, w0>>
  BY <1>1, <1>4
<1>5. CASE c.cmd \notin {"in", "out", "attach_backing"} /\ c.queue = "cursor" /\ L = <<r0>>
  BY <1>1, <1>5
<1>6. CASE c.cmd \notin {"in", "out", "attach_backing"} /\ c.queue # "cursor" /\ L = <<r1, w0>>
  BY <1>1, <1>6
<1> QED  BY <1>2, <1>3, <1>4, <1>5, <1>6

LEMMA ChainFound ==
  ASSUME NEW q \in Queue, NEW c \in WellFormed, NEW L, L = Layout(c),
         \A i \in 1 .. Len(L) : descriptors[q][i - 1] = L[i]
  PROVE  Chain(q) = L
<1> DEFINE ds == descriptors[q]
           P(n) == ds[n].next = None /\ \A m \in 0 .. n - 1 : ds[m].next = m + 1
<1>1. /\ L \in Seq(Descriptor) /\ Len(L) \in 1 .. 3
      /\ L[Len(L)].next = None
      /\ \A i \in 1 .. Len(L) - 1 : L[i].next = i
  BY LayoutFacts
<1>2. PICK n \in 0 .. 2 : n = Len(L) - 1 /\ n + 1 = Len(L)
  BY <1>1
<1>3. ds[n].next = None
  BY <1>1, <1>2
<1>4. \A m \in 0 .. n - 1 : ds[m].next = m + 1 /\ ds[m].next # None
  <2> SUFFICES ASSUME NEW m \in 0 .. n - 1
               PROVE  ds[m].next = m + 1 /\ ds[m].next # None
    OBVIOUS
  <2>1. m + 1 \in 1 .. Len(L) - 1 /\ m + 1 \in 1 .. Len(L) /\ (m + 1) - 1 = m /\ m + 1 \in Nat
    BY <1>2
  <2>2. ds[m] = L[m + 1]
    BY <2>1
  <2>3. L[m + 1].next = m + 1
    BY <1>1, <2>1
  <2> QED  BY <2>1, <2>2, <2>3, NoneAssumption
<1>5. P(n) /\ \A k \in 0 .. 2 : P(k) => k = n
  <2>1. P(n)
    BY <1>3, <1>4
  <2>2. ASSUME NEW k \in 0 .. 2, P(k) PROVE k = n
    <3>1. CASE k < n
      BY <1>2, <1>4, <2>2, <3>1
    <3>2. CASE k > n
      <4>1. n \in 0 .. k - 1 /\ n + 1 \in Nat
        BY <1>2, <3>2
      <4>2. ds[n].next = n + 1
        BY <2>2, <4>1
      <4> QED  BY <1>3, <4>1, <4>2, NoneAssumption
    <3> QED  BY <1>2, <3>1, <3>2
  <2> QED  BY <2>1, <2>2
<1>6. (CHOOSE k \in 0 .. 2 : P(k)) = n
  <2> HIDE DEF P
  <2> QED  BY <1>5
<1>7. Chain(q) = [i \in 1 .. n + 1 |-> ds[i - 1]]
  BY <1>6, Zenon DEF Chain
<1>8. [i \in 1 .. n + 1 |-> ds[i - 1]] = [i \in 1 .. Len(L) |-> L[i]]
  BY <1>2
<1>9. L = [i \in 1 .. Len(L) |-> L[i]]
  BY <1>1
<1> QED  BY <1>7, <1>8, <1>9

-----------------------------------------------------------------------------
(* The command a call is at. *)

\* Where a call is, by the kind of call and the number of answers it has.
Stage(op, n, c) ==
  \/ op = "new" /\ n = 0 /\ Has(c, "control", "get_display_info", 0, None)
  \/ op = "new" /\ n = 1 /\ Has(c, "control", "create_2d", 1, None)
  \/ op = "new" /\ n = 2 /\ Has(c, "control", "attach_backing", 1, "framebuffer")
  \/ op = "new" /\ n = 3 /\ Has(c, "control", "set_scanout", 1, None)
  \/ op = "new" /\ n = 4 /\ Has(c, "control", "create_2d", 2, None)
  \/ op = "new" /\ n = 5 /\ Has(c, "control", "attach_backing", 2, "cursor_image")
  \/ op \in {"read", "load_page"} /\ "drive" \in devices /\ Has(c, "drive", "in", c.arg, None)
  \/ op = "write" /\ "drive" \in devices /\ n = 0 /\ Has(c, "drive", "out", c.arg, c.data) /\ c.data \in Value
  \/ op = "draw" /\ n = 0 /\ Has(c, "control", "transfer", 1, None)
  \/ op = "draw" /\ n = 1 /\ Has(c, "control", "flush", 1, None)
  \/ op = "cursor_image_modified" /\ n = 0 /\ Has(c, "control", "transfer", 2, None)
  \/ op = "update_cursor" /\ n = 0 /\ Has(c, "cursor", "update_cursor", 2, call.arg[1])
  \/ op = "update_cursor" /\ n = 0 /\ Has(c, "cursor", "move_cursor", 2, call.arg[1])
  \/ op = "handle" /\ n = 0 /\ Has(c, "control", "get_display_info", 0, None)

LEMMA CurrentStage ==
  ASSUME OpInv, call \in CallType, Len(call.got) < Len(call.commands)
  PROVE  /\ Current \in WellFormed /\ Stage(call.op, Len(call.got), Current)
         /\ call.op \notin {"new", "handle"} /\ Current.queue # "drive" => "display" \in devices
         /\ call.op = "new" => "display" \in devices
<1>0. PICK n \in Nat : n = Len(call.got) /\ Current = call.commands[n + 1] /\ n < Len(call.commands)
  BY DEF CallType, Current
<1> SUFFICES /\ Current \in WellFormed /\ Stage(call.op, n, Current)
             /\ call.op \notin {"new", "handle"} /\ Current.queue # "drive" => "display" \in devices
             /\ call.op = "new" => "display" \in devices
  BY <1>0
<1>1. CASE call.op = "new" /\ call.commands = DisplayInit /\ "display" \in devices
  <2>1. /\ ImageOf(1) = "framebuffer" /\ ImageOf(2) = "cursor_image"
        /\ 1 \in Resource /\ 2 \in Resource
    BY DEF ImageOf, Resource
  <2>2. n \in {0, 1, 2, 3, 4, 5}
    <3>1. Len(DisplayInit) = 6
      BY DEF DisplayInit
    <3>2. n < 6
      BY <1>0, <1>1, <3>1
    <3> QED  BY <3>2
  <2>3. /\ DisplayInit[1] = GetDisplayInfo /\ DisplayInit[2] = Create2D(1)
        /\ DisplayInit[3] = AttachBacking(1) /\ DisplayInit[4] = SetScanout
        /\ DisplayInit[5] = Create2D(2) /\ DisplayInit[6] = AttachBacking(2)
    BY DEF DisplayInit
  <2>4. /\ Has(GetDisplayInfo, "control", "get_display_info", 0, None)
        /\ Has(Create2D(1), "control", "create_2d", 1, None)
        /\ Has(Create2D(2), "control", "create_2d", 2, None)
        /\ Has(AttachBacking(1), "control", "attach_backing", 1, "framebuffer")
        /\ Has(AttachBacking(2), "control", "attach_backing", 2, "cursor_image")
        /\ Has(SetScanout, "control", "set_scanout", 1, None)
    BY <2>1, CommandFacts
  <2>5. \/ n = 0 /\ Current = GetDisplayInfo
        \/ n = 1 /\ Current = Create2D(1)
        \/ n = 2 /\ Current = AttachBacking(1)
        \/ n = 3 /\ Current = SetScanout
        \/ n = 4 /\ Current = Create2D(2)
        \/ n = 5 /\ Current = AttachBacking(2)
    <3>1. Current = DisplayInit[n + 1]
      BY <1>0, <1>1
    <3> QED  BY <2>2, <2>3, <3>1
  <2>6. Stage(call.op, n, Current)
    BY <1>1, <2>4, <2>5 DEF Stage
  <2> QED  BY <1>1, <2>6 DEF Stage, Has
<1>2. CASE /\ call.op = "read" /\ "drive" \in devices
           /\ \E s \in Nat : call.arg = <<s>> /\ call.commands = <<In(s)>>
  <2>1. PICK s \in Nat : call.commands = <<In(s)>>
    BY <1>2
  <2>2. Current = In(s)
    BY <1>0, <2>1
  <2>3. Has(Current, "drive", "in", s, None)
    BY <2>2, CommandFacts
  <2> QED  BY <1>2, <2>3 DEF Stage, Has
<1>3. CASE /\ call.op = "write" /\ "drive" \in devices
           /\ \E s \in Nat, v \in Value : call.arg = <<s, v>> /\ call.commands = <<Out(s, v)>>
  <2>1. PICK s \in Nat, v \in Value : call.commands = <<Out(s, v)>>
    BY <1>3
  <2>2. Current = Out(s, v) /\ n = 0
    BY <1>0, <2>1
  <2>3. Has(Current, "drive", "out", s, v)
    BY <2>2, CommandFacts
  <2> QED  BY <1>3, <2>2, <2>3 DEF Stage, Has
<1>4. CASE /\ call.op = "load_page" /\ "drive" \in devices
           /\ \E first, page \in Nat :
                /\ call.arg = <<first, page>>
                /\ call.commands = [i \in 1 .. PAGE_SECTORS |-> In(first + page * PAGE_SECTORS + (i - 1))]
  <2>1. PICK first, page \in Nat :
          call.commands = [i \in 1 .. PAGE_SECTORS |-> In(first + page * PAGE_SECTORS + (i - 1))]
    BY <1>4
  <2>2. PAGE_SECTORS \in Nat /\ page * PAGE_SECTORS \in Nat
    BY DriversAssumption
  <2>3. n + 1 \in 1 .. PAGE_SECTORS
    BY <1>0, <2>1, <2>2
  <2>4. PICK s \in Nat : s = first + page * PAGE_SECTORS + ((n + 1) - 1)
    <3>1. (n + 1) - 1 = n /\ first + page * PAGE_SECTORS + n \in Nat
      BY <2>2
    <3> QED  BY <3>1
  <2>5. Current = In(s)
    BY <1>0, <2>1, <2>3, <2>4
  <2>6. Has(Current, "drive", "in", s, None)
    BY <2>5, CommandFacts
  <2> QED  BY <1>4, <2>6 DEF Stage, Has
<1>5. CASE call.op = "draw" /\ call.commands = <<TransferToHost(1), Flush>> /\ "display" \in devices
  <2>1. \/ n = 0 /\ Current = TransferToHost(1)
        \/ n = 1 /\ Current = Flush
    <3>1. PICK first, second : first = TransferToHost(1) /\ second = Flush
      OBVIOUS
    <3>2. call.commands = <<first, second>>
      BY <1>5, <3>1
    <3>3. n = 0 \/ n = 1
      <4>1. Len(<<first, second>>) = 2
        OBVIOUS
      <4>2. n < 2
        BY <1>0, <3>2, <4>1
      <4> QED  BY <4>2
    <3> QED  BY <1>0, <3>1, <3>2, <3>3
  <2>2. Has(TransferToHost(1), "control", "transfer", 1, None) /\ Has(Flush, "control", "flush", 1, None)
    BY CommandFacts DEF Resource
  <2> QED  BY <1>5, <2>1, <2>2 DEF Stage, Has
<1>6. CASE /\ call.op = "cursor_image_modified" /\ call.commands = <<TransferToHost(2)>>
           /\ "display" \in devices
  <2>1. n = 0 /\ Current = TransferToHost(2)
    BY <1>0, <1>6
  <2>2. Has(TransferToHost(2), "control", "transfer", 2, None)
    BY CommandFacts DEF Resource
  <2> QED  BY <1>6, <2>1, <2>2 DEF Stage, Has
<1>7. CASE /\ call.op = "update_cursor" /\ "display" \in devices
           /\ \E pos \in Value :
                call.arg = <<pos>> /\ call.commands \in {<<UpdateCursor(pos)>>, <<MoveCursor(pos)>>}
  <2>1. PICK pos \in Value :
          call.arg = <<pos>> /\ call.commands \in {<<UpdateCursor(pos)>>, <<MoveCursor(pos)>>}
    BY <1>7
  <2>2. n = 0 /\ Current \in {UpdateCursor(pos), MoveCursor(pos)} /\ call.arg[1] = pos
    BY <1>0, <2>1
  <2>3. /\ Has(UpdateCursor(pos), "cursor", "update_cursor", 2, pos)
        /\ Has(MoveCursor(pos), "cursor", "move_cursor", 2, pos)
    BY CommandFacts
  <2> QED  BY <1>7, <2>2, <2>3 DEF Stage, Has
<1>8. CASE call.op = "handle" /\ call.commands = <<GetDisplayInfo>>
  <2>1. n = 0 /\ Current = GetDisplayInfo
    BY <1>0, <1>8
  <2>2. Has(GetDisplayInfo, "control", "get_display_info", 0, None)
    BY CommandFacts
  <2> QED  BY <1>8, <2>1, <2>2 DEF Stage, Has
<1> QED  BY <1>1, <1>2, <1>3, <1>4, <1>5, <1>6, <1>7, <1>8 DEF OpInv

-----------------------------------------------------------------------------
(* Steps of the kernel. *)

\* What the display holds and shows does not change.
DisplaySame ==
  /\ display' \in DisplayType
  /\ display'.created = display.created /\ display'.backing = display.backing
  /\ display'.host = display.host /\ display'.scanout = display.scanout
  /\ display'.screen = display.screen /\ display'.cursor = display.cursor
  /\ display'.pos = display.pos

\* A call begins: no command of it has been carried out.
LEMMA BeginKeeps ==
  ASSUME DrvInv, panicked = "no", call = None,
         NEW op \in Op \ {"new"}, NEW arg \in Seq(Nat \cup Value), NEW commands \in Seq(CommandType),
         call' = NewCall(op, arg, commands), OpInv',
         UNCHANGED <<devices, used, taken, disk, images, descriptors, available, memory, regions, panicked>>,
         DisplaySame,
         ~cursor_updated' => \/ ~cursor_updated
                             \/ op = "update_cursor" /\ commands[1].cmd = "update_cursor",
         op = "update_cursor" => ~cursor_updated'
  PROVE  DrvInv'
<1>1. /\ call' \in CallType /\ call' # None /\ call'.op = op /\ call'.arg = arg
      /\ call'.commands = commands /\ call'.got = <<>> /\ call'.waiting = FALSE
  <2>1. /\ call'.op = op /\ call'.arg = arg /\ call'.commands = commands /\ call'.got = <<>>
        /\ call'.waiting = FALSE
    BY DEF NewCall
  <2>2. op \in Op
    OBVIOUS
  <2>3. <<>> \in Seq(Data)
    OBVIOUS
  <2>4. call' \in CallType
    BY <2>2, <2>3 DEF NewCall, CallType
  <2> QED  BY <2>1, <2>4, NoneAssumption
<1>2. ~Served' /\ Answered' = 0 /\ Current' = commands[1]
  BY <1>1 DEF Served, Answered, Current
<1>3. StateType'
  BY <1>1 DEF DrvInv, StateType, DisplaySame
<1>4. QueuesInv'
  BY DEF DrvInv, QueuesInv, WaitsFor
<1>5. CallInv'
  <2>1. Len(commands) \in Nat /\ Len(call'.got) = 0
    BY <1>1
  <2> QED  BY <1>1, <2>1 DEF CallInv
<1>6. MemoryInv' /\ DriveInv'
  <2>1. Len(call'.got) = 0
    BY <1>1
  <2> QED  BY <1>1, <1>2, <2>1 DEF MemoryInv, DriveInv
<1>7. SetUpInv'
  BY <1>1 DEF DrvInv, DisplayInv, SetUpInv, SetUp, DisplaySame
<1>8. AcceptedInv' /\ ScreenInv'
  BY <1>2 DEF AcceptedInv, ScreenInv
<1>9. CursorInv'
  BY <1>1, <1>2 DEF DrvInv, DisplayInv, CursorInv, DisplaySame
<1> QED  BY <1>3, <1>4, <1>5, <1>6, <1>7, <1>8, <1>9 DEF DrvInv, DisplayInv

LEMMA SameDisplay ==
  ASSUME display \in DisplayType, display' = display
  PROVE  DisplaySame
BY DEF DisplaySame

LEMMA DriveCallsKeep ==
  ASSUME DrvInv,
         \/ \E sector \in Sector : read(sector) \/ \E v \in Value : write(sector, v)
         \/ \E region \in regions : \E page \in 0 .. region.pages - 1 : load_page(region, page)
  PROVE  DrvInv'
<1>0. /\ Sector \subseteq Nat /\ \A s \in Nat : In(s) \in CommandType
      /\ \A s \in Nat, v \in Value : Out(s, v) \in CommandType
  BY DriversAssumption, CommandFacts DEF Sector, Has, WellFormed
<1>1. ASSUME NEW sector \in Sector, read(sector) PROVE DrvInv'
  <2>1. <<sector>> \in Seq(Nat \cup Value) /\ <<In(sector)>> \in Seq(CommandType) /\ "read" \in Op \ {"new"}
    BY <1>0 DEF Op
  <2>2. /\ panicked = "no" /\ "drive" \in devices /\ call = None
        /\ call' = NewCall("read", <<sector>>, <<In(sector)>>)
        /\ UNCHANGED <<devices, used, taken, disk, images, descriptors, available, memory, regions, panicked>>
        /\ display' = display /\ cursor_updated' = cursor_updated
    BY <1>1 DEF read, Begin, hardware
  <2>3. OpInv'
    <3>1. call'.op = "read" /\ call'.arg = <<sector>> /\ call'.commands = <<In(sector)>>
      BY <2>2 DEF NewCall
    <3> QED  BY <1>0, <2>2, <3>1 DEF OpInv
  <2>4. DisplaySame
    BY <2>2, SameDisplay DEF DrvInv, StateType
  <2> QED  BY <2>1, <2>2, <2>3, <2>4, BeginKeeps
<1>2. ASSUME NEW sector \in Sector, NEW v \in Value, write(sector, v) PROVE DrvInv'
  <2>1. <<sector, v>> \in Seq(Nat \cup Value) /\ <<Out(sector, v)>> \in Seq(CommandType) /\ "write" \in Op \ {"new"}
    BY <1>0 DEF Op
  <2>2. /\ panicked = "no" /\ "drive" \in devices /\ call = None
        /\ call' = NewCall("write", <<sector, v>>, <<Out(sector, v)>>)
        /\ UNCHANGED <<devices, used, taken, disk, images, descriptors, available, memory, regions, panicked>>
        /\ display' = display /\ cursor_updated' = cursor_updated
    BY <1>2, NoneAssumption DEF write, Begin, hardware
  <2>3. OpInv'
    <3>1. call'.op = "write" /\ call'.arg = <<sector, v>> /\ call'.commands = <<Out(sector, v)>>
      BY <2>2 DEF NewCall
    <3> QED  BY <1>0, <2>2, <3>1 DEF OpInv
  <2>4. DisplaySame
    BY <2>2, SameDisplay DEF DrvInv, StateType
  <2> QED  BY <2>1, <2>2, <2>3, <2>4, BeginKeeps
<1>3. ASSUME NEW region \in regions, NEW page \in 0 .. region.pages - 1, load_page(region, page)
      PROVE  DrvInv'
  <2>0. PICK first \in Nat : first = region.first
    BY DEF DrvInv, StateType
  <2> DEFINE commands == [i \in 1 .. PAGE_SECTORS |-> In(first + page * PAGE_SECTORS + (i - 1))]
  <2>1. /\ page \in Nat /\ PAGE_SECTORS \in Nat /\ page * PAGE_SECTORS \in Nat
        /\ <<first, page>> \in Seq(Nat \cup Value) /\ "load_page" \in Op \ {"new"}
    BY DriversAssumption DEF Op
  <2>2. commands \in Seq(CommandType)
    <3>1. \A i \in 1 .. PAGE_SECTORS : first + page * PAGE_SECTORS + (i - 1) \in Nat
      BY <2>1
    <3>2. commands \in [1 .. PAGE_SECTORS -> CommandType]
      BY <1>0, <3>1
    <3> HIDE DEF commands
    <3> QED  BY <2>1, <3>2
  <2>3. /\ panicked = "no" /\ "drive" \in devices /\ call = None
        /\ call' = NewCall("load_page", <<first, page>>, commands)
        /\ UNCHANGED <<devices, used, taken, disk, images, descriptors, available, memory, regions, panicked>>
        /\ display' = display /\ cursor_updated' = cursor_updated
    <3>1. [i \in DOMAIN PageSectors(region, page) |-> In(PageSectors(region, page)[i])] = commands
      BY <2>0 DEF PageSectors
    <3> HIDE DEF commands
    <3> QED  BY <1>3, <2>0, <3>1 DEF load_page, Begin, hardware
  <2>4. OpInv'
    <3>1. call'.op = "load_page" /\ call'.arg = <<first, page>> /\ call'.commands = commands
      <4> HIDE DEF commands
      <4> QED  BY <2>3 DEF NewCall
    <3> QED  BY <2>1, <2>3, <3>1 DEF OpInv
  <2>5. DisplaySame
    BY <2>3, SameDisplay DEF DrvInv, StateType
  <2> HIDE DEF commands
  <2> QED  BY <2>1, <2>2, <2>3, <2>4, <2>5, BeginKeeps
<1> QED  BY <1>1, <1>2, <1>3

LEMMA DisplayCallsKeep ==
  ASSUME DrvInv,
         draw \/ cursor_image_modified \/ (\E pos \in Value : update_cursor(pos)) \/ handle
  PROVE  DrvInv'
<1>0. /\ \A r \in Resource : TransferToHost(r) \in CommandType
      /\ Flush \in CommandType /\ GetDisplayInfo \in CommandType
      /\ \A pos \in Value : UpdateCursor(pos) \in CommandType /\ MoveCursor(pos) \in CommandType
      /\ \A pos \in Value : UpdateCursor(pos).cmd = "update_cursor"
  BY CommandFacts DEF Has, WellFormed
<1>1. <<>> \in Seq(Nat \cup Value) /\ 1 \in Resource /\ 2 \in Resource /\ display \in DisplayType
  BY DEF Resource, DrvInv, StateType
<1>2. CASE draw
  <2>1. <<TransferToHost(1), Flush>> \in Seq(CommandType) /\ "draw" \in Op \ {"new"}
    BY <1>0, <1>1 DEF Op
  <2>2. /\ panicked = "no" /\ "display" \in devices /\ call = None
        /\ call' = NewCall("draw", <<>>, <<TransferToHost(1), Flush>>)
        /\ UNCHANGED <<devices, used, taken, disk, images, descriptors, available, memory, regions, panicked>>
        /\ display' = display /\ cursor_updated' = cursor_updated
    BY <1>2 DEF draw, Begin, hardware
  <2>3. OpInv'
    <3>1. call'.op = "draw" /\ call'.commands = <<TransferToHost(1), Flush>>
      BY <2>2 DEF NewCall
    <3> QED  BY <2>2, <3>1 DEF OpInv
  <2>4. DisplaySame
    BY <1>1, <2>2, SameDisplay
  <2> QED  BY <1>1, <2>1, <2>2, <2>3, <2>4, BeginKeeps
<1>3. CASE cursor_image_modified
  <2>1. <<TransferToHost(2)>> \in Seq(CommandType) /\ "cursor_image_modified" \in Op \ {"new"}
    BY <1>0, <1>1 DEF Op
  <2>2. /\ panicked = "no" /\ "display" \in devices /\ call = None
        /\ call' = NewCall("cursor_image_modified", <<>>, <<TransferToHost(2)>>)
        /\ UNCHANGED <<devices, used, taken, disk, images, descriptors, available, memory, regions, panicked>>
        /\ display' = display /\ cursor_updated' = cursor_updated
    BY <1>3 DEF cursor_image_modified, Begin, hardware
  <2>3. OpInv'
    <3>1. call'.op = "cursor_image_modified" /\ call'.commands = <<TransferToHost(2)>>
      BY <2>2 DEF NewCall
    <3> QED  BY <2>2, <3>1 DEF OpInv
  <2>4. DisplaySame
    BY <1>1, <2>2, SameDisplay
  <2> QED  BY <1>1, <2>1, <2>2, <2>3, <2>4, BeginKeeps
<1>4. ASSUME NEW pos \in Value, update_cursor(pos) PROVE DrvInv'
  <2>0. PICK c : c = IF cursor_updated THEN UpdateCursor(pos) ELSE MoveCursor(pos)
    OBVIOUS
  <2>1. /\ <<pos>> \in Seq(Nat \cup Value) /\ <<c>> \in Seq(CommandType)
        /\ "update_cursor" \in Op \ {"new"}
        /\ cursor_updated => <<c>>[1].cmd = "update_cursor"
    BY <1>0, <2>0 DEF Op
  <2>2. /\ panicked = "no" /\ "display" \in devices /\ call = None
        /\ call' = NewCall("update_cursor", <<pos>>, <<c>>)
        /\ UNCHANGED <<devices, used, taken, disk, images, descriptors, available, memory, regions, panicked>>
        /\ display' = display /\ ~cursor_updated'
    BY <1>4, <2>0 DEF update_cursor, Begin, hardware
  <2>3. OpInv'
    <3>1. call'.op = "update_cursor" /\ call'.arg = <<pos>> /\ call'.commands = <<c>>
      BY <2>2 DEF NewCall
    <3> QED  BY <2>0, <2>2, <3>1 DEF OpInv
  <2>4. DisplaySame
    BY <1>1, <2>2, SameDisplay
  <2>5. ~cursor_updated' => \/ ~cursor_updated
                            \/ "update_cursor" = "update_cursor" /\ <<c>>[1].cmd = "update_cursor"
    BY <2>1
  <2> QED  BY <2>1, <2>2, <2>3, <2>4, <2>5, BeginKeeps
<1>5. CASE handle
  <2>1. <<GetDisplayInfo>> \in Seq(CommandType) /\ "handle" \in Op \ {"new"}
    BY <1>0 DEF Op
  <2>2. /\ panicked = "no" /\ call = None
        /\ call' = NewCall("handle", <<>>, <<GetDisplayInfo>>)
        /\ UNCHANGED <<devices, used, taken, disk, images, descriptors, available, memory, regions, panicked>>
        /\ display' = [display EXCEPT !.changed = FALSE] /\ cursor_updated' = cursor_updated
    BY <1>5 DEF handle
  <2>3. OpInv'
    <3>1. call'.op = "handle" /\ call'.commands = <<GetDisplayInfo>>
      BY <2>2 DEF NewCall
    <3> QED  BY <3>1 DEF OpInv
  <2>4. DisplaySame
    BY <1>1, <2>2 DEF DisplaySame, DisplayType
  <2> QED  BY <1>1, <2>1, <2>2, <2>3, <2>4, BeginKeeps
<1> QED  BY <1>2, <1>3, <1>4, <1>5

\* No call, or the end of one: nothing is left to do for a device.
LEMMA IdleKeeps ==
  ASSUME DrvInv, call' = None,
         call # None => Done,
         UNCHANGED <<devices, used, taken, disk, descriptors, available, display, cursor_updated>>,
         \A r \in regions' : r.first \in Nat,
         images' \in [Images -> Value],
         panicked' \in PanicReason \ {"refused"}
  PROVE  DrvInv'
<1>1. StateType'
  BY DEF DrvInv, StateType
<1>2. call # None => ~call.waiting /\ Answered = Len(call.got) /\ Len(call.got) = Len(call.commands)
  BY DEF DrvInv, StateType, CallInv, CallType, Done, Answered, Served
<1>3. QueuesInv'
  BY <1>2 DEF DrvInv, QueuesInv, WaitsFor
<1>4. CallInv' /\ MemoryInv' /\ DriveInv' /\ AcceptedInv' /\ ScreenInv'
  BY DEF CallInv, MemoryInv, DriveInv, AcceptedInv, ScreenInv
<1>5. SetUpInv'
  <2>1. call # None /\ call.op = "new" => Answered = 6
    <3>1. Len(DisplayInit) = 6
      BY DEF DisplayInit
    <3> QED  BY <1>2, <3>1 DEF DrvInv, CallInv, OpInv
  <2> QED  BY <2>1 DEF DrvInv, DisplayInv, SetUpInv, SetUp
<1>6. CursorInv'
  <2>1. call # None /\ call.op = "update_cursor" => Answered = 1
    BY <1>2 DEF DrvInv, CallInv, OpInv
  <2>2. call # None => ~Served
    BY <1>2 DEF Served
  <2> QED  BY <2>1, <2>2 DEF DrvInv, DisplayInv, CursorInv
<1> QED  BY <1>1, <1>3, <1>4, <1>5, <1>6 DEF DrvInv, DisplayInv

LEMMA ReadMappedKeeps ==
  ASSUME DrvInv, NEW first \in RegionStart, NEW count \in 0 .. CAPACITY, read_mapped(first, count)
  PROVE  DrvInv'
<1>1. /\ call = None /\ call' = None
      /\ UNCHANGED <<devices, used, taken, disk, images, descriptors, available, display, cursor_updated>>
  BY DEF read_mapped, hardware
<1>2. \A r \in regions' : r.first \in Nat
  <2>1. \A r \in regions' : r \in regions \/ r.first = first
    BY DEF read_mapped
  <2> QED  BY <2>1, DriversAssumption DEF DrvInv, StateType
<1>3. panicked' \in PanicReason \ {"refused"}
  BY DEF read_mapped, PanicReason
<1>4. images' \in [Images -> Value]
  BY <1>1 DEF DrvInv, StateType
<1> QED  BY <1>1, <1>2, <1>3, <1>4, IdleKeeps

\* Data that is no sector.
LEMMA WriteRefused ==
  ASSUME DrvInv, NEW sector \in Sector, write(sector, None)
  PROVE  DrvInv'
<1>1. /\ call = None /\ call' = None /\ panicked' \in PanicReason \ {"refused"}
      /\ UNCHANGED <<devices, used, taken, disk, images, descriptors, available, display, cursor_updated>>
      /\ UNCHANGED regions
  BY DEF write, kernel, hardware, PanicReason
<1>2. (\A r \in regions' : r.first \in Nat) /\ images' \in [Images -> Value]
  BY <1>1 DEF DrvInv, StateType
<1> QED  BY <1>1, <1>2, IdleKeeps

LEMMA ReturnKeeps ==
  ASSUME DrvInv, Return
  PROVE  DrvInv'
<1>1. /\ Done /\ call' = None
      /\ UNCHANGED <<devices, used, taken, disk, descriptors, available, display, cursor_updated>>
      /\ UNCHANGED <<regions, images, panicked>> /\ panicked = "no"
  BY DEF Return, hardware
<1>2. (\A r \in regions' : r.first \in Nat) /\ images' \in [Images -> Value]
  BY <1>1 DEF DrvInv, StateType
<1>3. panicked' \in PanicReason \ {"refused"}
  BY <1>1 DEF PanicReason
<1> QED  BY <1>1, <1>2, <1>3, IdleKeeps

LEMMA PaintKeeps ==
  ASSUME DrvInv, NEW image \in Images, NEW v \in Value, Paint(image, v)
  PROVE  DrvInv'
<1>1. /\ call = None /\ call' = None
      /\ UNCHANGED <<devices, used, taken, disk, descriptors, available, display, cursor_updated>>
      /\ UNCHANGED <<regions, panicked>> /\ panicked = "no"
  BY DEF Paint, kernel
<1>2. (\A r \in regions' : r.first \in Nat) /\ images' \in [Images -> Value]
  BY <1>1 DEF DrvInv, StateType, Paint
<1>3. panicked' \in PanicReason \ {"refused"}
  BY <1>1 DEF PanicReason
<1> QED  BY <1>1, <1>2, <1>3, IdleKeeps

\* What the user does to the window changes nothing that is shown.
LEMMA SameKeeps ==
  ASSUME DrvInv, DisplaySame,
         UNCHANGED <<devices, kernel, used, taken, disk, images, panicked>>
  PROVE  DrvInv'
<1>1. StateType'
  BY DEF DrvInv, StateType, kernel, DisplaySame
<1>2. /\ (call # None => (Served' <=> Served) /\ Answered' = Answered /\ Current' = Current)
      /\ \A q \in Queue : WaitsFor(q)' <=> WaitsFor(q)
  BY DEF Served, Answered, Current, WaitsFor, kernel
<1>3. QueuesInv' /\ CallInv' /\ MemoryInv' /\ DriveInv'
  <2>1. QueuesInv'
    BY <1>2 DEF DrvInv, QueuesInv, kernel
  <2>2. CallInv'
    BY DEF DrvInv, CallInv, OpInv, kernel
  <2>3. MemoryInv' /\ DriveInv'
    BY <1>2 DEF DrvInv, MemoryInv, DriveInv, kernel
  <2> QED  BY <2>1, <2>2, <2>3
<1>4. SetUpInv' /\ AcceptedInv' /\ ScreenInv'
  BY <1>2 DEF DrvInv, DisplayInv, SetUpInv, SetUp, AcceptedInv, ScreenInv, kernel, DisplaySame
<1>5. CursorInv'
  BY <1>2 DEF DrvInv, DisplayInv, CursorInv, kernel, DisplaySame
<1> QED  BY <1>1, <1>3, <1>4, <1>5 DEF DrvInv, DisplayInv

LEMMA ChangeDisplayKeeps ==
  ASSUME DrvInv, ChangeDisplay
  PROVE  DrvInv'
<1>1. PICK enabled \in BOOLEAN : display' = [display EXCEPT !.changed = TRUE, !.enabled = enabled]
  BY DEF ChangeDisplay
<1>2. DisplaySame
  BY <1>1 DEF DrvInv, StateType, DisplaySame, DisplayType
<1> QED  BY <1>2, SameKeeps DEF ChangeDisplay

\* A command is written into memory and handed to the device.
LEMMA SubmitKeeps ==
  ASSUME DrvInv, Submit
  PROVE  DrvInv'
<1>0. /\ panicked = "no" /\ call # None /\ ~Done /\ call.waiting = FALSE /\ call \in CallType
      /\ OpInv /\ Len(call.got) < Len(call.commands) /\ Len(call.got) \in Nat
  BY DEF Submit, DrvInv, StateType, CallInv, CallType, Done
<1>1. PICK c \in WellFormed : c = Current
  BY <1>0, CurrentStage
<1>2. PICK q \in Queue : q = Current.queue /\ q = c.queue
  BY <1>1 DEF WellFormed, CommandType
<1>3. PICK L : L = Layout(c) /\ L = Layout(Current)
  BY <1>1
<1>4. L \in Seq(Descriptor) /\ Len(L) \in 1 .. 3
  BY <1>3, LayoutFacts
<1>5. /\ descriptors' = [descriptors EXCEPT ![q] = [i \in 0 .. 2 |-> IF i < Len(L) THEN L[i + 1] ELSE @[i]]]
      /\ memory' = [request |-> Current, data |-> Current.data,
                    response |-> IF q = "drive" THEN "ok" ELSE "default"]
      /\ IF NextIndex(available[q]) = INDEX_END
           THEN panicked' = "index" /\ UNCHANGED <<available, call>>
           ELSE /\ available' = [available EXCEPT ![q] = NextIndex(@)]
                /\ call' = [call EXCEPT !.waiting = TRUE]
                /\ UNCHANGED panicked
      /\ UNCHANGED <<devices, used, taken, disk, images, display, regions, cursor_updated>>
  BY <1>2, <1>3 DEF Submit, hardware
<1>6. /\ descriptors' \in [Queue -> [0 .. 2 -> Descriptor]]
      /\ \A i \in 1 .. Len(L) : descriptors'[q][i - 1] = L[i]
  <2>1. PICK new : new = [i \in 0 .. 2 |-> IF i < Len(L) THEN L[i + 1] ELSE descriptors[q][i]]
    OBVIOUS
  <2>2. descriptors' = [descriptors EXCEPT ![q] = new]
    BY <1>5, <2>1
  <2>3. new \in [0 .. 2 -> Descriptor]
    BY <1>4, <2>1 DEF DrvInv, StateType
  <2>4. descriptors'[q] = new
    BY <2>2 DEF DrvInv, StateType
  <2>5. \A i \in 1 .. Len(L) : new[i - 1] = L[i]
    BY <1>4, <2>1
  <2> QED  BY <2>2, <2>3, <2>4, <2>5 DEF DrvInv, StateType
<1>7. memory'["request"] = Current /\ memory'["data"] = Current.data /\ Current.data \in Data
  <2>1. Current.data \in Data
    BY <1>1 DEF WellFormed, CommandType
  <2> QED  BY <1>5, <2>1
<1>8. ~Served /\ Answered = Len(call.got) /\ \A r \in Queue : ~WaitsFor(r)
  BY <1>0 DEF Served, Answered, WaitsFor
<1>9. \A r \in Queue : used[r] = available[r] /\ taken[r] = None
  BY <1>8 DEF DrvInv, QueuesInv
<1>10. CASE NextIndex(available[q]) = INDEX_END
  <2>1. panicked' = "index" /\ call' = call /\ available' = available
    BY <1>5, <1>10
  <2>2. ~Served' /\ Answered' = Len(call.got) /\ (\A r \in Queue : ~WaitsFor(r)') /\ Current' = Current
    BY <1>0, <2>1 DEF Served, Answered, WaitsFor, Current
  <2>3. StateType'
    BY <1>5, <1>6, <2>1 DEF DrvInv, StateType, PanicReason
  <2>4. QueuesInv'
    BY <1>5, <1>9, <2>1 DEF QueuesInv
  <2>5. CallInv'
    BY <1>5, <2>1 DEF DrvInv, CallInv, OpInv
  <2>6. MemoryInv' /\ DriveInv'
    BY <1>0, <2>1, <2>2 DEF MemoryInv, DriveInv
  <2>7. SetUpInv' /\ AcceptedInv' /\ ScreenInv'
    BY <1>5, <1>8, <2>1, <2>2 DEF DrvInv, DisplayInv, SetUpInv, SetUp, AcceptedInv, ScreenInv
  <2>8. CursorInv'
    BY <1>5, <1>8, <2>1, <2>2 DEF DrvInv, DisplayInv, CursorInv
  <2> QED  BY <2>3, <2>4, <2>5, <2>6, <2>7, <2>8 DEF DrvInv, DisplayInv
<1>11. CASE NextIndex(available[q]) # INDEX_END
  <2>1. /\ panicked' = panicked /\ call' = [call EXCEPT !.waiting = TRUE]
        /\ available' = [available EXCEPT ![q] = available[q] + 1]
    BY <1>5, <1>11 DEF NextIndex
  <2>2. /\ call' \in CallType /\ call' # None /\ call'.op = call.op /\ call'.arg = call.arg
        /\ call'.commands = call.commands /\ call'.got = call.got /\ call'.waiting
    BY <1>0, <2>1, SubmitCall
  <2>3. Current' = Current
    BY <2>2 DEF Current
  <2>4. /\ available'[q] = used[q] + 1 /\ available'[q] \in 0 .. INDEX_END - 1 /\ used[q] \in Nat
        /\ \A r \in Queue \ {q} : available'[r] = available[r]
        /\ available' \in [Queue -> 0 .. INDEX_END - 1]
    <3>1. available[q] \in 0 .. INDEX_END - 1 /\ available[q] + 1 # INDEX_END /\ INDEX_END \in Nat
      BY <1>11, DriversAssumption DEF DrvInv, StateType, NextIndex
    <3>2. available[q] + 1 \in 0 .. INDEX_END - 1
      BY <3>1
    <3> QED  BY <1>9, <2>1, <3>1, <3>2 DEF DrvInv, StateType
  <2>5. ~Served' /\ Answered' = Len(call.got)
    <3>0. Current'.queue = q /\ used' = used
      BY <1>2, <1>5, <2>3
    <3>1. used'[Current'.queue] # available'[Current'.queue]
      <4>1. used[q] # used[q] + 1
        BY <2>4
      <4> QED  BY <2>4, <3>0, <4>1, Zenon
    <3> QED  BY <2>2, <3>1 DEF Served, Answered
  <2>6. StateType'
    BY <1>5, <1>6, <2>1, <2>2, <2>4 DEF DrvInv, StateType
  <2>7. QueuesInv'
    <3>1. WaitsFor(q)'
      BY <1>2, <2>2, <2>3 DEF WaitsFor
    <3>2. used' = used /\ taken' = taken
      BY <1>5
    <3> QED  BY <1>9, <2>4, <3>1, <3>2 DEF QueuesInv
  <2>8. CallInv'
    <3>1. OpInv'
      BY <1>0, <1>5, <2>2 DEF OpInv
    <3> QED  BY <1>0, <2>2, <3>1 DEF CallInv
  <2>9. MemoryInv'
    <3>1. Layout(Current)' = L
      BY <1>3, <2>3 DEF Layout, readonly, writeonly
    <3>2. taken'[q] = None
      BY <1>5, <1>9
    <3> QED  BY <1>2, <1>6, <1>7, <2>3, <3>1, <3>2 DEF MemoryInv
  <2>10. DriveInv'
    BY <1>5, <1>0, <2>1, <2>2, <2>5 DEF DrvInv, DriveInv
  <2>11. SetUpInv' /\ AcceptedInv' /\ ScreenInv'
    BY <1>0, <1>5, <1>8, <2>1, <2>2, <2>5 DEF DrvInv, DisplayInv, SetUpInv, SetUp, AcceptedInv, ScreenInv
  <2>12. CursorInv'
    BY <1>0, <1>5, <1>8, <2>2, <2>3, <2>5 DEF DrvInv, DisplayInv, CursorInv
  <2> QED  BY <2>6, <2>7, <2>8, <2>9, <2>10, <2>11, <2>12 DEF DrvInv, DisplayInv
<1> QED  BY <1>10, <1>11

\* Why a response panics the kernel.
LEMMA Refusals ==
  ASSUME NEW c \in WellFormed, NEW response,
         c.queue = "control" => response \in {"ok", "disabled"}
  PROVE  /\ Refusal(c, response) \in PanicReason \ {"refused"}
         /\ c.queue = "drive" /\ Refusal(c, response) = "no" => response = "ok"
<1>1. c.queue \in Queue
  BY DEF WellFormed, CommandType
<1>2. CASE c.queue = "cursor"
  <2>1. c.queue # "drive"
    BY <1>2
  <2>2. Refusal(c, response) \in {"no", "disabled"}
    BY <1>2, <2>1, Zenon DEF Refusal
  <2> QED  BY <2>1, <2>2 DEF PanicReason
<1>3. CASE c.queue = "drive"
  <2>1. c.queue # "cursor"
    BY <1>3
  <2>2. CASE response = "ok"
    <3>1. response # "disabled"
      BY <2>2
    <3>2. Refusal(c, response) \in {"no", "drive"}
      BY <1>3, <2>1, <2>2, <3>1, Zenon DEF Refusal
    <3> QED  BY <2>2, <3>2 DEF PanicReason
  <2>3. CASE response # "ok"
    <3>1. Refusal(c, response) \in {"drive", "disabled"}
      BY <1>3, <2>1, <2>3, Zenon DEF Refusal
    <3> QED  BY <3>1 DEF PanicReason
  <2> QED  BY <2>2, <2>3
<1>4. CASE c.queue = "control"
  <2>1. c.queue # "cursor" /\ c.queue # "drive" /\ (response = "ok" \/ response = "disabled")
    BY <1>4
  <2>2. Refusal(c, response) \in {"no", "disabled"}
    BY <2>1, Zenon DEF Refusal
  <2> QED  BY <2>1, <2>2 DEF PanicReason
<1> QED  BY <1>1, <1>2, <1>3, <1>4 DEF Queue

\* The device was done: the command counts as answered before and after.
LEMMA FinishKeeps ==
  ASSUME DrvInv, Finish
  PROVE  DrvInv'
<1>0. /\ panicked = "no" /\ call # None /\ call.waiting /\ call \in CallType
      /\ OpInv /\ Len(call.got) < Len(call.commands) /\ Len(call.got) \in Nat
  BY DEF Finish, DrvInv, StateType, CallInv, CallType
<1>1. PICK c \in WellFormed : c = Current
  BY <1>0, CurrentStage
<1>2. PICK q \in Queue : q = Current.queue
  BY <1>1 DEF WellFormed, CommandType
<1>3. Served /\ Answered = Len(call.got) + 1 /\ \A r \in Queue : used[r] = available[r] /\ taken[r] = None
  <2>1. ~(used[q] < available[q])
    BY <1>2 DEF Finish, Waits
  <2>2. used[q] \in Nat /\ available[q] \in Nat
    BY DEF DrvInv, StateType
  <2>3. \A r \in Queue \ {q} : ~WaitsFor(r)
    BY <1>2 DEF WaitsFor
  <2>4. used[q] = available[q] /\ taken[q] = None
    BY <2>1, <2>2 DEF DrvInv, QueuesInv
  <2> QED  BY <1>0, <1>2, <2>3, <2>4 DEF Served, Answered, DrvInv, QueuesInv
<1>4. PICK x \in Data : x = memory["data"]
  BY <1>0 DEF DrvInv, MemoryInv
<1>5. /\ panicked' = Refusal(Current, memory["response"])
      /\ call' = [call EXCEPT !.got = Append(@, x), !.waiting = FALSE]
      /\ cursor_updated' = (cursor_updated \/ call.op = "cursor_image_modified")
      /\ UNCHANGED <<devices, used, taken, disk, images, display, descriptors, available, regions>>
  BY <1>4 DEF Finish, hardware
<1>6. /\ call' \in CallType /\ call' # None
      /\ call'.op = call.op /\ call'.arg = call.arg /\ call'.commands = call.commands
      /\ call'.got = Append(call.got, x) /\ ~call'.waiting
  <2>1. PICK g : g = Append(call.got, x)
    OBVIOUS
  <2>2. call.got \in Seq(Data)
    BY <1>0 DEF CallType
  <2>3. g \in Seq(Data)
    BY <2>1, <2>2
  <2>4. call' = [call EXCEPT !.got = g, !.waiting = FALSE]
    BY <1>5, <2>1
  <2>5. /\ call'.op = call.op /\ call'.arg = call.arg /\ call'.commands = call.commands
        /\ call'.got = g /\ ~call'.waiting
    BY <1>0, <2>4 DEF CallType
  <2>6. call' \in CallType
    BY <1>0, <2>3, <2>4 DEF CallType
  <2> QED  BY <2>1, <2>5, <2>6, NoneAssumption
<1>7. /\ panicked' \in PanicReason \ {"refused"}
      /\ Current.queue = "drive" /\ panicked' = "no" => memory["response"] = "ok"
  <2>1. c.queue = "control" => memory["response"] \in {"ok", "disabled"}
    BY <1>0, <1>1, <1>3 DEF DrvInv, DisplayInv, AcceptedInv
  <2> QED  BY <1>1, <1>5, <2>1, Refusals
<1>8. /\ Len(call'.got) = Len(call.got) + 1 /\ call'.got[Len(call.got) + 1] = x
      /\ \A i \in 1 .. Len(call.got) : call'.got[i] = call.got[i]
  <2>1. call.got \in Seq(Data)
    BY <1>0 DEF CallType
  <2> QED  BY <1>6, <2>1
<1>9. ~Served' /\ Answered' = Len(call.got) + 1 /\ \A r \in Queue : ~WaitsFor(r)'
  BY <1>6, <1>8 DEF Served, Answered, WaitsFor
<1>10. StateType'
  BY <1>5, <1>6, <1>7 DEF DrvInv, StateType
<1>11. QueuesInv'
  BY <1>3, <1>5 DEF QueuesInv
<1>12. CallInv'
  <2>1. OpInv'
    BY <1>0, <1>5, <1>6 DEF OpInv
  <2>2. Len(call.commands) \in Nat
    BY <1>0 DEF CallType
  <2> QED  BY <1>0, <1>6, <1>8, <2>1, <2>2 DEF CallInv
<1>13. MemoryInv'
  BY <1>6 DEF MemoryInv
<1>14. DriveInv'
  <2>1. Current = call.commands[Len(call.got) + 1]
    BY DEF Current
  <2>2. Current.cmd \in {"in", "out"} => Current.queue = "drive"
    <3>1. Stage(call.op, Len(call.got), Current)
      BY <1>0, CurrentStage
    <3> QED  BY <3>1 DEF Stage, Has
  <2>3. panicked' = "no" /\ Current.cmd = "in" => x = disk[Current.arg]
    BY <1>0, <1>3, <1>4, <1>7, <2>2 DEF DrvInv, DriveInv
  <2>4. panicked' = "no" /\ Current.cmd = "out" => disk[Current.arg] = Current.data
    BY <1>0, <1>3, <1>7, <2>2 DEF DrvInv, DriveInv
  <2>5. panicked' = "no" => \A i \in 1 .. Len(call.got) :
         /\ call.commands[i].cmd = "in" => call.got[i] = disk[call.commands[i].arg]
         /\ call.commands[i].cmd = "out" => disk[call.commands[i].arg] = call.commands[i].data
    BY <1>0 DEF DrvInv, DriveInv
  <2>6. \A i \in 1 .. Len(call'.got) : i \in 1 .. Len(call.got) \/ i = Len(call.got) + 1
    BY <1>0, <1>8
  <2> QED  BY <1>5, <1>6, <1>8, <1>9, <2>1, <2>3, <2>4, <2>5, <2>6 DEF DriveInv
<1>15. SetUpInv' /\ AcceptedInv' /\ ScreenInv'
  BY <1>0, <1>3, <1>5, <1>6, <1>7, <1>9 DEF DrvInv, DisplayInv, SetUpInv, SetUp, AcceptedInv, ScreenInv
<1>16. CursorInv'
  <2>1. ~cursor_updated' => ~cursor_updated /\ call.op # "cursor_image_modified"
    BY <1>5
  <2>2. Answered' = Answered /\ Answered # 0
    BY <1>0, <1>3, <1>9
  <2> QED  BY <1>0, <1>5, <1>6, <2>1, <2>2 DEF DrvInv, DisplayInv, CursorInv
<1> QED  BY <1>10, <1>11, <1>12, <1>13, <1>14, <1>15, <1>16 DEF DrvInv, DisplayInv

-----------------------------------------------------------------------------
(* Steps of the devices. *)

LEMMA Taken ==
  ASSUME DrvInv, NEW q \in Queue, taken[q] # None \/ used[q] # available[q]
  PROVE  /\ call # None /\ call \in CallType /\ call.waiting /\ Current.queue = q
         /\ used[q] + 1 = available[q] /\ ~Served /\ Answered = Len(call.got)
         /\ OpInv /\ Len(call.got) \in Nat /\ Len(call.got) < Len(call.commands)
<1>1. used[q] + 1 = available[q] /\ WaitsFor(q) /\ used[q] \in Nat
  BY DEF DrvInv, QueuesInv, StateType
<1>2. /\ call # None /\ call \in CallType /\ call.waiting /\ Current.queue = q
      /\ OpInv /\ Len(call.got) \in Nat /\ Len(call.got) < Len(call.commands)
  BY <1>1 DEF WaitsFor, DrvInv, StateType, CallInv, CallType
<1>3. used[q] # available[q]
  BY <1>1
<1> QED  BY <1>1, <1>2, <1>3 DEF Served, Answered

LEMMA TakeKeeps ==
  ASSUME DrvInv, NEW q \in Queue, Take(q)
  PROVE  DrvInv'
<1>0. /\ taken' = [taken EXCEPT ![q] = Chain(q)]
      /\ UNCHANGED <<devices, kernel, used, disk, images, display, panicked>>
  BY DEF Take
<1>1. /\ call # None /\ call \in CallType /\ call.waiting /\ Current.queue = q
      /\ used[q] + 1 = available[q] /\ ~Served
      /\ OpInv /\ Len(call.got) < Len(call.commands)
  BY Taken DEF Take
<1>2. PICK c \in WellFormed : c = Current
  BY <1>1, CurrentStage
<1>3. Chain(q) = Layout(Current)
  BY <1>1, <1>2, ChainFound DEF DrvInv, MemoryInv
<1>4. /\ taken'[q] = Layout(Current) /\ \A r \in Queue \ {q} : taken'[r] = taken[r]
      /\ DOMAIN taken' = Queue /\ taken' = [r \in Queue |-> taken'[r]]
  BY <1>0, <1>3 DEF DrvInv, StateType
<1>5. /\ (Served' <=> Served) /\ Answered' = Answered /\ Current' = Current
      /\ \A r \in Queue : WaitsFor(r)' <=> WaitsFor(r)
  BY <1>0 DEF Served, Answered, Current, WaitsFor, kernel
<1>6. StateType'
  BY <1>0, <1>4 DEF DrvInv, StateType, kernel
<1>7. QueuesInv'
  <2>1. WaitsFor(q)'
    BY <1>1, <1>5 DEF WaitsFor
  <2>2. used' = used /\ available' = available
    BY <1>0 DEF kernel
  <2> QED  BY <1>1, <1>4, <1>5, <2>1, <2>2 DEF DrvInv, QueuesInv
<1>8. CallInv'
  BY <1>0 DEF DrvInv, CallInv, OpInv, kernel
<1>9. MemoryInv'
  <2>1. Layout(Current)' = Layout(Current)
    BY <1>5 DEF Layout, readonly, writeonly
  <2>2. memory' = memory /\ descriptors' = descriptors /\ call' = call
    BY <1>0 DEF kernel
  <2> QED  BY <1>1, <1>4, <1>5, <2>1, <2>2 DEF DrvInv, MemoryInv
<1>10. DriveInv'
  BY <1>0, <1>5 DEF DrvInv, DriveInv, kernel
<1>11. SetUpInv' /\ AcceptedInv' /\ ScreenInv'
  BY <1>0, <1>5 DEF DrvInv, DisplayInv, SetUpInv, SetUp, AcceptedInv, ScreenInv, kernel
<1>12. CursorInv'
  BY <1>0, <1>5 DEF DrvInv, DisplayInv, CursorInv, kernel
<1> QED  BY <1>6, <1>7, <1>8, <1>9, <1>10, <1>11, <1>12 DEF DrvInv, DisplayInv

\* How the drive answers.
LEMMA DriveServed ==
  ASSUME NEW c, NEW cmd \in {"in", "out"}, Has(c, "drive", cmd, c.arg, c.data)
  PROVE  Response(c) = IF c.arg < CAPACITY THEN "ok" ELSE "err"
<1>1. /\ c.queue = "drive" /\ c.cmd # "get_display_info" /\ c.cmd # "create_2d"
      /\ c.cmd \notin {"attach_backing", "set_scanout", "flush"} /\ c.cmd # "transfer"
  BY DEF Has
<1> QED  BY <1>1, Zenon DEF Response

\* How the display answers each command, and what it then shows.
LEMMA InfoServed ==
  ASSUME NEW c, Has(c, "control", "get_display_info", 0, None)
  PROVE  Response(c) \in {"ok", "disabled"} /\ Shown(c, c.data) = display
<1>1. /\ c.queue # "drive" /\ c.cmd = "get_display_info" /\ c.cmd # "create_2d"
      /\ c.cmd \notin {"attach_backing", "set_scanout", "flush"} /\ c.cmd # "transfer"
      /\ c.cmd # "attach_backing" /\ c.cmd # "set_scanout" /\ c.cmd # "flush"
      /\ c.cmd # "update_cursor" /\ c.cmd # "move_cursor"
  BY DEF Has
<1>2. Response(c) = IF display.enabled THEN "ok" ELSE "disabled"
  BY <1>1, Zenon DEF Response
<1>3. Shown(c, c.data) = display
  BY <1>1, Zenon DEF Shown
<1> QED  BY <1>2, <1>3

LEMMA CreateServed ==
  ASSUME NEW c, NEW r \in Resource, Has(c, "control", "create_2d", r, None), r \notin display.created
  PROVE  /\ Response(c) = "ok"
         /\ Shown(c, c.data) = [display EXCEPT !.created = display.created \cup {r}]
<1>1. /\ c.queue # "drive" /\ c.cmd # "get_display_info" /\ c.cmd = "create_2d" /\ c.arg = r
      /\ c.cmd \notin {"attach_backing", "set_scanout", "flush"} /\ c.cmd # "transfer"
      /\ c.cmd # "attach_backing" /\ c.cmd # "set_scanout" /\ c.cmd # "flush"
      /\ c.cmd # "update_cursor" /\ c.cmd # "move_cursor"
  BY DEF Has
<1>2. Response(c) = IF r \in display.created THEN "err" ELSE "ok"
  BY <1>1, Zenon DEF Response
<1>3. Shown(c, c.data) = [display EXCEPT !.created = display.created \cup {r}]
  BY <1>1, Zenon DEF Shown
<1> QED  BY <1>2, <1>3

LEMMA AttachServed ==
  ASSUME NEW c, NEW r \in Resource, NEW image, Has(c, "control", "attach_backing", r, image),
         r \in display.created
  PROVE  /\ Response(c) = "ok"
         /\ Shown(c, c.data) = [display EXCEPT !.backing[r] = image]
<1>1. /\ c.queue # "drive" /\ c.cmd # "get_display_info" /\ c.cmd # "create_2d" /\ c.arg = r
      /\ c.cmd \in {"attach_backing", "set_scanout", "flush"} /\ c.cmd # "transfer"
      /\ c.cmd = "attach_backing" /\ c.cmd # "set_scanout" /\ c.cmd # "flush"
      /\ c.cmd # "update_cursor" /\ c.cmd # "move_cursor" /\ c.data = image
  BY DEF Has
<1>2. Response(c) = IF r \in display.created THEN "ok" ELSE "err"
  BY <1>1, Zenon DEF Response
<1>3. Shown(c, c.data) = [display EXCEPT !.backing[r] = image]
  BY <1>1, Zenon DEF Shown
<1> QED  BY <1>2, <1>3

LEMMA ScanoutServed ==
  ASSUME NEW c, Has(c, "control", "set_scanout", 1, None), 1 \in display.created
  PROVE  /\ Response(c) = "ok"
         /\ Shown(c, c.data) = [display EXCEPT !.scanout = 1]
<1>1. /\ c.queue # "drive" /\ c.cmd # "get_display_info" /\ c.cmd # "create_2d" /\ c.arg = 1
      /\ c.cmd \in {"attach_backing", "set_scanout", "flush"} /\ c.cmd # "transfer"
      /\ c.cmd # "attach_backing" /\ c.cmd = "set_scanout" /\ c.cmd # "flush"
      /\ c.cmd # "update_cursor" /\ c.cmd # "move_cursor"
  BY DEF Has
<1>2. Response(c) = IF 1 \in display.created THEN "ok" ELSE "err"
  BY <1>1, Zenon DEF Response
<1>3. Shown(c, c.data) = [display EXCEPT !.scanout = 1]
  BY <1>1, Zenon DEF Shown
<1> QED  BY <1>2, <1>3

LEMMA TransferServed ==
  ASSUME NEW c, NEW r \in Resource, NEW image \in Images, Has(c, "control", "transfer", r, None),
         display.backing[r] = image
  PROVE  /\ Response(c) = "ok"
         /\ Shown(c, c.data) = [display EXCEPT !.host[r] = images[image]]
<1>1. /\ c.queue # "drive" /\ c.cmd # "get_display_info" /\ c.cmd # "create_2d" /\ c.arg = r
      /\ c.cmd \notin {"attach_backing", "set_scanout", "flush"} /\ c.cmd = "transfer"
      /\ c.cmd # "attach_backing" /\ c.cmd # "set_scanout" /\ c.cmd # "flush"
      /\ c.cmd # "update_cursor" /\ c.cmd # "move_cursor"
  BY DEF Has
<1>2. Response(c) = IF display.backing[r] # None THEN "ok" ELSE "err"
  BY <1>1, Zenon DEF Response
<1>3. Shown(c, c.data) = [display EXCEPT !.host[r] = images[image]]
  BY <1>1, Zenon DEF Shown
<1> QED  BY <1>2, <1>3, NoneAssumption

LEMMA FlushServed ==
  ASSUME NEW c, Has(c, "control", "flush", 1, None), 1 \in display.created, display.scanout = 1
  PROVE  /\ Response(c) = "ok"
         /\ Shown(c, c.data) = [display EXCEPT !.screen = display.host[1]]
<1>1. /\ c.queue # "drive" /\ c.cmd # "get_display_info" /\ c.cmd # "create_2d" /\ c.arg = 1
      /\ c.cmd \in {"attach_backing", "set_scanout", "flush"} /\ c.cmd # "transfer"
      /\ c.cmd # "attach_backing" /\ c.cmd # "set_scanout" /\ c.cmd = "flush"
      /\ c.cmd # "update_cursor" /\ c.cmd # "move_cursor"
  BY DEF Has
<1>2. Response(c) = IF 1 \in display.created THEN "ok" ELSE "err"
  BY <1>1, Zenon DEF Response
<1>3. Shown(c, c.data) = [display EXCEPT !.screen = display.host[1]]
  BY <1>1, Zenon DEF Shown
<1> QED  BY <1>2, <1>3

LEMMA UpdateServed ==
  ASSUME NEW c, NEW pos, Has(c, "cursor", "update_cursor", 2, pos)
  PROVE  /\ Response(c) = "ok"
         /\ Shown(c, c.data) = [display EXCEPT !.cursor = display.host[2], !.pos = pos]
<1>1. /\ c.queue # "drive" /\ c.cmd # "get_display_info" /\ c.cmd # "create_2d" /\ c.arg = 2
      /\ c.cmd \notin {"attach_backing", "set_scanout", "flush"} /\ c.cmd # "transfer"
      /\ c.cmd # "attach_backing" /\ c.cmd # "set_scanout" /\ c.cmd # "flush"
      /\ c.cmd = "update_cursor" /\ c.cmd # "move_cursor" /\ c.data = pos
  BY DEF Has
<1>2. Response(c) = "ok"
  BY <1>1, Zenon DEF Response
<1>3. Shown(c, c.data) = [display EXCEPT !.cursor = display.host[2], !.pos = pos]
  BY <1>1, Zenon DEF Shown
<1> QED  BY <1>2, <1>3

LEMMA MoveServed ==
  ASSUME NEW c, NEW pos, Has(c, "cursor", "move_cursor", 2, pos)
  PROVE  /\ Response(c) = "ok"
         /\ Shown(c, c.data) = [display EXCEPT !.pos = pos]
<1>1. /\ c.queue # "drive" /\ c.cmd # "get_display_info" /\ c.cmd # "create_2d" /\ c.arg = 2
      /\ c.cmd \notin {"attach_backing", "set_scanout", "flush"} /\ c.cmd # "transfer"
      /\ c.cmd # "attach_backing" /\ c.cmd # "set_scanout" /\ c.cmd # "flush"
      /\ c.cmd # "update_cursor" /\ c.cmd = "move_cursor" /\ c.data = pos
  BY DEF Has
<1>2. Response(c) = "ok"
  BY <1>1, Zenon DEF Response
<1>3. Shown(c, c.data) = [display EXCEPT !.pos = pos]
  BY <1>1, Zenon DEF Shown
<1> QED  BY <1>2, <1>3

\* A device serves the request the kernel waits for.
LEMMA ServeFacts ==
  ASSUME DrvInv, NEW q \in Queue, Serve(q)
  PROVE  /\ call # None /\ call \in CallType /\ call.waiting /\ Current.queue = q
         /\ OpInv /\ Len(call.got) \in Nat /\ Len(call.got) < Len(call.commands)
         /\ UNCHANGED <<devices, descriptors, available, call, regions, cursor_updated, images, panicked>>
         /\ ~Served /\ Answered = Len(call.got)
         /\ Served' /\ Answered' = Len(call.got) + 1 /\ Current' = Current
         /\ used' \in [Queue -> 0 .. INDEX_END - 1] /\ used' = available
         /\ taken' = [r \in Queue |-> None]
         /\ Current.queue # "cursor" => memory'["response"] = Response(Current)
         /\ memory'["data"] = IF Current.cmd = "in" /\ Response(Current) = "ok"
                                THEN disk[Current.arg] ELSE Current.data
         /\ disk' = IF Current.cmd = "out" /\ Response(Current) = "ok"
                      THEN [disk EXCEPT ![Current.arg] = Current.data] ELSE disk
         /\ display' = IF Current.queue # "drive" /\ Response(Current) = "ok"
                         THEN Shown(Current, Current.data) ELSE display
<1>1. /\ call # None /\ call \in CallType /\ call.waiting /\ Current.queue = q
      /\ used[q] + 1 = available[q] /\ ~Served /\ Answered = Len(call.got)
      /\ OpInv /\ Len(call.got) \in Nat /\ Len(call.got) < Len(call.commands)
  BY Taken DEF Serve
<1>2. PICK c \in WellFormed : c = Current
  BY <1>1, CurrentStage
<1>3. PICK L : L = Layout(c) /\ L = taken[q]
  BY <1>1, <1>2 DEF Serve, DrvInv, MemoryInv
<1>4. /\ L[1].address = "request" /\ (Last(L).write <=> c.queue # "cursor")
      /\ Last(L).write => Last(L).address = "response"
      /\ c.cmd \in {"in", "out"} => L[2].address = "data"
  BY <1>3, LayoutFacts DEF Last
<1>5. memory["request"] = c /\ memory["data"] = c.data
  BY <1>1, <1>2 DEF DrvInv, MemoryInv
<1>6. /\ taken' = [taken EXCEPT ![q] = None]
      /\ used' = [used EXCEPT ![q] = (used[q] + 1) % INDEX_END]
      /\ memory' = [a \in Address |->
                      CASE a = Last(L).address /\ Last(L).write -> Response(c)
                        [] c.cmd = "in" /\ Response(c) = "ok" /\ a = L[2].address -> disk[c.arg]
                        [] OTHER -> memory[a]]
      /\ disk' = IF c.cmd = "out" /\ Response(c) = "ok"
                   THEN [disk EXCEPT ![c.arg] = memory[L[2].address]] ELSE disk
      /\ display' = IF c.queue # "drive" /\ Response(c) = "ok" THEN Shown(c, c.data) ELSE display
      /\ UNCHANGED <<devices, descriptors, available, call, regions, cursor_updated, images, panicked>>
  <2>1. taken[q] = L /\ memory[L[1].address] = c
    BY <1>3, <1>4, <1>5
  <2>2. /\ taken' = [taken EXCEPT ![q] = None]
        /\ used' = [used EXCEPT ![q] = (used[q] + 1) % INDEX_END]
        /\ UNCHANGED <<devices, descriptors, available, call, regions, cursor_updated, images, panicked>>
    BY DEF Serve
  <2>3. memory' = [a \in Address |->
                      CASE a = Last(L).address /\ Last(L).write -> Response(c)
                        [] c.cmd = "in" /\ Response(c) = "ok" /\ a = L[2].address -> disk[c.arg]
                        [] OTHER -> memory[a]]
    <3> DEFINE Written(chain, command, a) ==
                 CASE a = Last(chain).address /\ Last(chain).write -> Response(command)
                   [] command.cmd = "in" /\ Response(command) = "ok" /\ a = chain[2].address
                        -> disk[command.arg]
                   [] OTHER -> memory[a]
    <3>1. memory' = [a \in Address |-> Written(taken[q], memory[taken[q][1].address], a)]
      BY Zenon DEF Serve
    <3>2. memory' = [a \in Address |-> Written(L, c, a)]
      <4> HIDE DEF Written
      <4> QED  BY <2>1, <3>1
    <3> QED  BY <3>2
  <2>4. /\ disk' = IF c.cmd = "out" /\ Response(c) = "ok"
                     THEN [disk EXCEPT ![c.arg] = memory[L[2].address]] ELSE disk
        /\ display' = IF c.queue # "drive" /\ Response(c) = "ok" THEN Shown(c, c.data) ELSE display
    BY <2>1, Zenon DEF Serve
  <2> QED  BY <2>2, <2>3, <2>4
<1>7. \A r \in Queue \ {q} : used[r] = available[r] /\ taken[r] = None
  BY <1>1 DEF DrvInv, QueuesInv, WaitsFor
<1>8. (used[q] + 1) % INDEX_END = available[q]
  <2>1. used[q] + 1 \in 0 .. INDEX_END - 1 /\ INDEX_END \in Nat \ {0}
    BY <1>1, DriversAssumption DEF DrvInv, StateType
  <2>2. PICK u \in 0 .. INDEX_END - 1 : u = used[q] + 1 /\ u = available[q]
    BY <1>1, <2>1
  <2>3. u % INDEX_END = u
    BY <2>1
  <2> QED  BY <2>2, <2>3
<1>9. used' = available /\ used' \in [Queue -> 0 .. INDEX_END - 1]
  <2>1. used' = [used EXCEPT ![q] = available[q]]
    BY <1>6, <1>8
  <2> QED  BY <1>7, <2>1 DEF DrvInv, StateType
<1>10. taken' = [r \in Queue |-> None]
  BY <1>6, <1>7 DEF DrvInv, StateType
<1>11. Current' = Current /\ Served' /\ Answered' = Len(call.got) + 1
  <2>1. Current' = Current
    BY <1>6 DEF Current
  <2> QED  BY <1>1, <1>6, <1>9, <2>1 DEF Served, Answered
<1>12. c.queue # "cursor" => memory'["response"] = Response(c)
  <2> SUFFICES ASSUME c.queue # "cursor" PROVE memory'["response"] = Response(c)
    OBVIOUS
  <2>1. "response" = Last(L).address /\ Last(L).write
    BY <1>4
  <2>2. "response" \in Address /\ ~(c.cmd = "in" /\ Response(c) = "ok" /\ "response" = L[2].address)
    BY <1>4 DEF Address
  <2> QED  BY <1>6, <2>1, <2>2, Zenon
<1>13. memory'["data"] = IF c.cmd = "in" /\ Response(c) = "ok" THEN disk[c.arg] ELSE c.data
  <2>1. "data" \in Address /\ ~("data" = Last(L).address /\ Last(L).write)
    BY <1>4 DEF Address
  <2>2. CASE c.cmd = "in" /\ Response(c) = "ok"
    <3>1. "data" = L[2].address
      BY <1>4, <2>2
    <3> QED  BY <1>6, <2>1, <2>2, <3>1, Zenon
  <2>3. CASE ~(c.cmd = "in" /\ Response(c) = "ok")
    <3>1. memory'["data"] = memory["data"]
      BY <1>6, <2>1, <2>3, Zenon
    <3> QED  BY <1>5, <2>3, <3>1
  <2> QED  BY <2>2, <2>3
<1>14. disk' = IF c.cmd = "out" /\ Response(c) = "ok" THEN [disk EXCEPT ![c.arg] = c.data] ELSE disk
  BY <1>4, <1>5, <1>6
<1> QED
  <2>1. UNCHANGED <<devices, descriptors, available, call, regions, cursor_updated, images, panicked>>
    BY <1>6
  <2>2. display' = IF Current.queue # "drive" /\ Response(Current) = "ok"
                     THEN Shown(Current, Current.data) ELSE display
    BY <1>2, <1>6, Zenon
  <2>3. /\ Current.queue # "cursor" => memory'["response"] = Response(Current)
        /\ memory'["data"] = IF Current.cmd = "in" /\ Response(Current) = "ok"
                               THEN disk[Current.arg] ELSE Current.data
        /\ disk' = IF Current.cmd = "out" /\ Response(Current) = "ok"
                     THEN [disk EXCEPT ![Current.arg] = Current.data] ELSE disk
    BY <1>2, <1>12, <1>13, <1>14, Zenon
  <2> QED  BY <1>1, <1>9, <1>10, <1>11, <2>1, <2>2, <2>3

\* The drive carries out a command.
LEMMA DriveServes ==
  ASSUME DrvInv, NEW q \in Queue, Serve(q), Current.queue = "drive"
  PROVE  /\ memory'["data"] \in Data /\ ("drive" \in devices => disk' \in [0 .. CAPACITY - 1 -> Value])
         /\ display' \in DisplayType /\ DriveInv' /\ DisplayInv'
<1>1. /\ call # None /\ call \in CallType /\ OpInv /\ Len(call.got) < Len(call.commands)
      /\ UNCHANGED <<devices, call, cursor_updated, images, panicked>>
      /\ ~Served /\ Served' /\ Current' = Current
      /\ memory'["response"] = Response(Current)
      /\ memory'["data"] = IF Current.cmd = "in" /\ Response(Current) = "ok"
                             THEN disk[Current.arg] ELSE Current.data
      /\ disk' = IF Current.cmd = "out" /\ Response(Current) = "ok"
                   THEN [disk EXCEPT ![Current.arg] = Current.data] ELSE disk
      /\ display' = display
  BY ServeFacts
<1>2. PICK c \in WellFormed : c = Current /\ Stage(call.op, Len(call.got), c)
  BY <1>1, CurrentStage
<1>3. /\ "drive" \in devices /\ c.arg \in Nat /\ c.data \in Data
      /\ call.op \in {"read", "load_page", "write"}
      /\ \/ Has(c, "drive", "in", c.arg, c.data)
         \/ Has(c, "drive", "out", c.arg, c.data) /\ c.data \in Value /\ Len(call.got) = 0
  BY <1>2 DEF Stage, Has, WellFormed, CommandType
<1>4. Response(c) = IF c.arg < CAPACITY THEN "ok" ELSE "err"
  BY <1>3, DriveServed
<1>5. CAPACITY \in Nat /\ disk \in [0 .. CAPACITY - 1 -> Value] /\ (Response(c) = "ok" => c.arg \in 0 .. CAPACITY - 1)
  BY <1>3, <1>4, DriversAssumption DEF DrvInv, StateType
<1>6. display' \in DisplayType /\ SetUpInv' /\ AcceptedInv' /\ ScreenInv' /\ CursorInv'
  <2>1. call.op \notin {"new", "draw", "update_cursor", "cursor_image_modified"}
    BY <1>3
  <2>2. display' \in DisplayType /\ SetUpInv' /\ ScreenInv'
    BY <1>1, <2>1 DEF DrvInv, StateType, DisplayInv, SetUpInv, SetUp, ScreenInv
  <2>3. AcceptedInv'
    BY <1>1 DEF DrvInv, DisplayInv, AcceptedInv
  <2>4. CursorInv'
    BY <1>1, <2>1 DEF DrvInv, DisplayInv, CursorInv
  <2> QED  BY <2>2, <2>3, <2>4
<1>7. CASE Has(c, "drive", "in", c.arg, c.data)
  <2>1. c.cmd = "in" /\ disk' = disk
    BY <1>1, <1>2, <1>7 DEF Has
  <2>2. memory'["data"] \in Data
    BY <1>1, <1>2, <1>3, <1>5, <2>1 DEF Data
  <2>3. DriveInv'
    <3>1. Served' /\ memory'["response"] = "ok" => memory'["data"] = disk'[Current'.arg]
      BY <1>1, <1>2, <2>1
    <3>2. Current'.cmd # "out"
      BY <1>1, <1>2, <2>1
    <3> QED  BY <1>1, <2>1, <3>1, <3>2 DEF DrvInv, DriveInv
  <2> QED  BY <1>5, <1>6, <2>1, <2>2, <2>3 DEF DisplayInv
<1>8. CASE Has(c, "drive", "out", c.arg, c.data) /\ c.data \in Value /\ Len(call.got) = 0
  <2>1. c.cmd = "out" /\ memory'["data"] \in Data
    BY <1>1, <1>2, <1>3, <1>8 DEF Has
  <2>2. disk' = IF Response(c) = "ok" THEN [disk EXCEPT ![c.arg] = c.data] ELSE disk
    BY <1>1, <1>2, <2>1
  <2>3. disk' \in [0 .. CAPACITY - 1 -> Value] /\ (Response(c) = "ok" => disk'[c.arg] = c.data)
    BY <1>5, <1>8, <2>2
  <2>4. DriveInv'
    <3>1. Served' /\ memory'["response"] = "ok" => disk'[Current'.arg] = Current'.data
      BY <1>1, <1>2, <2>3
    <3>2. Current'.cmd # "in"
      BY <1>1, <1>2, <2>1
    <3>3. Len(call'.got) = 0
      BY <1>1, <1>8
    <3> QED  BY <3>1, <3>2, <3>3 DEF DriveInv
  <2> QED  BY <1>6, <2>1, <2>3, <2>4 DEF DisplayInv
<1> QED  BY <1>3, <1>7, <1>8

\* The part of the invariant that setting up the display is about.
LEMMA SetUpServes ==
  ASSUME display \in DisplayType, NEW n \in 0 .. 5, SetUp(n), NEW c, Stage("new", n, c),
         display' = IF Response(c) = "ok" THEN Shown(c, c.data) ELSE display
  PROVE  /\ Response(c) \in {"ok", "disabled"} /\ display' \in DisplayType /\ SetUp(n + 1)'
         /\ display'.host = display.host /\ display'.cursor = display.cursor
<1>0. 1 \in Resource /\ 2 \in Resource /\ "framebuffer" \in Images /\ "cursor_image" \in Images
  BY DEF Resource, Images
<1>1. CASE n = 0 /\ Has(c, "control", "get_display_info", 0, None)
  <2>1. Response(c) \in {"ok", "disabled"} /\ display' = display
    BY <1>1, InfoServed
  <2> QED  BY <1>1, <2>1 DEF SetUp
<1>2. ASSUME NEW r \in Resource, (n = 1 /\ r = 1) \/ (n = 4 /\ r = 2), Has(c, "control", "create_2d", r, None)
      PROVE  /\ Response(c) \in {"ok", "disabled"} /\ display' \in DisplayType /\ SetUp(n + 1)'
             /\ display'.host = display.host /\ display'.cursor = display.cursor
  <2>1. r \notin display.created
    BY <1>2 DEF SetUp
  <2>2. Response(c) = "ok" /\ display' = [display EXCEPT !.created = display.created \cup {r}]
    BY <1>2, <2>1, CreateServed
  <2>3. display.created \cup {r} \in SUBSET Resource
    BY DEF DisplayType
  <2>4. /\ display' \in DisplayType /\ display'.created = display.created \cup {r}
        /\ display'.backing = display.backing /\ display'.scanout = display.scanout
        /\ display'.host = display.host /\ display'.cursor = display.cursor
    BY <2>2, <2>3 DEF DisplayType
  <2> QED  BY <1>2, <2>2, <2>4 DEF SetUp
<1>3. ASSUME NEW r \in Resource, NEW image \in Images,
             (n = 2 /\ r = 1 /\ image = "framebuffer") \/ (n = 5 /\ r = 2 /\ image = "cursor_image"),
             Has(c, "control", "attach_backing", r, image)
      PROVE  /\ Response(c) \in {"ok", "disabled"} /\ display' \in DisplayType /\ SetUp(n + 1)'
             /\ display'.host = display.host /\ display'.cursor = display.cursor
  <2>1. r \in display.created
    BY <1>3 DEF SetUp
  <2>2. Response(c) = "ok" /\ display' = [display EXCEPT !.backing[r] = image]
    BY SMTT(30), <1>3, <2>1, AttachServed
  <2>3. PICK b : b = [display.backing EXCEPT ![r] = image]
    OBVIOUS
  <2>4. b \in [Resource -> Images \cup {None}] /\ b[r] = image /\ \A s \in Resource \ {r} : b[s] = display.backing[s]
    BY <2>3 DEF DisplayType
  <2>5. /\ display' \in DisplayType /\ display'.backing = b
        /\ display'.created = display.created /\ display'.scanout = display.scanout
        /\ display'.host = display.host /\ display'.cursor = display.cursor
    BY <2>2, <2>3, <2>4 DEF DisplayType
  <2> QED  BY <1>0, <1>3, <2>2, <2>4, <2>5 DEF SetUp
<1>4. CASE n = 3 /\ Has(c, "control", "set_scanout", 1, None)
  <2>1. 1 \in display.created
    BY <1>4 DEF SetUp
  <2>2. Response(c) = "ok" /\ display' = [display EXCEPT !.scanout = 1]
    BY <1>4, <2>1, ScanoutServed
  <2>3. /\ display' \in DisplayType /\ display'.scanout = 1
        /\ display'.created = display.created /\ display'.backing = display.backing
        /\ display'.host = display.host /\ display'.cursor = display.cursor
    BY <1>0, <2>2 DEF DisplayType
  <2> QED  BY <1>4, <2>2, <2>3 DEF SetUp
<1>5. \/ n = 0 /\ Has(c, "control", "get_display_info", 0, None)
      \/ n = 1 /\ Has(c, "control", "create_2d", 1, None)
      \/ n = 2 /\ Has(c, "control", "attach_backing", 1, "framebuffer")
      \/ n = 3 /\ Has(c, "control", "set_scanout", 1, None)
      \/ n = 4 /\ Has(c, "control", "create_2d", 2, None)
      \/ n = 5 /\ Has(c, "control", "attach_backing", 2, "cursor_image")
  BY DEF Stage
<1>6. CASE n = 1 /\ Has(c, "control", "create_2d", 1, None)
  BY <1>0, <1>2, <1>6
<1>7. CASE n = 4 /\ Has(c, "control", "create_2d", 2, None)
  BY <1>0, <1>2, <1>7
<1>8. CASE n = 2 /\ Has(c, "control", "attach_backing", 1, "framebuffer")
  BY <1>0, <1>3, <1>8
<1>9. CASE n = 5 /\ Has(c, "control", "attach_backing", 2, "cursor_image")
  BY <1>0, <1>3, <1>9
<1> QED  BY <1>1, <1>4, <1>5, <1>6, <1>7, <1>8, <1>9

\* The display carries out a command.
LEMMA DisplayServes ==
  ASSUME DrvInv, NEW q \in Queue, Serve(q), Current.queue # "drive"
  PROVE  /\ memory'["data"] \in Data /\ disk' = disk
         /\ display' \in DisplayType /\ DriveInv' /\ DisplayInv'
<1>1. /\ call # None /\ call \in CallType /\ OpInv /\ Len(call.got) < Len(call.commands)
      /\ UNCHANGED <<devices, call, cursor_updated, images, panicked>>
      /\ ~Served /\ Served' /\ Current' = Current
      /\ Answered = Len(call.got) /\ Answered' = Len(call.got) + 1
      /\ Current.queue # "cursor" => memory'["response"] = Response(Current)
      /\ memory'["data"] = IF Current.cmd = "in" /\ Response(Current) = "ok"
                             THEN disk[Current.arg] ELSE Current.data
      /\ disk' = IF Current.cmd = "out" /\ Response(Current) = "ok"
                   THEN [disk EXCEPT ![Current.arg] = Current.data] ELSE disk
      /\ display' = IF Response(Current) = "ok" THEN Shown(Current, Current.data) ELSE display
  BY ServeFacts
<1>2. PICK c \in WellFormed : c = Current /\ Stage(call.op, Len(call.got), c)
  BY <1>1, CurrentStage
<1>3. PICK n \in Nat : n = Len(call.got)
  BY <1>1 DEF CallType
<1>4. display' = IF Response(c) = "ok" THEN Shown(c, c.data) ELSE display
  BY <1>1, <1>2
<1>5. memory'["data"] \in Data /\ disk' = disk /\ DriveInv'
  <2>1. Current.cmd # "in" /\ Current.cmd # "out" /\ Current.data \in Data
    BY <1>2 DEF Stage, Has, WellFormed, CommandType
  <2>2. memory'["data"] \in Data /\ disk' = disk
    BY <1>1, <2>1
  <2> QED  BY <1>1, <2>1, <2>2 DEF DrvInv, DriveInv
<1>6. display \in DisplayType /\ images \in [Images -> Value]
  BY DEF DrvInv, StateType
<1>7. (call.op \notin {"new", "handle"} => "display" \in devices) /\ (call.op = "new" => "display" \in devices)
  BY <1>1, CurrentStage
<1>8. "display" \in devices /\ call.op # "new" =>
        /\ 1 \in display.created /\ 2 \in display.created /\ display.scanout = 1
        /\ display.backing[1] = "framebuffer" /\ display.backing[2] = "cursor_image"
  BY DEF DrvInv, DisplayInv, SetUpInv, SetUp
<1>9. 1 \in Resource /\ 2 \in Resource /\ "framebuffer" \in Images /\ "cursor_image" \in Images
  BY DEF Resource, Images
<1> DEFINE Goal == display' \in DisplayType /\ Response(c) \in {"ok", "disabled"}
                     /\ SetUpInv' /\ ScreenInv' /\ CursorInv'
<1>10. ASSUME call.op = "new" PROVE Goal
  <2>1. SetUp(n)
    BY <1>1, <1>3, <1>7, <1>10 DEF DrvInv, DisplayInv, SetUpInv
  <2>2. n \in 0 .. 5 /\ Stage("new", n, c)
    BY <1>2, <1>3, <1>10 DEF Stage
  <2>3. /\ Response(c) \in {"ok", "disabled"} /\ display' \in DisplayType /\ SetUp(n + 1)'
        /\ display'.host = display.host /\ display'.cursor = display.cursor
    BY <1>4, <1>6, <2>1, <2>2, SetUpServes
  <2>4. SetUpInv' /\ ScreenInv'
    BY <1>1, <1>3, <1>10, <2>3 DEF SetUpInv, ScreenInv
  <2>5. CursorInv'
    BY <1>1, <1>10, <2>3 DEF DrvInv, DisplayInv, CursorInv
  <2> QED  BY <2>3, <2>4, <2>5
<1>11. ASSUME call.op = "handle" PROVE Goal
  <2>1. Response(c) \in {"ok", "disabled"} /\ display' = display
    BY <1>2, <1>4, <1>11, InfoServed DEF Stage
  <2>2. SetUpInv' /\ ScreenInv'
    BY <1>1, <1>11, <2>1 DEF DrvInv, DisplayInv, SetUpInv, SetUp, ScreenInv
  <2>3. CursorInv'
    BY <1>1, <1>11, <2>1 DEF DrvInv, DisplayInv, CursorInv
  <2> QED  BY <1>6, <2>1, <2>2, <2>3
<1>12. ASSUME call.op = "draw" /\ n = 0 PROVE Goal
  <2>1. Has(c, "control", "transfer", 1, None)
    BY <1>2, <1>3, <1>12 DEF Stage
  <2>2. Response(c) = "ok" /\ display' = [display EXCEPT !.host[1] = images["framebuffer"]]
    BY <1>4, <1>7, <1>8, <1>9, <1>12, <2>1, TransferServed
  <2>3. PICK h : h = [display.host EXCEPT ![1] = images["framebuffer"]]
    OBVIOUS
  <2>4. h \in [Resource -> Value \cup {None}] /\ h[1] = images["framebuffer"] /\ h[2] = display.host[2]
    BY <1>6, <1>9, <2>3 DEF DisplayType
  <2>5. /\ display' \in DisplayType /\ display'.host = h
        /\ display'.created = display.created /\ display'.backing = display.backing
        /\ display'.scanout = display.scanout /\ display'.cursor = display.cursor
    BY <1>6, <2>2, <2>3, <2>4 DEF DisplayType
  <2>6. SetUpInv'
    BY <1>1, <1>12, <2>5 DEF DrvInv, DisplayInv, SetUpInv, SetUp
  <2>7. ScreenInv'
    BY <1>1, <1>3, <1>12, <2>4, <2>5 DEF ScreenInv
  <2>8. CursorInv'
    BY <1>1, <1>12, <2>4, <2>5 DEF DrvInv, DisplayInv, CursorInv
  <2> QED  BY <2>2, <2>5, <2>6, <2>7, <2>8
<1>13. ASSUME call.op = "draw" /\ n = 1 PROVE Goal
  <2>1. Has(c, "control", "flush", 1, None)
    BY <1>2, <1>3, <1>13 DEF Stage
  <2>2. Response(c) = "ok" /\ display' = [display EXCEPT !.screen = display.host[1]]
    BY <1>4, <1>7, <1>8, <1>13, <2>1, FlushServed
  <2>3. display.host[1] = images["framebuffer"] /\ display.host[1] \in Value
    BY <1>1, <1>3, <1>6, <1>9, <1>13 DEF DrvInv, DisplayInv, ScreenInv
  <2>4. /\ display' \in DisplayType /\ display'.screen = images["framebuffer"] /\ display'.host = display.host
        /\ display'.created = display.created /\ display'.backing = display.backing
        /\ display'.scanout = display.scanout /\ display'.cursor = display.cursor
    BY <1>6, <2>2, <2>3 DEF DisplayType
  <2>5. SetUpInv'
    BY <1>1, <1>13, <2>4 DEF DrvInv, DisplayInv, SetUpInv, SetUp
  <2>6. ScreenInv'
    BY <1>1, <2>3, <2>4 DEF ScreenInv
  <2>7. CursorInv'
    BY <1>1, <1>13, <2>4 DEF DrvInv, DisplayInv, CursorInv
  <2> QED  BY <2>2, <2>4, <2>5, <2>6, <2>7
<1>14. ASSUME call.op = "cursor_image_modified" PROVE Goal
  <2>1. Has(c, "control", "transfer", 2, None)
    BY <1>2, <1>14 DEF Stage
  <2>2. Response(c) = "ok" /\ display' = [display EXCEPT !.host[2] = images["cursor_image"]]
    BY <1>4, <1>7, <1>8, <1>9, <1>14, <2>1, TransferServed
  <2>3. PICK h : h = [display.host EXCEPT ![2] = images["cursor_image"]]
    OBVIOUS
  <2>4. h \in [Resource -> Value \cup {None}]
    BY <1>6, <1>9, <2>3 DEF DisplayType
  <2>5. /\ display' \in DisplayType
        /\ display'.created = display.created /\ display'.backing = display.backing
        /\ display'.scanout = display.scanout
    BY <1>6, <2>2, <2>3, <2>4 DEF DisplayType
  <2>6. SetUpInv' /\ ScreenInv'
    BY <1>1, <1>14, <2>5 DEF DrvInv, DisplayInv, SetUpInv, SetUp, ScreenInv
  <2>7. CursorInv'
    BY <1>1, <1>14 DEF CursorInv
  <2> QED  BY <2>2, <2>5, <2>6, <2>7
<1>15. ASSUME call.op = "update_cursor" PROVE Goal
  <2>0. PICK pos \in Value : pos = call.arg[1]
    BY <1>1, <1>15 DEF OpInv
  <2>1. \/ Has(c, "cursor", "update_cursor", 2, pos)
        \/ Has(c, "cursor", "move_cursor", 2, pos)
    BY <1>2, <1>15, <2>0 DEF Stage
  <2>2. CASE Has(c, "cursor", "update_cursor", 2, pos)
    <3>1. Response(c) = "ok" /\ display' = [display EXCEPT !.cursor = display.host[2], !.pos = pos]
      BY <1>4, <2>2, UpdateServed
    <3>2. display.host[2] \in Value \cup {None}
      BY <1>6, <1>9 DEF DisplayType
    <3>3. /\ display' \in DisplayType /\ display'.cursor = display'.host[2] /\ display'.pos = pos
          /\ display'.created = display.created /\ display'.backing = display.backing
          /\ display'.scanout = display.scanout
      BY <1>6, <3>1, <3>2 DEF DisplayType
    <3>4. SetUpInv' /\ ScreenInv'
      BY <1>1, <1>15, <3>3 DEF DrvInv, DisplayInv, SetUpInv, SetUp, ScreenInv
    <3>5. CursorInv'
      BY <1>1, <1>15, <2>0, <3>3 DEF DrvInv, DisplayInv, CursorInv
    <3> QED  BY <3>1, <3>3, <3>4, <3>5
  <2>3. CASE Has(c, "cursor", "move_cursor", 2, pos)
    <3>1. Response(c) = "ok" /\ display' = [display EXCEPT !.pos = pos]
      BY <1>4, <2>3, MoveServed
    <3>2. /\ display' \in DisplayType /\ display'.cursor = display.cursor /\ display'.pos = pos
          /\ display'.created = display.created /\ display'.backing = display.backing
          /\ display'.scanout = display.scanout /\ display'.host = display.host
      BY <1>6, <3>1 DEF DisplayType
    <3>3. SetUpInv' /\ ScreenInv'
      BY <1>1, <1>15, <3>2 DEF DrvInv, DisplayInv, SetUpInv, SetUp, ScreenInv
    <3>4. Current.cmd # "update_cursor"
      BY <1>2, <2>3 DEF Has
    <3>5. CursorInv'
      BY <1>1, <1>15, <2>0, <3>2, <3>4 DEF DrvInv, DisplayInv, CursorInv
    <3> QED  BY <3>1, <3>2, <3>3, <3>5
  <2> QED  BY <2>1, <2>2, <2>3
<1>16. Goal
  <2>1. \/ call.op \in {"new", "handle", "cursor_image_modified", "update_cursor"}
        \/ call.op = "draw" /\ n = 0
        \/ call.op = "draw" /\ n = 1
    BY <1>2, <1>3 DEF Stage, Has
  <2> QED  BY <1>10, <1>11, <1>12, <1>13, <1>14, <1>15, <2>1
<1>17. AcceptedInv'
  BY <1>1, <1>2, <1>16 DEF DrvInv, DisplayInv, AcceptedInv
<1> QED  BY <1>5, <1>16, <1>17 DEF DisplayInv

LEMMA ServeKeeps ==
  ASSUME DrvInv, NEW q \in Queue, Serve(q)
  PROVE  DrvInv'
<1>1. /\ call # None /\ call \in CallType /\ call.waiting /\ OpInv /\ Len(call.got) < Len(call.commands)
      /\ UNCHANGED <<devices, descriptors, available, call, regions, cursor_updated, images, panicked>>
      /\ Served' /\ used' \in [Queue -> 0 .. INDEX_END - 1] /\ used' = available
      /\ taken' = [r \in Queue |-> None]
  BY ServeFacts
<1>2. /\ memory'["data"] \in Data /\ ("drive" \in devices => disk' \in [0 .. CAPACITY - 1 -> Value])
      /\ display' \in DisplayType /\ DriveInv' /\ DisplayInv'
  <2>1. CASE Current.queue = "drive"
    BY <2>1, DriveServes
  <2>2. CASE Current.queue # "drive"
    <3>1. "drive" \in devices => disk \in [0 .. CAPACITY - 1 -> Value]
      BY DEF DrvInv, StateType
    <3> QED  BY <2>2, <3>1, DisplayServes
  <2> QED  BY <2>1, <2>2
<1>3. StateType'
  BY <1>1, <1>2 DEF DrvInv, StateType
<1>4. QueuesInv'
  BY <1>1 DEF QueuesInv
<1>5. CallInv'
  BY <1>1 DEF DrvInv, CallInv, OpInv
<1>6. MemoryInv'
  BY <1>1, <1>2 DEF MemoryInv
<1> QED  BY <1>2, <1>3, <1>4, <1>5, <1>6 DEF DrvInv

-----------------------------------------------------------------------------
(* The theorems. *)

LEMMA InitInv == Init => DrvInv
<1> SUFFICES ASSUME Init PROVE DrvInv
  OBVIOUS
<1>1. /\ devices \in Machines /\ used = [q \in Queue |-> 0] /\ available = [q \in Queue |-> 0]
      /\ taken = [q \in Queue |-> None] /\ regions = {} /\ cursor_updated = TRUE /\ panicked = "no"
      /\ call = IF "display" \in devices THEN NewCall("new", <<>>, DisplayInit) ELSE None
  BY DEF Init
<1>2. DisplayInit \in Seq(CommandType) /\ Len(DisplayInit) = 6
  <2>1. 1 \in Resource /\ 2 \in Resource
    BY DEF Resource
  <2>2. /\ GetDisplayInfo \in CommandType /\ Create2D(1) \in CommandType /\ AttachBacking(1) \in CommandType
        /\ SetScanout \in CommandType /\ Create2D(2) \in CommandType /\ AttachBacking(2) \in CommandType
    BY <2>1, CommandFacts DEF Has, WellFormed
  <2> QED  BY <2>2 DEF DisplayInit
<1>3. call # None =>
        /\ call \in CallType /\ "display" \in devices /\ call.op = "new" /\ call.commands = DisplayInit
        /\ call.got = <<>> /\ call.waiting = FALSE /\ Len(call.got) = 0
  <2> SUFFICES ASSUME call # None
               PROVE  /\ call \in CallType /\ "display" \in devices /\ call.op = "new"
                      /\ call.commands = DisplayInit
                      /\ call.got = <<>> /\ call.waiting = FALSE /\ Len(call.got) = 0
    OBVIOUS
  <2>1. "display" \in devices /\ call = NewCall("new", <<>>, DisplayInit)
    BY <1>1
  <2>2. "new" \in Op /\ <<>> \in Seq(Nat \cup Value) /\ <<>> \in Seq(Data)
    BY DEF Op
  <2>3. call \in CallType
    BY <1>2, <2>1, <2>2 DEF NewCall, CallType
  <2>4. call.op = "new" /\ call.commands = DisplayInit /\ call.got = <<>> /\ call.waiting = FALSE
    BY <2>1 DEF NewCall
  <2> QED  BY <2>1, <2>3, <2>4
<1>4. call # None => ~Served /\ Answered = 0
  BY <1>3 DEF Served, Answered
<1>5. "display" \in devices => call # None
  <2>1. NewCall("new", <<>>, DisplayInit) \in CallType
    <3>1. "new" \in Op /\ <<>> \in Seq(Nat \cup Value) /\ <<>> \in Seq(Data)
      BY DEF Op
    <3> QED  BY <1>2, <3>1 DEF NewCall, CallType
  <2> QED  BY <1>1, <2>1, NoneAssumption
<1>6. descriptors \in [Queue -> [0 .. 2 -> Descriptor]]
  <2>1. readonly("request", None) \in Descriptor
    BY DescriptorTyped DEF Address
  <2>2. descriptors = [q \in Queue |-> [i \in 0 .. 2 |-> readonly("request", None)]]
    BY DEF Init
  <2> QED  BY <2>1, <2>2
<1>7. /\ images \in [Images -> Value] /\ display \in DisplayType
      /\ display.created = {} /\ display.host[2] = None /\ display.cursor = None
  <2>1. PICK v \in Value :
          /\ images = [i \in Images |-> v]
          /\ display = [created |-> {}, backing |-> [r \in Resource |-> None],
                        host |-> [r \in Resource |-> None], scanout |-> None,
                        screen |-> None, cursor |-> None, pos |-> None, changed |-> FALSE, enabled |-> TRUE]
    BY DEF Init
  <2> QED  BY <2>1 DEF DisplayType, Resource
<1>8. StateType
  <2>1. "drive" \in devices => disk \in [0 .. CAPACITY - 1 -> Value]
    BY DEF Init
  <2>2. /\ available \in [Queue -> 0 .. INDEX_END - 1] /\ used \in [Queue -> 0 .. INDEX_END - 1]
        /\ DOMAIN taken = Queue /\ taken = [q \in Queue |-> taken[q]]
    BY <1>1, DriversAssumption
  <2>3. call \in CallType \cup {None} /\ panicked \in PanicReason /\ \A r \in regions : r.first \in Nat
    BY <1>1, <1>3 DEF PanicReason
  <2> QED  BY <1>1, <1>6, <1>7, <2>1, <2>2, <2>3 DEF StateType
<1>9. QueuesInv
  BY <1>1 DEF QueuesInv
<1>10. CallInv /\ MemoryInv /\ DriveInv
  BY <1>2, <1>3, <1>4 DEF CallInv, OpInv, MemoryInv, DriveInv
<1>11. SetUpInv /\ AcceptedInv /\ ScreenInv
  BY <1>1, <1>3, <1>4, <1>5, <1>7 DEF SetUpInv, SetUp, AcceptedInv, ScreenInv
<1>12. CursorInv
  BY <1>1, <1>3 DEF CursorInv
<1> QED  BY <1>8, <1>9, <1>10, <1>11, <1>12 DEF DrvInv, DisplayInv

LEMMA NextInv == DrvInv /\ [Next]_vars => DrvInv'
<1> SUFFICES ASSUME DrvInv, [Next]_vars PROVE DrvInv'
  OBVIOUS
<1>1. CASE Calls
  <2>1. CASE \/ \E sector \in Sector : read(sector) \/ \E data \in Value \cup {None} : write(sector, data)
             \/ \E region \in regions : \E page \in 0 .. region.pages - 1 : load_page(region, page)
    BY <2>1, DriveCallsKeep, WriteRefused
  <2>2. CASE draw \/ cursor_image_modified \/ (\E pos \in Value : update_cursor(pos)) \/ handle
    BY <2>2, DisplayCallsKeep
  <2>3. CASE \E first \in RegionStart, count \in 0 .. CAPACITY : read_mapped(first, count)
    BY <2>3, ReadMappedKeeps
  <2> QED  BY <1>1, <2>1, <2>2, <2>3 DEF Calls
<1>2. CASE Submit
  BY <1>2, SubmitKeeps
<1>3. CASE Finish
  BY <1>3, FinishKeeps
<1>4. CASE Return
  BY <1>4, ReturnKeeps
<1>5. CASE \E q \in Queue : Take(q) \/ Serve(q)
  BY <1>5, TakeKeeps, ServeKeeps
<1>6. CASE ChangeDisplay
  BY <1>6, ChangeDisplayKeeps
<1>7. CASE \E image \in Images, v \in Value : Paint(image, v)
  BY <1>7, PaintKeeps
<1>8. CASE UNCHANGED vars
  <2>1. UNCHANGED <<devices, kernel, used, taken, disk, images, panicked>> /\ display' = display
    BY <1>8 DEF vars, hardware
  <2>2. DisplaySame
    BY <2>1, SameDisplay DEF DrvInv, StateType
  <2> QED  BY <2>1, <2>2, SameKeeps
<1> QED  BY <1>1, <1>2, <1>3, <1>4, <1>5, <1>6, <1>7, <1>8 DEF Next

LEMMA Invariance == Spec => []DrvInv
BY InitInv, NextInv, PTL DEF Spec

\* cursor_updated is a Boolean.
Flag == cursor_updated \in BOOLEAN

LEMMA FlagHolds == Spec => []Flag
<1>1. Init => Flag
  BY Zenon DEF Init, Flag
<1>2. Flag /\ [Next]_vars => Flag'
  <2> SUFFICES ASSUME Flag, [Next]_vars PROVE Flag'
    OBVIOUS
  <2>1. ASSUME cursor_updated' = cursor_updated PROVE Flag'
    BY <2>1, Zenon DEF Flag
  <2>2. CASE Finish
    <3>1. cursor_updated' = (cursor_updated \/ call.op = "cursor_image_modified")
      BY <2>2, Zenon DEF Finish
    <3> QED  BY <3>1, Zenon DEF Flag
  <2>3. CASE \E pos \in Value : update_cursor(pos)
    <3>1. cursor_updated' = FALSE
      BY <2>3, Zenon DEF update_cursor
    <3> QED  BY <3>1, Zenon DEF Flag
  <2>4. CASE UNCHANGED vars
    BY <2>1, <2>4, Zenon DEF vars, kernel
  <2>5. CASE Submit \/ Return \/ ChangeDisplay
    BY <2>1, <2>5, Zenon DEF Submit, Return, ChangeDisplay, kernel
  <2>6. CASE \E q \in Queue : Take(q) \/ Serve(q)
    BY <2>1, <2>6, Zenon DEF Take, Serve, kernel
  <2>7. CASE \E image \in Images, v \in Value : Paint(image, v)
    BY <2>1, <2>7, Zenon DEF Paint, kernel
  <2>8. CASE draw \/ cursor_image_modified \/ handle
    BY <2>1, <2>8, Zenon DEF draw, cursor_image_modified, handle
  <2>9. CASE \E sector \in Sector : read(sector) \/ \E data \in Value \cup {None} : write(sector, data)
    BY <2>1, <2>9, Zenon DEF read, write, kernel
  <2>10. CASE \E first \in RegionStart, count \in 0 .. CAPACITY : read_mapped(first, count)
    BY <2>1, <2>10, Zenon DEF read_mapped
  <2>11. CASE \E region \in regions : \E page \in 0 .. region.pages - 1 : load_page(region, page)
    BY <2>1, <2>11, Zenon DEF load_page
  <2> QED  BY <2>2, <2>3, <2>4, <2>5, <2>6, <2>7, <2>8, <2>9, <2>10, <2>11 DEF Next, Calls
<1> QED  BY <1>1, <1>2, PTL DEF Spec

\* A device never holds a chain whose buffers are gone (BuffersLive, with the
\* shape of the state): send_and_recv() returns only when the used ring has
\* caught up, and its indices, which are compared as numbers, do not wrap
\* because the addition that would wrap panics first.
THEOREM BuffersStayLive == Spec => []BuffersLive
<1>1. DrvInv /\ Flag => BuffersLive
  <2> SUFFICES ASSUME DrvInv, Flag PROVE BuffersLive
    OBVIOUS
  <2>1. ASSUME NEW q \in Queue, taken[q] # None \/ used[q] # available[q]
        PROVE  call # None /\ call.waiting /\ Current.queue = q
    BY <2>1, Taken
  <2>2. \A q \in Queue, i \in 0 .. 2 : descriptors[q][i].address \in Address
    BY DEF DrvInv, StateType, Descriptor
  <2>3. TypeOK
    <3>1. cursor_updated \in BOOLEAN
      BY Zenon DEF Flag
    <3>2. panicked \in {"no", "index", "drive", "size", "refused", "disabled"}
      BY DEF DrvInv, StateType, PanicReason
    <3>3. /\ devices \in Machines
          /\ available \in [Queue -> 0 .. INDEX_END - 1] /\ used \in [Queue -> 0 .. INDEX_END - 1]
          /\ call \in CallType \cup {None}
          /\ "drive" \in devices => disk \in [0 .. CAPACITY - 1 -> Value]
          /\ images \in [Images -> Value]
      BY DEF DrvInv, StateType
    <3> QED  BY <2>2, <3>1, <3>2, <3>3, Zenon DEF TypeOK
  <2> QED  BY <2>1, <2>3, Zenon DEF BuffersLive
<1> QED  BY <1>1, Invariance, FlagHolds, PTL

\* What DriveServer::read() and load_page() return is what the drive holds
\* there, and what write() was given is on the drive, once the call is done
\* (DriveExact): the device reads and writes the buffers of this request.
THEOREM DriveIsExact == Spec => []DriveExact
<1>1. DrvInv => DriveExact
  <2> SUFFICES ASSUME DrvInv, Done, panicked = "no"
               PROVE  /\ call.op = "read" => call.got = <<disk[call.arg[1]]>>
                      /\ call.op = "write" => disk[call.arg[1]] = call.arg[2]
                      /\ call.op = "load_page" =>
                           \A i \in 0 .. PAGE_SECTORS - 1 :
                             call.got[i + 1] = disk[call.arg[1] + call.arg[2] * PAGE_SECTORS + i]
    BY DEF DriveExact
  <2>1. /\ call # None /\ call \in CallType /\ OpInv /\ Len(call.got) = Len(call.commands)
        /\ call.got \in Seq(Data)
        /\ \A i \in 1 .. Len(call.got) :
             /\ call.commands[i].cmd = "in" => call.got[i] = disk[call.commands[i].arg]
             /\ call.commands[i].cmd = "out" => disk[call.commands[i].arg] = call.commands[i].data
    BY DEF DrvInv, StateType, CallInv, CallType, DriveInv, Done
  <2>2. ASSUME call.op = "read" PROVE call.got = <<disk[call.arg[1]]>>
    <3>1. PICK s \in Nat : call.arg = <<s>> /\ call.commands = <<In(s)>>
      BY <2>1, <2>2 DEF OpInv
    <3>2. In(s).cmd = "in" /\ In(s).arg = s
      BY CommandFacts DEF Has
    <3>3. Len(call.got) = 1 /\ call.commands[1] = In(s) /\ call.arg[1] = s
      BY <2>1, <3>1
    <3>4. call.got[1] = disk[s]
      BY <2>1, <3>2, <3>3
    <3> QED  BY <2>1, <3>3, <3>4
  <2>3. ASSUME call.op = "write" PROVE disk[call.arg[1]] = call.arg[2]
    <3>1. PICK s \in Nat, v \in Value : call.arg = <<s, v>> /\ call.commands = <<Out(s, v)>>
      BY <2>1, <2>3 DEF OpInv
    <3>2. Out(s, v).cmd = "out" /\ Out(s, v).arg = s /\ Out(s, v).data = v
      BY CommandFacts DEF Has
    <3>3. Len(call.got) = 1 /\ call.commands[1] = Out(s, v) /\ call.arg[1] = s /\ call.arg[2] = v
      BY <2>1, <3>1
    <3> QED  BY <2>1, <3>2, <3>3
  <2>4. ASSUME call.op = "load_page", NEW i \in 0 .. PAGE_SECTORS - 1
        PROVE  call.got[i + 1] = disk[call.arg[1] + call.arg[2] * PAGE_SECTORS + i]
    <3>1. PICK first, page \in Nat :
            /\ call.arg = <<first, page>>
            /\ call.commands = [k \in 1 .. PAGE_SECTORS |-> In(first + page * PAGE_SECTORS + (k - 1))]
      BY <2>1, <2>4 DEF OpInv
    <3>2. PAGE_SECTORS \in Nat /\ page * PAGE_SECTORS \in Nat /\ i \in Nat
      BY DriversAssumption
    <3>3. PICK s \in Nat : s = first + page * PAGE_SECTORS + i
      BY <3>2
    <3>4. Len(call.got) = PAGE_SECTORS /\ i + 1 \in 1 .. PAGE_SECTORS /\ (i + 1) - 1 = i
      BY <2>1, <3>1, <3>2
    <3>5. call.commands[i + 1] = In(s)
      BY <3>1, <3>3, <3>4
    <3>6. In(s).cmd = "in" /\ In(s).arg = s
      BY CommandFacts DEF Has
    <3>7. call.got[i + 1] = disk[s]
      BY <2>1, <3>4, <3>5, <3>6
    <3>8. call.arg[1] = first /\ call.arg[2] = page
      BY <3>1
    <3> QED  BY <3>3, <3>7, <3>8
  <2> QED  BY <2>2, <2>3, <2>4
<1> QED  BY <1>1, Invariance, PTL

\* The display refuses no command, when draw() is done the screen shows the
\* framebuffer, and when update_cursor() is done the cursor is in its place
\* and has the image that was sent last (DisplayExact), though
\* cursor_updated decides whether it is sent again.
THEOREM DisplayIsExact == Spec => []DisplayExact
<1>1. DrvInv => DisplayExact
  <2> SUFFICES ASSUME DrvInv PROVE DisplayExact
    OBVIOUS
  <2>1. CommandsAccepted
    BY DEF DrvInv, DisplayInv, AcceptedInv, CommandsAccepted
  <2>2. ASSUME Done, call.op = "draw" PROVE display.screen = images["framebuffer"]
    <3>1. PICK first, second : first = TransferToHost(1) /\ second = Flush
      OBVIOUS
    <3>2. call # None /\ call \in CallType /\ call.commands = <<first, second>>
          /\ Len(call.got) = Len(call.commands) /\ ~call.waiting
      BY <2>2, <3>1 DEF Done, DrvInv, StateType, CallInv, OpInv, CallType
    <3>3. Answered = 2
      BY <3>2 DEF Answered, Served
    <3> QED  BY <2>2, <3>2, <3>3 DEF DrvInv, DisplayInv, ScreenInv
  <2>3. ASSUME Done, call.op = "update_cursor"
        PROVE  display.pos = call.arg[1] /\ display.cursor = display.host[2]
    <3>1. /\ call # None /\ call \in CallType /\ OpInv
          /\ Len(call.got) = Len(call.commands) /\ ~call.waiting
      BY <2>3 DEF Done, DrvInv, StateType, CallInv, CallType
    <3>2. Len(call.commands) = 1
      BY <2>3, <3>1 DEF OpInv
    <3>3. Answered = 1 /\ ~Served
      BY <3>1, <3>2 DEF Answered, Served
    <3> QED  BY <2>3, <3>1, <3>3 DEF DrvInv, DisplayInv, CursorInv
  <2> QED  BY <2>1, <2>2, <2>3 DEF DisplayExact
<1> QED  BY <1>1, Invariance, PTL

=============================================================================
