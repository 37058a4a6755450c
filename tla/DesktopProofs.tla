--------------------------- MODULE DesktopProofs ----------------------------
(***************************************************************************)
(* Proofs about the window server, for displays and windows of any size,   *)
(* and any number of clients and certificates.                             *)
(***************************************************************************)
EXTENDS Desktop, CommonTheorems, TLAPS

-----------------------------------------------------------------------------
(* The inductive invariant. *)

Stages == {"unborn", "create", "framebuffer", "events", "draw", "idle"}

WindowRecord ==
  [x : Int, y : Int, width : Nat, height : Nat, status : {"open", "closed"},
   ring : {None} \cup 0 .. EVENT_RING]

ClientType ==
  [stage : Stages, terminal : BOOLEAN, cap : Nat \cup {None}, window : Nat \cup {None},
   waiting : BOOLEAN]

RequestType == [client : Client, index : Nat, method : Stages, size : Sizes \cup {None}]

StopReason == {"no", "shutdown", "slots", "memory", "ring"}

StateType ==
  /\ pc \in {"calls", "keyboard", "mouse"}
  /\ requests \in Seq(RequestType)
  /\ allocated \in 1 .. SLOTS
  /\ windows \in Seq(WindowRecord)
  /\ active_window \in {None} \cup 1 .. Len(windows)
  /\ cursor_x \in 0 .. WIDTH /\ cursor_y \in 0 .. HEIGHT
  /\ global_shortcut \in {"NotStarted", "Alt"}
  /\ mouse \in Seq(MouseEvents)
  /\ clients \in [Client -> ClientType]
  /\ stopped \in StopReason

\* Handlers that wait to be installed are those of the window server itself,
\* under certificates that have none yet; while calls are answered none waits
\* and every certificate has its entry.
HandlersInv ==
  /\ DOMAIN handlers \subseteq 0 .. allocated - 1
  /\ \A h \in new_handlers :
       h.index \in 0 .. allocated - 1 /\ h.index \notin DOMAIN handlers /\ h.object = "windowing"
  /\ pc = "calls" => new_handlers = {} /\ DOMAIN handlers = 0 .. allocated - 1

\* A certificate leads to an object, or will when the handlers are installed.
Leads(cap, object) ==
  /\ cap \in 0 .. allocated - 1
  /\ \/ cap \in DOMAIN handlers /\ handlers[cap] = object
     \/ cap \notin DOMAIN handlers /\ object = "windowing" /\ \E h \in new_handlers : h.index = cap

\* What a client calls: the window server, and its window once it has one.
ObjectOf(client) == IF client.window = None THEN "windowing" ELSE client.window

ClientInv(c) ==
  /\ clients[c].stage = "unborn" => ~clients[c].waiting
  /\ clients[c].stage # "unborn" => Leads(clients[c].cap, ObjectOf(clients[c]))
  /\ IF clients[c].stage \in {"unborn", "create"}
       THEN clients[c].window = None
       ELSE clients[c].window \in 1 .. Len(windows)
  /\ clients[c].terminal /\ clients[c].stage = "draw" => windows[clients[c].window].ring # None

ClientsInv == \A c \in Client : ClientInv(c)

ShellsInv == \A cap \in shell_caps : Leads(cap, "windowing")

\* A request is the call its client waits for, and there is only one.
RequestsInv ==
  /\ \A i \in 1 .. Len(requests) :
       /\ clients[requests[i].client].waiting
       /\ requests[i].index = clients[requests[i].client].cap
       /\ requests[i].method = clients[requests[i].client].stage
       /\ requests[i].method \notin {"unborn", "idle"}
       /\ requests[i].method = "create" => requests[i].size \in Sizes
  /\ \A i, j \in 1 .. Len(requests) : requests[i].client = requests[j].client => i = j

\* Every window touches the display, or is beside it by no more than an edge.
Placed(w) == w.x <= WIDTH /\ 0 <= w.x + w.width
WindowsInv == \A id \in 1 .. Len(windows) : Placed(windows[id])

ActiveInv == active_window # None => windows[active_window].status = "open"

DeskInv ==
  StateType /\ HandlersInv /\ ClientsInv /\ ShellsInv /\ RequestsInv /\ WindowsInv /\ ActiveInv

-----------------------------------------------------------------------------
(* Coordinates. *)

LEMMA IntervalGrows ==
  ASSUME NEW n \in Int, NEW m \in Int, n <= m, NEW k \in 0 .. n - 1
  PROVE  k \in 0 .. m - 1
OBVIOUS

LEMMA ClampRange ==
  ASSUME NEW n \in Int, NEW end \in Nat
  PROVE  Clamp(n, end) \in 0 .. end
BY DEF Clamp, Min2, Max2

LEMMA DivRange ==
  ASSUME NEW v \in Nat, NEW m \in Nat \ {0}, v <= m, NEW res \in Nat
  PROVE  (v * res) \div m \in 0 .. res
<1>1. PICK a \in Nat : a = v * res
  OBVIOUS
<1>2. a <= m * res
  <2>1. PICK d \in Nat : m = v + d
    <3>1. m - v \in Nat
      OBVIOUS
    <3> QED  BY <3>1
  <2>2. (v + d) * res = v * res + d * res /\ d * res \in Nat
    OBVIOUS
  <2> QED  BY <1>1, <2>1, <2>2
<1>3. PICK q, r : q = a \div m /\ r = a % m
  OBVIOUS
<1>4. q \in Nat /\ r \in 0 .. m - 1 /\ a = m * q + r
  BY <1>3
<1>5. q <= res
  <2> SUFFICES ASSUME q > res PROVE FALSE
    BY <1>4
  <2>1. PICK e \in Nat : q = res + 1 + e
    <3>1. q - res - 1 \in Nat
      BY <1>4
    <3> QED  BY <1>4, <3>1
  <2>2. m * (res + 1 + e) = m * res + m + m * e /\ m * e \in Nat
    OBVIOUS
  <2> QED  BY <1>2, <1>4, <2>1, <2>2
<1> QED  BY <1>1, <1>3, <1>4, <1>5

\* A window that was placed at the cursor is copied and cleared within bounds.
LEMMA DrawsFit ==
  ASSUME NEW w \in WindowRecord, Placed(w)
  PROVE  CopyInBounds(w) /\ FillInBounds(w)
<1>1. PICK x, y \in Int, width, height \in Nat : x = w.x /\ y = w.y /\ width = w.width /\ height = w.height
  BY DEF WindowRecord
<1>2. x <= WIDTH /\ 0 <= x + width /\ WIDTH \in Nat /\ HEIGHT \in Nat
  BY <1>1, DesktopAssumption DEF Placed
<1>3. CopyInBounds(w)
  BY <1>1, <1>2 DEF CopyInBounds, Max2, Min2
<1>4. FillInBounds(w)
  BY <1>1, <1>2 DEF FillInBounds, Clamp, Max2, Min2
<1> QED  BY <1>3, <1>4

-----------------------------------------------------------------------------
(* Steps that change only what is on the screen. *)

\* What a step may do to the windows: none disappears, moves or loses its ring.
WindowsStay ==
  /\ windows' \in Seq(WindowRecord) /\ Len(windows) <= Len(windows')
  /\ \A id \in 1 .. Len(windows) :
       /\ windows'[id].x = windows[id].x /\ windows'[id].width = windows[id].width
       /\ windows[id].ring # None => windows'[id].ring # None

\* The parts of the state that have nothing to do with handlers.
ScreenType ==
  /\ active_window \in {None} \cup 1 .. Len(windows)
  /\ cursor_x \in 0 .. WIDTH /\ cursor_y \in 0 .. HEIGHT
  /\ global_shortcut \in {"NotStarted", "Alt"}
  /\ mouse \in Seq(MouseEvents)
  /\ stopped \in StopReason

LEMMA SceneKeeps ==
  ASSUME DeskInv, UNCHANGED <<requests, handlers, allocated, new_handlers, clients, shell_caps>>,
         pc' \in {"calls", "keyboard", "mouse"}, pc' = "calls" => pc = "calls",
         WindowsStay, Len(windows') = Len(windows), ScreenType', ActiveInv'
  PROVE  DeskInv'
<1>1. StateType'
  BY DEF DeskInv, StateType, ScreenType, WindowsStay
<1>2. HandlersInv'
  BY DEF DeskInv, HandlersInv
<1>3. \A cap, object : Leads(cap, object)' <=> Leads(cap, object)
  BY DEF Leads
<1>4. ClientsInv'
  <2> SUFFICES ASSUME NEW c \in Client PROVE ClientInv(c)'
    BY DEF ClientsInv
  <2>1. ClientInv(c)
    BY DEF DeskInv, ClientsInv
  <2>2. clients[c].window \in 1 .. Len(windows) =>
          (windows[clients[c].window].ring # None => windows'[clients[c].window].ring # None)
    BY DEF WindowsStay
  <2>3. (Leads(clients[c].cap, ObjectOf(clients[c])))' <=> Leads(clients[c].cap, ObjectOf(clients[c]))
    BY DEF Leads, ObjectOf
  <2> QED  BY <2>1, <2>2, <2>3 DEF ClientInv
<1>5. ShellsInv'
  BY <1>3 DEF DeskInv, ShellsInv
<1>6. RequestsInv'
  BY DEF DeskInv, RequestsInv
<1>7. WindowsInv'
  BY DEF DeskInv, WindowsInv, WindowsStay, Placed
<1> QED  BY <1>1, <1>2, <1>4, <1>5, <1>6, <1>7 DEF DeskInv

LEMMA SameWindows ==
  ASSUME DeskInv, windows' = windows
  PROVE  WindowsStay /\ Len(windows') = Len(windows)
BY DEF DeskInv, StateType, WindowsStay

\* A step that leaves the windows alone, too.
LEMMA QuietKeeps ==
  ASSUME DeskInv,
         UNCHANGED <<requests, handlers, allocated, new_handlers, clients, shell_caps, windows>>,
         pc' \in {"calls", "keyboard", "mouse"}, pc' = "calls" => pc = "calls",
         ScreenType', ActiveInv'
  PROVE  DeskInv'
BY SameWindows, SceneKeeps

LEMMA StopKeeps ==
  ASSUME DeskInv, NEW why \in StopReason, Stop(why)
  PROVE  DeskInv'
<1>1. /\ UNCHANGED <<requests, handlers, allocated, new_handlers, clients, shell_caps, windows>>
      /\ UNCHANGED <<pc, active_window, cursor_x, cursor_y, global_shortcut, mouse>>
      /\ stopped' = why
  BY DEF Stop, dispatch, screen, devices
<1>2. pc' \in {"calls", "keyboard", "mouse"} /\ ScreenType' /\ ActiveInv'
  BY <1>1 DEF DeskInv, StateType, ScreenType, ActiveInv
<1> QED  BY <1>1, <1>2, QuietKeeps

LEMMA LoopKeeps ==
  ASSUME DeskInv, CallsDone \/ KeyboardDone
  PROVE  DeskInv'
<1>1. /\ UNCHANGED <<requests, handlers, allocated, new_handlers, clients, shell_caps, windows>>
      /\ UNCHANGED <<active_window, cursor_x, cursor_y, global_shortcut, mouse, stopped>>
      /\ pc' \in {"keyboard", "mouse"}
  BY DEF CallsDone, KeyboardDone, dispatch, screen, devices
<1>2. ScreenType' /\ ActiveInv'
  BY <1>1 DEF DeskInv, StateType, ScreenType, ActiveInv
<1>3. pc' \in {"calls", "keyboard", "mouse"} /\ (pc' = "calls" => pc = "calls")
  BY <1>1
<1> QED  BY <1>1, <1>2, <1>3, QuietKeeps

LEMMA InputKeeps ==
  ASSUME DeskInv, Input
  PROVE  DeskInv'
<1>1. /\ UNCHANGED <<requests, handlers, allocated, new_handlers, clients, shell_caps, windows>>
      /\ UNCHANGED <<pc, active_window, cursor_x, cursor_y, global_shortcut, stopped>>
  BY DEF Input, dispatch, screen
<1>2. mouse' \in Seq(MouseEvents)
  <2>1. mouse \in Seq(MouseEvents)
    BY DEF DeskInv, StateType
  <2>2. mouse' = mouse \/ \E e \in MouseEvents : mouse' = Append(mouse, e)
    BY DEF Input
  <2> QED  BY <2>1, <2>2
<1>3. pc' \in {"calls", "keyboard", "mouse"} /\ ScreenType' /\ ActiveInv'
  BY <1>1, <1>2 DEF DeskInv, StateType, ScreenType, ActiveInv
<1> QED  BY <1>1, <1>3, QuietKeeps

\* Absolute axes end where the display does.
LEMMA FromAbsRange ==
  ASSUME NEW e \in MouseEvents, NEW res \in Nat, e.code \in {"abs_x", "abs_y"}
  PROVE  from_abs(e.value, res) \in 0 .. res
<1>1. PICK v \in Nat : v = e.value /\ v <= ABS_MAX /\ ABS_MAX \in Nat \ {0}
  BY DesktopAssumption
<1> QED  BY <1>1, DivRange DEF from_abs

\* Of the windows under the cursor there is a last one.
LEMMA LastHit ==
  ASSUME DeskInv, Hit # {}
  PROVE  Clicked \in Hit
<1>1. Len(windows) \in Nat /\ Hit \in SUBSET (1 .. Len(windows))
  BY DEF DeskInv, StateType, Hit
<1>2. \E id \in Hit : \A other \in Hit : other <= id
  BY <1>1, GreatestNumber
<1>3. Clicked = CHOOSE id \in Hit : \A other \in Hit : other <= id
  BY DEF Clicked
<1> QED  BY <1>2, <1>3

LEMMA MouseKeeps ==
  ASSUME DeskInv, ObserveMouse
  PROVE  DeskInv'
<1>1. /\ UNCHANGED <<requests, handlers, allocated, new_handlers, clients, shell_caps, windows>>
      /\ UNCHANGED <<pc, global_shortcut, stopped>> /\ mouse # <<>> /\ mouse' = Tail(mouse)
  BY DEF ObserveMouse, dispatch
<1>2. mouse \in Seq(MouseEvents) /\ mouse' \in Seq(MouseEvents)
  <2>1. mouse \in Seq(MouseEvents)
    BY DEF DeskInv, StateType
  <2> QED  BY <1>1, <2>1
<1>3. PICK e \in MouseEvents : e = Head(mouse)
  BY <1>1, <1>2
<1>4. WIDTH \in Nat /\ HEIGHT \in Nat /\ e.value \in Int /\ cursor_x \in 0 .. WIDTH /\ cursor_y \in 0 .. HEIGHT
  BY DesktopAssumption DEF DeskInv, StateType
<1>5. cursor_x' \in 0 .. WIDTH
  <2>0. cursor_x' = CASE e.code = "rel_x" -> Clamp(cursor_x + e.value, WIDTH)
                      [] e.code = "abs_x" -> from_abs(e.value, WIDTH)
                      [] OTHER -> cursor_x
    BY <1>3, Zenon DEF ObserveMouse
  <2>1. CASE e.code = "rel_x"
    <3>1. e.code # "abs_x"
      BY <2>1
    <3>2. cursor_x' = Clamp(cursor_x + e.value, WIDTH)
      BY <2>0, <2>1, <3>1, Zenon
    <3>3. cursor_x + e.value \in Int
      BY <1>4
    <3> QED  BY <1>4, <3>2, <3>3, ClampRange
  <2>2. CASE e.code = "abs_x"
    <3>1. e.code # "rel_x" /\ e.code \in {"abs_x", "abs_y"}
      BY <2>2
    <3>2. cursor_x' = from_abs(e.value, WIDTH)
      BY <2>0, <2>2, <3>1, Zenon
    <3> QED  BY <1>4, <3>1, <3>2, FromAbsRange
  <2>3. CASE e.code # "rel_x" /\ e.code # "abs_x"
    <3>1. cursor_x' = cursor_x
      BY <2>0, <2>3, Zenon
    <3> QED  BY <1>4, <3>1
  <2> QED  BY <2>1, <2>2, <2>3
<1>6. cursor_y' \in 0 .. HEIGHT
  <2>0. cursor_y' = CASE e.code = "rel_y" -> Clamp(cursor_y + e.value, HEIGHT)
                      [] e.code = "abs_y" -> from_abs(e.value, HEIGHT)
                      [] OTHER -> cursor_y
    BY <1>3, Zenon DEF ObserveMouse
  <2>1. CASE e.code = "rel_y"
    <3>1. e.code # "abs_y"
      BY <2>1
    <3>2. cursor_y' = Clamp(cursor_y + e.value, HEIGHT)
      BY <2>0, <2>1, <3>1, Zenon
    <3>3. cursor_y + e.value \in Int
      BY <1>4
    <3> QED  BY <1>4, <3>2, <3>3, ClampRange
  <2>2. CASE e.code = "abs_y"
    <3>1. e.code # "rel_y" /\ e.code \in {"abs_x", "abs_y"}
      BY <2>2
    <3>2. cursor_y' = from_abs(e.value, HEIGHT)
      BY <2>0, <2>2, <3>1, Zenon
    <3> QED  BY <1>4, <3>1, <3>2, FromAbsRange
  <2>3. CASE e.code # "rel_y" /\ e.code # "abs_y"
    <3>1. cursor_y' = cursor_y
      BY <2>0, <2>3, Zenon
    <3> QED  BY <1>4, <3>1
  <2> QED  BY <2>1, <2>2, <2>3
<1>7. active_window' \in {None} \cup 1 .. Len(windows) /\ ActiveInv'
  <2>1. active_window' = active_window \/ active_window' \in Hit
    <3>1. active_window' = IF e.code = "btn_left" THEN Clicked ELSE active_window
      BY <1>3, Zenon DEF ObserveMouse
    <3>2. Hit = {} => Clicked = active_window
      BY DEF Clicked
    <3>3. Hit # {} => Clicked \in Hit
      BY LastHit
    <3> QED  BY <3>1, <3>2, <3>3
  <2> QED  BY <1>1, <2>1 DEF DeskInv, StateType, ActiveInv, Hit
<1>8. pc' \in {"calls", "keyboard", "mouse"} /\ ScreenType'
  BY <1>1, <1>2, <1>5, <1>6, <1>7 DEF DeskInv, StateType, ScreenType
<1> QED  BY <1>1, <1>7, <1>8, QuietKeeps

LEMMA RingSet ==
  ASSUME NEW w \in WindowRecord, NEW v \in {None} \cup 0 .. EVENT_RING, NEW u, u = [w EXCEPT !.ring = v]
  PROVE  /\ u \in WindowRecord /\ u.x = w.x /\ u.y = w.y /\ u.width = w.width /\ u.height = w.height
         /\ u.status = w.status /\ u.ring = v
BY DEF WindowRecord

LEMMA Closed ==
  ASSUME NEW w \in WindowRecord, NEW u, u = [w EXCEPT !.status = "closed"]
  PROVE  /\ u \in WindowRecord /\ u.x = w.x /\ u.width = w.width /\ u.ring = w.ring
         /\ u.status = "closed"
BY DEF WindowRecord

\* One window changes.
LEMMA UpdateStays ==
  ASSUME windows \in Seq(WindowRecord), NEW id \in 1 .. Len(windows), NEW w \in WindowRecord,
         w.x = windows[id].x, w.width = windows[id].width,
         windows[id].ring # None => w.ring # None,
         windows' = [windows EXCEPT ![id] = w]
  PROVE  /\ WindowsStay /\ Len(windows') = Len(windows) /\ windows'[id] = w
         /\ \A other \in 1 .. Len(windows) \ {id} : windows'[other] = windows[other]
<1>1. windows' \in Seq(WindowRecord) /\ Len(windows') = Len(windows)
  OBVIOUS
<1>2. windows'[id] = w /\ \A other \in (1 .. Len(windows)) \ {id} : windows'[other] = windows[other]
  OBVIOUS
<1> QED  BY <1>1, <1>2 DEF WindowsStay

\* A terminal reads an event.
LEMMA ReadEventFacts ==
  ASSUME DeskInv, NEW c \in Client, ReadEvent(c)
  PROVE  \E id \in 1 .. Len(windows), v \in 0 .. EVENT_RING :
           /\ windows[id].ring = v + 1
           /\ windows' = [windows EXCEPT ![id] = [windows[id] EXCEPT !.ring = v]]
<1>1. /\ clients[c].terminal /\ clients[c].stage = "draw"
      /\ windows[clients[c].window].ring > 0
      /\ windows' = [windows EXCEPT ![clients[c].window].ring = @ - 1]
  BY DEF ReadEvent
<1>2. PICK id \in 1 .. Len(windows) : id = clients[c].window /\ windows[id].ring # None
  BY <1>1 DEF DeskInv, ClientsInv, ClientInv
<1>3. PICK r \in 0 .. EVENT_RING : r = windows[id].ring
  <2>1. windows[id] \in WindowRecord
    BY DEF DeskInv, StateType
  <2> QED  BY <1>2, <2>1 DEF WindowRecord
<1>4. PICK v \in 0 .. EVENT_RING : v = r - 1
  <2>1. r > 0 /\ EVENT_RING \in Nat
    BY <1>1, <1>2, <1>3, DesktopAssumption
  <2> QED  BY <2>1
<1>5. windows' = [windows EXCEPT ![id] = [windows[id] EXCEPT !.ring = v]]
  BY <1>1, <1>2, <1>3, <1>4
<1>6. windows[id].ring = v + 1
  BY <1>3, <1>4, DesktopAssumption
<1> QED  BY <1>5, <1>6

LEMMA ReadEventKeeps ==
  ASSUME DeskInv, NEW c \in Client, ReadEvent(c)
  PROVE  DeskInv'
<1>1. /\ UNCHANGED <<requests, handlers, allocated, new_handlers, clients, shell_caps>>
      /\ UNCHANGED <<pc, active_window, cursor_x, cursor_y, global_shortcut, mouse, stopped>>
  BY DEF ReadEvent, dispatch, devices
<1>2. PICK id \in 1 .. Len(windows), v \in 0 .. EVENT_RING :
           windows' = [windows EXCEPT ![id] = [windows[id] EXCEPT !.ring = v]]
  BY ReadEventFacts
<1>3. PICK u : u = [windows[id] EXCEPT !.ring = v]
  OBVIOUS
<1>4. windows \in Seq(WindowRecord) /\ windows[id] \in WindowRecord
  BY DEF DeskInv, StateType
<1>5. /\ u \in WindowRecord /\ u.x = windows[id].x /\ u.width = windows[id].width
      /\ u.status = windows[id].status /\ u.ring = v /\ v # None
  BY <1>3, <1>4, RingSet, NoneAssumption
<1>6. /\ WindowsStay /\ Len(windows') = Len(windows) /\ windows'[id] = u
      /\ \A other \in 1 .. Len(windows) \ {id} : windows'[other] = windows[other]
  BY <1>2, <1>3, <1>4, <1>5, UpdateStays
<1>7. ActiveInv'
  BY <1>1, <1>5, <1>6 DEF DeskInv, StateType, ActiveInv
<1>8. ScreenType' /\ pc' \in {"calls", "keyboard", "mouse"}
  BY <1>1, <1>6 DEF DeskInv, StateType, ScreenType
<1> QED  BY <1>1, <1>6, <1>7, <1>8, SceneKeeps

-----------------------------------------------------------------------------
(* Keyboard events. *)

\* The event is pushed to the window that is active.
LEMMA PushedFacts ==
  ASSUME DeskInv, ~RingFull(windows, active_window), windows' = Pushed(windows, active_window)
  PROVE  /\ WindowsStay /\ Len(windows') = Len(windows)
         /\ \A id \in 1 .. Len(windows) :
              windows'[id].status = windows[id].status /\ (id # active_window => windows'[id] = windows[id])
<1>1. CASE windows' = windows
  BY <1>1, SameWindows
<1>2. CASE windows' # windows
  <2>1. /\ active_window # None /\ windows[active_window].ring # None
        /\ windows' = [windows EXCEPT ![active_window].ring = @ + 1]
    BY <1>2 DEF Pushed
  <2>2. PICK id \in 1 .. Len(windows) : id = active_window
    BY <2>1 DEF DeskInv, StateType
  <2>3. windows \in Seq(WindowRecord) /\ windows[id] \in WindowRecord
    BY DEF DeskInv, StateType
  <2>4. PICK r \in 0 .. EVENT_RING : r = windows[id].ring /\ r # EVENT_RING
    BY <2>1, <2>2, <2>3 DEF WindowRecord, RingFull
  <2>5. PICK v \in 0 .. EVENT_RING : v = r + 1
    BY <2>4, DesktopAssumption
  <2>6. PICK u : u = [windows[id] EXCEPT !.ring = v]
    OBVIOUS
  <2>7. /\ u \in WindowRecord /\ u.x = windows[id].x /\ u.width = windows[id].width
        /\ u.status = windows[id].status /\ u.ring = v /\ v # None
    BY <2>3, <2>6, RingSet, NoneAssumption
  <2>8. windows' = [windows EXCEPT ![id] = u]
    BY <2>1, <2>2, <2>4, <2>5, <2>6
  <2>9. /\ WindowsStay /\ Len(windows') = Len(windows) /\ windows'[id] = u
        /\ \A other \in 1 .. Len(windows) \ {id} : windows'[other] = windows[other]
    BY <2>3, <2>7, <2>8, UpdateStays
  <2> QED  BY <2>2, <2>7, <2>9
<1> QED  BY <1>1, <1>2

LEMMA OtherEventKeeps ==
  ASSUME DeskInv, OtherEvent
  PROVE  DeskInv'
<1>1. Observed(windows, active_window, NextShortcut) /\ UNCHANGED <<allocated, new_handlers, clients, shell_caps>>
  BY DEF OtherEvent
<1>2. CASE RingFull(windows, active_window)
  <2>1. Stop("ring") /\ "ring" \in StopReason
    BY <1>1, <1>2 DEF Observed, StopReason
  <2> QED  BY <2>1, StopKeeps
<1>3. CASE ~RingFull(windows, active_window)
  <2>1. /\ windows' = Pushed(windows, active_window) /\ active_window' = active_window
        /\ global_shortcut' = NextShortcut
        /\ UNCHANGED <<pc, requests, handlers, cursor_x, cursor_y, mouse, stopped>>
    BY <1>1, <1>3 DEF Observed
  <2>2. /\ WindowsStay /\ Len(windows') = Len(windows)
        /\ \A id \in 1 .. Len(windows) : windows'[id].status = windows[id].status
    BY <1>3, <2>1, PushedFacts
  <2>3. ActiveInv'
    BY <2>1, <2>2 DEF DeskInv, StateType, ActiveInv
  <2>4. global_shortcut' \in {"NotStarted", "Alt"}
    BY <2>1 DEF NextShortcut
  <2>5. ScreenType' /\ pc' \in {"calls", "keyboard", "mouse"}
    BY <2>1, <2>2, <2>4 DEF DeskInv, StateType, ScreenType
  <2> QED  BY <1>1, <2>1, <2>2, <2>3, <2>5, SceneKeeps
<1> QED  BY <1>2, <1>3

LEMMA CloseWindowKeeps ==
  ASSUME DeskInv, CloseWindow
  PROVE  DeskInv'
<1>0. UNCHANGED <<allocated, new_handlers, clients, shell_caps>>
  BY DEF CloseWindow
<1>1. CASE active_window = None
  <2>1. Observed(windows, None, "Alt")
    BY <1>1 DEF CloseWindow
  <2>2. /\ windows' = windows /\ active_window' = None /\ global_shortcut' = "Alt"
        /\ UNCHANGED <<pc, requests, handlers, cursor_x, cursor_y, mouse, stopped>>
    BY <2>1 DEF Observed, RingFull, Pushed
  <2>3. ScreenType' /\ ActiveInv' /\ pc' \in {"calls", "keyboard", "mouse"}
    BY <2>2 DEF DeskInv, StateType, ScreenType, ActiveInv
  <2> QED  BY <1>0, <2>2, <2>3, QuietKeeps
<1>2. CASE active_window # None
  <2>1. PICK id \in 1 .. Len(windows) : id = active_window
    BY <1>2 DEF DeskInv, StateType
  <2>2. windows \in Seq(WindowRecord) /\ windows[id] \in WindowRecord /\ Placed(windows[id])
    BY DEF DeskInv, StateType, WindowsInv
  <2>3. FillInBounds(windows[id])
    BY <2>2, DrawsFit
  <2>4. Observed([windows EXCEPT ![id].status = "closed"], None, "Alt")
    BY <1>2, <2>1, <2>3 DEF CloseWindow
  <2>5. /\ windows' = [windows EXCEPT ![id].status = "closed"] /\ active_window' = None
        /\ global_shortcut' = "Alt"
        /\ UNCHANGED <<pc, requests, handlers, cursor_x, cursor_y, mouse, stopped>>
    BY <2>4 DEF Observed, RingFull, Pushed
  <2>6. PICK u : u = [windows[id] EXCEPT !.status = "closed"]
    OBVIOUS
  <2>7. u \in WindowRecord /\ u.x = windows[id].x /\ u.width = windows[id].width /\ u.ring = windows[id].ring
    BY <2>2, <2>6, Closed
  <2>8. WindowsStay /\ Len(windows') = Len(windows)
    <3>1. windows' = [windows EXCEPT ![id] = u]
      BY <2>5, <2>6
    <3> QED  BY <2>2, <2>7, <3>1, UpdateStays
  <2>9. ScreenType' /\ ActiveInv' /\ pc' \in {"calls", "keyboard", "mouse"}
    BY <2>5 DEF DeskInv, StateType, ScreenType, ActiveInv
  <2> QED  BY <1>0, <2>5, <2>8, <2>9, SceneKeeps
<1> QED  BY <1>1, <1>2

-----------------------------------------------------------------------------
(* Certificates, and the clients that hold them. *)

\* What a certificate leads to stays what it is.
LeadsKept == \A cap \in Int : \A object : Leads(cap, object) => Leads(cap, object)'

\* Everything but the windows: a client was started, or none.
ClientStarted(c, new) ==
  /\ clients[c].stage = "unborn"
  /\ new \in ClientType /\ new.stage = "create" /\ new.window = None /\ new.waiting = FALSE
  /\ clients' = [clients EXCEPT ![c] = new]

LEMMA StartKeeps ==
  ASSUME DeskInv, LeadsKept, HandlersInv', ScreenType', ActiveInv', ShellsInv',
         UNCHANGED <<requests, windows>>, allocated' \in 1 .. SLOTS,
         pc' \in {"calls", "keyboard", "mouse"},
         \/ clients' = clients
         \/ \E c \in Client, cap \in Int : \E new :
              ClientStarted(c, new) /\ new.cap = cap /\ Leads(cap, "windowing")'
  PROVE  DeskInv'
<1>0. windows \in Seq(WindowRecord) /\ clients \in [Client -> ClientType] /\ requests \in Seq(RequestType)
  BY DEF DeskInv, StateType
<1>1. clients' \in [Client -> ClientType]
  BY <1>0 DEF ClientStarted
<1>2. StateType'
  BY <1>0, <1>1 DEF StateType, ScreenType
<1>3. \A c \in Client : clients'[c] = clients[c] \/ clients[c].stage = "unborn"
  BY <1>0 DEF ClientStarted
<1>4. ASSUME NEW c \in Client PROVE ClientInv(c)'
  <2>1. CASE clients'[c] = clients[c]
    <3>1. ClientInv(c)
      BY DEF DeskInv, ClientsInv
    <3>2. ASSUME clients[c].stage # "unborn"
          PROVE  (Leads(clients[c].cap, ObjectOf(clients[c])))'
      <4>1. PICK k, o : k = clients[c].cap /\ o = ObjectOf(clients[c])
        OBVIOUS
      <4>2. Leads(k, o) /\ k \in Int
        BY <3>1, <3>2, <4>1 DEF ClientInv, Leads
      <4>3. Leads(k, o)'
        BY <4>2 DEF LeadsKept
      <4> QED  BY <2>1, <4>1, <4>3 DEF ObjectOf, Leads
    <3> QED  BY <2>1, <3>1, <3>2 DEF ClientInv
  <2>2. CASE clients'[c] # clients[c]
    <3>1. PICK d \in Client, cap \in Int : \E new :
            ClientStarted(d, new) /\ new.cap = cap /\ Leads(cap, "windowing")'
      BY <2>2
    <3>2. PICK new : ClientStarted(d, new) /\ new.cap = cap /\ Leads(cap, "windowing")'
      BY <3>1
    <3>3. c = d /\ clients'[c] = new
      BY <1>0, <2>2, <3>2 DEF ClientStarted
    <3>4. (Leads(clients[c].cap, ObjectOf(clients[c])))'
      BY <3>2, <3>3 DEF Leads, ObjectOf, ClientStarted
    <3> QED  BY <3>2, <3>3, <3>4 DEF ClientInv, ClientStarted
  <2> QED  BY <2>1, <2>2
<1>5. RequestsInv'
  <2>1. ASSUME NEW i \in 1 .. Len(requests)
        PROVE  clients'[requests[i].client] = clients[requests[i].client]
    <3>1. PICK c \in Client : c = requests[i].client
      <4>1. requests[i] \in RequestType
        BY <1>0
      <4> QED  BY <4>1 DEF RequestType
    <3>2. clients[c].waiting
      BY <3>1 DEF DeskInv, RequestsInv
    <3>3. clients[c].stage # "unborn"
      BY <3>2 DEF DeskInv, ClientsInv, ClientInv
    <3> QED  BY <1>3, <3>1, <3>3
  <2> QED  BY <2>1 DEF DeskInv, RequestsInv
<1>6. ClientsInv' /\ WindowsInv'
  BY <1>4 DEF DeskInv, ClientsInv, WindowsInv
<1> QED  BY <1>2, <1>5, <1>6 DEF DeskInv

LEMMA InstalledNew ==
  ASSUME NEW new, NEW count \in Nat, NEW i \in 0 .. count - 1, NEW object,
         \E h \in new : h.index = i, \A h \in new : h.object = object
  PROVE  Installed(new, count)[i] = object
<1>1. PICK g : g = CHOOSE h \in new : h.index = i
  OBVIOUS
<1>2. g \in new
  BY <1>1, Zenon
<1>3. Installed(new, count)[i] = g.object
  BY <1>1 DEF Installed
<1> QED  BY <1>2, <1>3

LEMMA InstalledFacts ==
  ASSUME NEW new, NEW count \in Nat
  PROVE  /\ DOMAIN Installed(new, count) = 0 .. count - 1
         /\ \A i \in 0 .. count - 1 :
              (\A h \in new : h.index # i) /\ i \in DOMAIN handlers
                => Installed(new, count)[i] = handlers[i]
BY DEF Installed

LEMMA MouseDoneKeeps ==
  ASSUME DeskInv, MouseDone
  PROVE  DeskInv'
<1>1. /\ handlers' = Installed(new_handlers, allocated) /\ new_handlers' = {} /\ pc' = "calls"
      /\ UNCHANGED <<requests, allocated, windows, active_window, cursor_x, cursor_y>>
      /\ UNCHANGED <<global_shortcut, mouse, clients, shell_caps, stopped>>
  BY DEF MouseDone, screen, devices
<1>2. allocated \in Nat /\ allocated \in 1 .. SLOTS
  BY DesktopAssumption DEF DeskInv, StateType
<1>3. HandlersInv'
  BY <1>1, <1>2, InstalledFacts DEF HandlersInv
<1>4. LeadsKept
  <2> SUFFICES ASSUME NEW cap \in Int, NEW object, Leads(cap, object) PROVE Leads(cap, object)'
    BY DEF LeadsKept
  <2>1. cap \in 0 .. allocated - 1
    BY DEF Leads
  <2>2. DOMAIN handlers' = 0 .. allocated' - 1
    BY <1>1, <1>2, InstalledFacts
  <2>3. handlers'[cap] = object
    <3>1. CASE cap \in DOMAIN handlers
      <4>1. \A h \in new_handlers : h.index # cap
        BY <3>1 DEF DeskInv, HandlersInv
      <4>2. Installed(new_handlers, allocated)[cap] = handlers[cap]
        BY <1>2, <2>1, <3>1, <4>1, InstalledFacts
      <4> QED  BY <1>1, <3>1, <4>2 DEF Leads
    <3>2. CASE cap \notin DOMAIN handlers
      <4>1. (\E h \in new_handlers : h.index = cap) /\ object = "windowing"
        BY <3>2 DEF Leads
      <4>2. \A h \in new_handlers : h.object = object
        BY <4>1 DEF DeskInv, HandlersInv
      <4>3. \E h \in new_handlers : h.index = cap
        BY <4>1
      <4>4. Installed(new_handlers, allocated)[cap] = object
        BY <1>2, <2>1, <4>2, <4>3, InstalledNew
      <4> QED  BY <1>1, <4>4
    <3> QED  BY <3>1, <3>2
  <2> QED  BY <1>1, <2>1, <2>2, <2>3 DEF Leads
<1>5. ShellsInv'
  <2> SUFFICES ASSUME NEW cap \in shell_caps PROVE Leads(cap, "windowing")'
    BY <1>1 DEF ShellsInv
  <2>1. Leads(cap, "windowing") /\ cap \in Int
    BY DEF DeskInv, ShellsInv, Leads
  <2> QED  BY <1>4, <2>1 DEF LeadsKept
<1>6. ScreenType' /\ ActiveInv'
  BY <1>1 DEF DeskInv, StateType, ScreenType, ActiveInv
<1> QED  BY <1>1, <1>2, <1>3, <1>4, <1>5, <1>6, StartKeeps

\* The first client that was not started yet is.
LEMMA StartedFacts ==
  ASSUME DeskInv, NEW t \in BOOLEAN, NEW cap \in Nat, clients' = Started(t, cap)
  PROVE  \/ clients' = clients
         \/ \E c \in Client : \E new : ClientStarted(c, new) /\ new.cap = cap
<1> DEFINE unborn == {c \in Client : clients[c].stage = "unborn"}
           next == CHOOSE c \in unborn : \A other \in unborn : c <= other
           new == [Unborn EXCEPT !.stage = "create", !.terminal = t, !.cap = cap]
<1>1. CASE unborn = {}
  BY <1>1 DEF Started
<1>2. CASE unborn # {}
  <2>1. unborn \in SUBSET Nat
    BY DesktopAssumption DEF Client
  <2>2. \E c \in unborn : \A other \in unborn : c <= other
    BY <1>2, <2>1, LeastNumber
  <2>3. next \in unborn
    BY <2>2
  <2>4. clients' = [clients EXCEPT ![next] = new]
    BY <1>2 DEF Started
  <2>5. new \in ClientType /\ new.stage = "create" /\ new.window = None /\ new.waiting = FALSE /\ new.cap = cap
    BY DEF Unborn, ClientType, Stages
  <2> HIDE DEF new, next
  <2> QED  BY <2>3, <2>4, <2>5 DEF ClientStarted
<1> QED  BY <1>1, <1>2

LEMMA SpawnViewerKeeps ==
  ASSUME DeskInv, SpawnViewer
  PROVE  DeskInv'
<1>1. /\ UNCHANGED <<requests, handlers, allocated, new_handlers, shell_caps, windows>>
      /\ UNCHANGED <<pc, active_window, cursor_x, cursor_y, global_shortcut, mouse, stopped>>
  BY DEF SpawnViewer, dispatch, screen, devices
<1>2. LeadsKept
  BY <1>1 DEF LeadsKept, Leads
<1>3. PICK cap \in shell_caps : clients' = Started(FALSE, cap)
  BY DEF SpawnViewer
<1>4. cap \in Nat /\ cap \in Int /\ Leads(cap, "windowing")
  <2>1. Leads(cap, "windowing")
    BY DEF DeskInv, ShellsInv
  <2> QED  BY <2>1 DEF Leads
<1>5. \/ clients' = clients
      \/ \E c \in Client : \E new : ClientStarted(c, new) /\ new.cap = cap
  BY <1>3, <1>4, StartedFacts
<1>6. Leads(cap, "windowing")'
  BY <1>2, <1>4 DEF LeadsKept
<1>7. HandlersInv' /\ ShellsInv' /\ ScreenType' /\ ActiveInv'
  BY <1>1 DEF DeskInv, StateType, HandlersInv, ShellsInv, Leads, ScreenType, ActiveInv
<1>8. allocated' \in 1 .. SLOTS /\ pc' \in {"calls", "keyboard", "mouse"}
  BY <1>1 DEF DeskInv, StateType
<1>9. \/ clients' = clients
      \/ \E c \in Client, k \in Int : \E new :
           ClientStarted(c, new) /\ new.cap = k /\ Leads(k, "windowing")'
  BY <1>4, <1>5, <1>6, Zenon
<1> QED  BY <1>1, <1>2, <1>7, <1>8, <1>9, StartKeeps

\* Alt+T: the capabilities it grants lead nowhere yet, and will to the server.
LEMMA SpawnTerminalKeeps ==
  ASSUME DeskInv, pc = "keyboard", SpawnTerminal
  PROVE  DeskInv'
<1>1. CASE allocated + 7 > SLOTS
  <2>1. Stop("slots") /\ "slots" \in StopReason
    BY <1>1 DEF SpawnTerminal, StopReason
  <2> QED  BY <2>1, StopKeeps
<1>2. CASE ~(allocated + 7 > SLOTS)
  <2> DEFINE granted == {[index |-> i, object |-> "windowing"] : i \in {allocated, allocated + 4}}
  <2>0. allocated \in Nat /\ allocated \in 1 .. SLOTS /\ SLOTS \in Nat
    BY DesktopAssumption DEF DeskInv, StateType
  <2>1. /\ clients' = Started(TRUE, allocated) /\ shell_caps' = shell_caps \cup {allocated + 4}
        /\ allocated' = allocated + 7 /\ new_handlers' = new_handlers \cup granted
        /\ Observed(windows, None, "NotStarted")
    BY <1>2 DEF SpawnTerminal
  <2>2. /\ windows' = windows /\ active_window' = None /\ global_shortcut' = "NotStarted"
        /\ UNCHANGED <<pc, requests, handlers, cursor_x, cursor_y, mouse, stopped>>
    BY <2>1 DEF Observed, RingFull, Pushed
  <2>3. allocated' \in 1 .. SLOTS /\ pc' \in {"calls", "keyboard", "mouse"} /\ ScreenType' /\ ActiveInv'
    BY <1>2, <2>0, <2>1, <2>2 DEF DeskInv, StateType, ScreenType, ActiveInv
  <2>4. DOMAIN handlers \subseteq 0 .. allocated - 1
    BY DEF DeskInv, HandlersInv
  <2>5. \A h \in granted : h.object = "windowing" /\ h.index \in {allocated, allocated + 4}
    OBVIOUS
  <2>6. \A i \in {allocated, allocated + 4} : \E h \in granted : h.index = i
    <3> SUFFICES ASSUME NEW i \in {allocated, allocated + 4} PROVE \E h \in granted : h.index = i
      OBVIOUS
    <3>1. PICK h : h = [index |-> i, object |-> "windowing"]
      OBVIOUS
    <3>2. h \in granted /\ h.index = i
      BY <3>1
    <3> QED  BY <3>2
  <2> HIDE DEF granted
  <2>7. HandlersInv'
    <3>1. DOMAIN handlers' \subseteq 0 .. allocated' - 1
      BY <2>0, <2>1, <2>2, <2>4
    <3>2. ASSUME NEW h \in new_handlers'
          PROVE  h.index \in 0 .. allocated' - 1 /\ h.index \notin DOMAIN handlers' /\ h.object = "windowing"
      <4>1. CASE h \in new_handlers
        BY <2>0, <2>1, <2>2, <4>1 DEF DeskInv, HandlersInv
      <4>2. CASE h \in granted
        BY <2>0, <2>1, <2>2, <2>4, <2>5, <4>2
      <4> QED  BY <2>1, <4>1, <4>2
    <3> QED  BY <2>2, <3>1, <3>2 DEF HandlersInv
  <2>8. LeadsKept
    <3> SUFFICES ASSUME NEW cap \in Int, NEW object, Leads(cap, object) PROVE Leads(cap, object)'
      BY DEF LeadsKept
    <3> QED  BY <2>0, <2>1, <2>2 DEF Leads
  <2>9. ASSUME NEW i \in {allocated, allocated + 4} PROVE Leads(i, "windowing")'
    <3>1. i \in 0 .. allocated' - 1 /\ i \notin DOMAIN handlers'
      BY <2>0, <2>1, <2>2, <2>4
    <3>2. \E h \in new_handlers' : h.index = i
      BY <2>1, <2>6
    <3> QED  BY <3>1, <3>2 DEF Leads
  <2>10. ShellsInv'
    <3> SUFFICES ASSUME NEW cap \in shell_caps' PROVE Leads(cap, "windowing")'
      BY DEF ShellsInv
    <3>1. CASE cap \in shell_caps
      <4>1. Leads(cap, "windowing") /\ cap \in Int
        BY <3>1 DEF DeskInv, ShellsInv, Leads
      <4> QED  BY <2>8, <4>1 DEF LeadsKept
    <3>2. CASE cap = allocated + 4
      BY <2>9, <3>2
    <3> QED  BY <2>1, <3>1, <3>2
  <2>11. \/ clients' = clients
         \/ \E c \in Client, k \in Int : \E new :
              ClientStarted(c, new) /\ new.cap = k /\ Leads(k, "windowing")'
    <3>1. \/ clients' = clients
          \/ \E c \in Client : \E new : ClientStarted(c, new) /\ new.cap = allocated
      BY <2>0, <2>1, StartedFacts
    <3>2. PICK a \in Int : a = allocated
      BY <2>0
    <3>3. Leads(a, "windowing")'
      BY <2>9, <3>2
    <3> QED  BY <3>1, <3>2, <3>3, Zenon
  <2> QED  BY <2>2, <2>3, <2>7, <2>8, <2>10, <2>11, StartKeeps
<1> QED  BY <1>1, <1>2

LEMMA KeyboardKeeps ==
  ASSUME DeskInv, ObserveKeyboard
  PROVE  DeskInv'
<1>1. CASE SpawnTerminal
  BY <1>1, SpawnTerminalKeeps DEF ObserveKeyboard
<1>2. CASE CloseWindow
  BY <1>2, CloseWindowKeeps
<1>3. CASE Shutdown
  <2>1. Stop("shutdown") /\ "shutdown" \in StopReason
    BY <1>3 DEF Shutdown, StopReason
  <2> QED  BY <2>1, StopKeeps
<1>4. CASE OtherEvent
  BY <1>4, OtherEventKeeps
<1> QED  BY <1>1, <1>2, <1>3, <1>4 DEF ObserveKeyboard

\* A client's next call.
LEMMA CallKeeps ==
  ASSUME DeskInv, NEW c \in Client, Call(c)
  PROVE  DeskInv'
<1>1. /\ UNCHANGED <<handlers, allocated, new_handlers, shell_caps, windows>>
      /\ UNCHANGED <<pc, active_window, cursor_x, cursor_y, global_shortcut, mouse, stopped>>
  BY DEF Call, dispatch, screen, devices
<1>2. windows \in Seq(WindowRecord) /\ clients \in [Client -> ClientType] /\ requests \in Seq(RequestType)
  BY DEF DeskInv, StateType
<1>3. PICK size \in IF clients[c].stage = "create" THEN Sizes ELSE {None} :
        requests' = Append(requests, [client |-> c, index |-> clients[c].cap,
                                      method |-> clients[c].stage, size |-> size])
  BY DEF Call
<1>4. PICK req : req = [client |-> c, index |-> clients[c].cap,
                        method |-> clients[c].stage, size |-> size]
  OBVIOUS
<1>5. ClientInv(c) /\ clients[c] \in ClientType /\ clients[c].stage \notin {"unborn", "idle"} /\ ~clients[c].waiting
  BY <1>2 DEF DeskInv, ClientsInv, Call
<1>6. req \in RequestType
  <2>1. clients[c].cap \in Nat
    BY <1>5 DEF ClientInv, Leads
  <2>2. clients[c].stage \in Stages /\ size \in Sizes \cup {None}
    BY <1>5 DEF ClientType
  <2> QED  BY <1>4, <2>1, <2>2 DEF RequestType
<1>7. PICK new : new = [clients[c] EXCEPT !.waiting = TRUE]
  OBVIOUS
<1>8. /\ new \in ClientType /\ new.waiting = TRUE /\ new.stage = clients[c].stage /\ new.cap = clients[c].cap
      /\ new.window = clients[c].window /\ new.terminal = clients[c].terminal
  BY <1>5, <1>7 DEF ClientType
<1>9. /\ clients' = [clients EXCEPT ![c] = new] /\ clients' \in [Client -> ClientType] /\ clients'[c] = new
      /\ \A d \in Client : d # c => clients'[d] = clients[d]
  <2>1. clients' = [clients EXCEPT ![c] = new]
    BY <1>7 DEF Call
  <2> QED  BY <1>2, <1>8, <2>1
<1>10. /\ requests' = Append(requests, req) /\ requests' \in Seq(RequestType)
       /\ Len(requests') = Len(requests) + 1 /\ requests'[Len(requests) + 1] = req
       /\ \A i \in 1 .. Len(requests) : requests'[i] = requests[i]
  <2>1. requests' = Append(requests, req)
    BY <1>3, <1>4
  <2> QED  BY <1>2, <1>6, <2>1
<1>11. StateType'
  BY <1>1, <1>9, <1>10 DEF DeskInv, StateType
<1>12. HandlersInv' /\ ShellsInv' /\ WindowsInv' /\ ActiveInv'
  BY <1>1 DEF DeskInv, HandlersInv, ShellsInv, Leads, WindowsInv, ActiveInv
<1>13. ASSUME NEW d \in Client PROVE ClientInv(d)'
  <2>1. ClientInv(d)
    BY DEF DeskInv, ClientsInv
  <2>2. /\ clients'[d].stage = clients[d].stage /\ clients'[d].cap = clients[d].cap
        /\ clients'[d].window = clients[d].window /\ clients'[d].terminal = clients[d].terminal
        /\ clients[d].stage = "unborn" => clients'[d] = clients[d]
    BY <1>5, <1>8, <1>9
  <2>3. (Leads(clients[d].cap, ObjectOf(clients[d])))' <=> Leads(clients[d].cap, ObjectOf(clients[d]))
    BY <1>1, <2>2 DEF Leads, ObjectOf
  <2> QED  BY <1>1, <2>1, <2>2, <2>3 DEF ClientInv
<1>14. RequestsInv'
  <2>1. ASSUME NEW i \in 1 .. Len(requests)
        PROVE  requests[i].client \in Client /\ requests[i].client # c
    <3>1. requests[i] \in RequestType
      BY <1>2
    <3>2. clients[requests[i].client].waiting
      BY DEF DeskInv, RequestsInv
    <3> QED  BY <1>5, <3>1, <3>2 DEF RequestType
  <2>2. ASSUME NEW i \in 1 .. Len(requests')
        PROVE  /\ clients'[requests'[i].client].waiting
               /\ requests'[i].index = clients'[requests'[i].client].cap
               /\ requests'[i].method = clients'[requests'[i].client].stage
               /\ requests'[i].method \notin {"unborn", "idle"}
               /\ requests'[i].method = "create" => requests'[i].size \in Sizes
    <3>1. CASE i \in 1 .. Len(requests)
      BY <1>9, <1>10, <2>1, <3>1 DEF DeskInv, RequestsInv
    <3>2. CASE i = Len(requests) + 1
      BY <1>4, <1>5, <1>8, <1>9, <1>10, <3>2
    <3> QED  BY <1>2, <1>10, <3>1, <3>2
  <2>3. ASSUME NEW i \in 1 .. Len(requests'), NEW j \in 1 .. Len(requests'),
               requests'[i].client = requests'[j].client
        PROVE  i = j
    <3>1. req.client = c
      BY <1>4
    <3>2. CASE i \in 1 .. Len(requests) /\ j \in 1 .. Len(requests)
      BY <1>10, <2>3, <3>2 DEF DeskInv, RequestsInv
    <3> QED  BY <1>2, <1>10, <2>1, <2>3, <3>1, <3>2
  <2> QED  BY <2>2, <2>3 DEF RequestsInv
<1> QED  BY <1>11, <1>12, <1>13, <1>14 DEF DeskInv, ClientsInv

-----------------------------------------------------------------------------
(* Calls. *)

\* What a reply makes of the clients.
Replied(c, stage, cap, window) ==
  /\ clients' \in [Client -> ClientType]
  /\ \A d \in Client : d # c => clients'[d] = clients[d]
  /\ clients'[c].stage = stage /\ clients'[c].cap = cap /\ clients'[c].window = window
  /\ clients'[c].terminal = clients[c].terminal /\ clients'[c].waiting = FALSE

LEMMA ReplyFacts ==
  ASSUME DeskInv, NEW c \in Client, NEW stage \in Stages, NEW cap \in Nat, NEW window \in Nat,
         Reply(c, stage, cap, window)
  PROVE  Replied(c, stage, cap, window)
<1>1. clients \in [Client -> ClientType]
  BY DEF DeskInv, StateType
<1>2. PICK old : old = clients[c] /\ old \in ClientType
  BY <1>1
<1>3. PICK new : new = [old EXCEPT !.stage = stage, !.cap = cap, !.window = window, !.waiting = FALSE]
  OBVIOUS
<1>4. /\ new \in ClientType /\ new.stage = stage /\ new.cap = cap /\ new.window = window
      /\ new.terminal = old.terminal /\ new.waiting = FALSE
  BY <1>2, <1>3 DEF ClientType
<1>5. clients' = [clients EXCEPT ![c] = new]
  BY <1>1, <1>2, <1>3 DEF Reply
<1>6. clients' \in [Client -> ClientType] /\ clients'[c] = new /\ \A d \in Client : d # c => clients'[d] = clients[d]
  BY <1>1, <1>4, <1>5
<1> QED  BY <1>2, <1>4, <1>6 DEF Replied

\* The call at the head of the queue and the client that waits for it.
LEMMA HeadFacts ==
  ASSUME DeskInv, pc = "calls", requests # <<>>, NEW r, r = Head(requests)
  PROVE  /\ r \in RequestType /\ r = requests[1] /\ r.client \in Client
         /\ r.index = clients[r.client].cap /\ r.method = clients[r.client].stage
         /\ r.method \in {"create", "framebuffer", "events", "draw"}
         /\ r.method = "create" => r.size \in Sizes
         /\ r.index \in 0 .. allocated - 1 /\ DOMAIN handlers = 0 .. allocated - 1
         /\ handlers[r.index] = ObjectOf(clients[r.client]) /\ handlers[r.index] # None
<1>1. requests \in Seq(RequestType) /\ Len(requests) \in Nat \ {0}
  BY DEF DeskInv, StateType
<1>2. r = requests[1] /\ r \in RequestType
  BY <1>1
<1>3. /\ r.index = clients[r.client].cap /\ r.method = clients[r.client].stage
      /\ r.method \notin {"unborn", "idle"} /\ (r.method = "create" => r.size \in Sizes)
  BY <1>1, <1>2 DEF DeskInv, RequestsInv
<1>4. r.client \in Client /\ r.method \in Stages
  BY <1>2 DEF RequestType
<1>5. ClientInv(r.client)
  BY <1>4 DEF DeskInv, ClientsInv
<1>6. DOMAIN handlers = 0 .. allocated - 1
  BY DEF DeskInv, HandlersInv
<1>7. r.index \in 0 .. allocated - 1 /\ handlers[r.index] = ObjectOf(clients[r.client])
  BY <1>3, <1>5, <1>6 DEF ClientInv, Leads
<1>8. ObjectOf(clients[r.client]) # None
  BY <1>5, NoneAssumption DEF ObjectOf
<1> QED  BY <1>2, <1>3, <1>4, <1>6, <1>7, <1>8 DEF Stages

\* What every call leaves alone.
Answered ==
  /\ requests' = Tail(requests)
  /\ UNCHANGED <<pc, new_handlers, shell_caps, cursor_x, cursor_y, global_shortcut, mouse, stopped>>

\* What a method leaves behind: it answered, and the certificate its client now
\* holds has the window for its handler.
AnswerEffect(c, stage, cap, window) ==
  /\ c = Head(requests).client /\ Replied(c, stage, cap, window)
  /\ WindowsStay /\ WindowsInv' /\ ActiveInv' /\ active_window' \in {None} \cup 1 .. Len(windows')
  /\ allocated' \in allocated .. SLOTS /\ DOMAIN handlers' = 0 .. allocated' - 1
  /\ \A i \in 0 .. allocated - 1 : handlers'[i] = handlers[i]
  /\ cap \in 0 .. allocated' - 1 /\ handlers'[cap] = window /\ window \in 1 .. Len(windows')
  /\ clients[c].terminal /\ stage = "draw" => windows'[window].ring # None

\* A call that was answered by a method.
LEMMA AnswerKeeps ==
  ASSUME DeskInv, pc = "calls", requests # <<>>, Answered,
         NEW c \in Client, NEW stage \in {"framebuffer", "events", "draw", "idle"},
         NEW cap \in Nat, NEW window \in Nat, AnswerEffect(c, stage, cap, window)
  PROVE  DeskInv'
<1> USE DEF AnswerEffect
<1>0. /\ requests \in Seq(RequestType) /\ requests' \in Seq(RequestType) /\ Len(requests) \in Nat \ {0}
      /\ Len(requests') = Len(requests) - 1
      /\ \A i \in 1 .. Len(requests') : i + 1 \in 1 .. Len(requests) /\ requests'[i] = requests[i + 1]
  <2>1. requests \in Seq(RequestType) /\ requests # <<>> /\ requests' = Tail(requests)
    BY DEF DeskInv, StateType, Answered
  <2> QED  BY <2>1
<1>1. allocated \in 1 .. SLOTS /\ SLOTS \in Nat /\ windows \in Seq(WindowRecord) /\ windows' \in Seq(WindowRecord)
  BY DesktopAssumption DEF DeskInv, StateType, WindowsStay
<1>2. StateType'
  BY <1>0, <1>1 DEF DeskInv, StateType, Answered, Replied
<1>3. HandlersInv'
  BY DEF DeskInv, HandlersInv, Answered
<1>4. DOMAIN handlers = 0 .. allocated - 1 /\ new_handlers = {}
  BY DEF DeskInv, HandlersInv
<1>5. LeadsKept
  <2> SUFFICES ASSUME NEW k \in Int, NEW object, Leads(k, object) PROVE Leads(k, object)'
    BY DEF LeadsKept
  <2>1. k \in 0 .. allocated - 1 /\ handlers[k] = object
    BY <1>4 DEF Leads
  <2>2. k \in 0 .. allocated' - 1
    <3>1. PICK n, m \in Int : n = allocated /\ m = allocated' /\ n <= m
      BY <1>1
    <3>2. k \in 0 .. n - 1
      BY <2>1, <3>1
    <3>3. k \in 0 .. m - 1
      BY <3>1, <3>2, IntervalGrows
    <3> QED  BY <3>1, <3>3
  <2>3. k \in DOMAIN handlers' /\ handlers'[k] = object
    BY <2>1, <2>2
  <2> QED  BY <2>2, <2>3 DEF Leads
<1>6. ShellsInv'
  <2> SUFFICES ASSUME NEW k \in shell_caps PROVE Leads(k, "windowing")'
    BY DEF ShellsInv, Answered
  <2>1. Leads(k, "windowing") /\ k \in Int
    BY DEF DeskInv, ShellsInv, Leads
  <2> QED  BY <1>5, <2>1 DEF LeadsKept
<1>7. ASSUME NEW d \in Client PROVE ClientInv(d)'
  <2>1. CASE d = c
    <3>1. window # None
      BY NoneAssumption
    <3>2. (Leads(clients[d].cap, ObjectOf(clients[d])))'
      BY <2>1, <3>1 DEF Leads, ObjectOf, Replied
    <3> QED  BY <2>1, <3>2 DEF ClientInv, Replied
  <2>2. CASE d # c
    <3>1. ClientInv(d) /\ clients'[d] = clients[d]
      BY <2>2 DEF DeskInv, ClientsInv, Replied
    <3>2. ASSUME clients[d].stage # "unborn"
          PROVE  (Leads(clients[d].cap, ObjectOf(clients[d])))'
      <4>1. PICK k, o : k = clients[d].cap /\ o = ObjectOf(clients[d])
        OBVIOUS
      <4>2. Leads(k, o) /\ k \in Int
        BY <3>1, <3>2, <4>1 DEF ClientInv, Leads
      <4>3. Leads(k, o)'
        BY <1>5, <4>2 DEF LeadsKept
      <4> QED  BY <3>1, <4>1, <4>3 DEF ObjectOf, Leads
    <3>3. \A id \in 1 .. Len(windows) :
            id \in 1 .. Len(windows') /\ (windows[id].ring # None => windows'[id].ring # None)
      BY <1>1 DEF WindowsStay
    <3> QED  BY <3>1, <3>2, <3>3 DEF ClientInv
  <2> QED  BY <2>1, <2>2
<1>8. RequestsInv'
  <2>1. c = requests[1].client /\ 1 \in 1 .. Len(requests)
    BY <1>0
  <2>2. ASSUME NEW i \in 1 .. Len(requests')
        PROVE  \E j \in 1 .. Len(requests) :
                 j = i + 1 /\ requests'[i] = requests[j] /\ requests[j].client \in Client \ {c}
    <3>1. PICK j \in 1 .. Len(requests) : j = i + 1
      BY <1>0
    <3>2. requests'[i] = requests[j] /\ j # 1
      BY <1>0, <3>1
    <3>3. requests[j] \in RequestType
      BY <1>0
    <3>4. requests[j].client \in Client /\ requests[j].client # c
      BY <2>1, <3>2, <3>3 DEF DeskInv, RequestsInv, RequestType
    <3> QED  BY <3>1, <3>2, <3>4
  <2>3. ASSUME NEW i \in 1 .. Len(requests')
        PROVE  /\ clients'[requests'[i].client].waiting
               /\ requests'[i].index = clients'[requests'[i].client].cap
               /\ requests'[i].method = clients'[requests'[i].client].stage
               /\ requests'[i].method \notin {"unborn", "idle"}
               /\ requests'[i].method = "create" => requests'[i].size \in Sizes
    <3>1. PICK j \in 1 .. Len(requests) : requests'[i] = requests[j] /\ requests[j].client \in Client \ {c}
      BY <2>2
    <3>2. clients'[requests[j].client] = clients[requests[j].client]
      BY <3>1 DEF Replied
    <3> QED  BY SMTT(30), <3>1, <3>2 DEF DeskInv, RequestsInv
  <2>4. ASSUME NEW i \in 1 .. Len(requests'), NEW j \in 1 .. Len(requests'),
               requests'[i].client = requests'[j].client
        PROVE  i = j
    <3>1. PICK k \in 1 .. Len(requests) : k = i + 1 /\ requests'[i] = requests[k]
      BY <2>2
    <3>2. PICK l \in 1 .. Len(requests) : l = j + 1 /\ requests'[j] = requests[l]
      BY <2>2
    <3>3. k = l
      BY SMTT(30), <2>4, <3>1, <3>2 DEF DeskInv, RequestsInv
    <3> QED  BY <3>1, <3>2, <3>3
  <2> QED  BY <2>3, <2>4 DEF RequestsInv
<1> QED  BY <1>2, <1>3, <1>6, <1>7, <1>8 DEF DeskInv, ClientsInv

\* A new window: it is placed around the cursor.
LEMMA NewWindowFacts ==
  ASSUME DeskInv, NEW size \in Sizes, NEW w, w = NewWindow(size)
  PROVE  w \in WindowRecord /\ Placed(w) /\ w.status = "open"
<1>1. PICK a, b \in Nat \ {0} : size = <<a, b>>
  BY DesktopAssumption
<1>2. cursor_x \in 0 .. WIDTH /\ cursor_y \in 0 .. HEIGHT /\ WIDTH \in Nat /\ HEIGHT \in Nat
  BY DesktopAssumption DEF DeskInv, StateType
<1>3. PICK x, y \in Int : x = cursor_x - a \div 2 /\ y = cursor_y - b \div 2
  BY <1>2
<1>4. w = [x |-> x, y |-> y, width |-> a, height |-> b, status |-> "open", ring |-> None]
  BY <1>1, <1>3 DEF NewWindow
<1>5. x <= WIDTH /\ 0 <= x + a
  BY <1>2, <1>3
<1> QED  BY <1>4, <1>5 DEF WindowRecord, Placed

LEMMA CreateKeeps ==
  ASSUME DeskInv, pc = "calls", requests # <<>>, Answered, NEW r, r = Head(requests),
         r.method = "create", allocated # SLOTS, create_window(r)
  PROVE  DeskInv'
<1>0. /\ r.client \in Client /\ r.size \in Sizes /\ DOMAIN handlers = 0 .. allocated - 1
      /\ allocated \in 1 .. SLOTS /\ SLOTS \in Nat /\ windows \in Seq(WindowRecord)
  BY HeadFacts, DesktopAssumption DEF DeskInv, StateType
<1>1. PICK n \in Nat \ {0} : n = Len(windows) + 1
  BY <1>0
<1>2. PICK w : w = NewWindow(r.size)
  OBVIOUS
<1>3. w \in WindowRecord /\ Placed(w) /\ w.status = "open"
  BY <1>0, <1>2, NewWindowFacts
<1>4. /\ windows' = Append(windows, w) /\ active_window' = n /\ Reply(r.client, "framebuffer", allocated, n)
      /\ handlers' = Installed({[index |-> allocated, object |-> n]}, allocated + 1)
      /\ allocated' = allocated + 1
  BY <1>1, <1>2 DEF create_window
<1>5. /\ windows' \in Seq(WindowRecord) /\ Len(windows') = n /\ windows'[n] = w
      /\ \A id \in 1 .. Len(windows) : windows'[id] = windows[id]
  BY <1>0, <1>1, <1>3, <1>4
<1>6. WindowsStay /\ n \in 1 .. Len(windows')
  BY <1>0, <1>1, <1>5 DEF WindowsStay
<1>7. WindowsInv'
  <2> SUFFICES ASSUME NEW id \in 1 .. Len(windows') PROVE Placed(windows'[id])
    BY DEF WindowsInv, Placed
  <2>1. id \in 1 .. Len(windows) \/ id = n
    BY <1>0, <1>1, <1>5
  <2> QED  BY <1>3, <1>5, <2>1 DEF DeskInv, WindowsInv
<1>8. ActiveInv' /\ active_window' \in {None} \cup 1 .. Len(windows')
  BY <1>3, <1>4, <1>5, <1>6 DEF ActiveInv
<1>9. Replied(r.client, "framebuffer", allocated, n)
  <2>1. "framebuffer" \in Stages /\ allocated \in Nat /\ n \in Nat
    BY <1>0 DEF Stages
  <2> QED  BY <1>0, <1>4, <2>1, ReplyFacts
<1>10. /\ DOMAIN handlers' = 0 .. allocated' - 1 /\ allocated' \in allocated .. SLOTS /\ allocated \in 0 .. allocated' - 1
       /\ \A i \in 0 .. allocated - 1 : handlers'[i] = handlers[i]
       /\ handlers'[allocated] = n
  <2> DEFINE new == {[index |-> allocated, object |-> n]}
  <2>1. allocated + 1 \in Nat /\ allocated \in 0 .. (allocated + 1) - 1
    BY <1>0
  <2>2. (\E h \in new : h.index = allocated) /\ (\A h \in new : h.object = n /\ h.index = allocated)
    OBVIOUS
  <2> HIDE DEF new
  <2>3. handlers' = Installed(new, allocated + 1)
    BY <1>4 DEF new
  <2>4. handlers'[allocated] = n
    <3>1. \A h \in new : h.object = n
      BY <2>2
    <3>2. \E h \in new : h.index = allocated
      BY <2>2
    <3>3. Installed(new, allocated + 1)[allocated] = n
      <4>0. PICK count \in Nat : count = allocated + 1
        BY <2>1
      <4>1. PICK i \in 0 .. count - 1 : count = allocated + 1 /\ i = allocated
        BY <2>1, <4>0
      <4>2. Installed(new, count)[i] = n
        BY <3>1, <3>2, <4>1, InstalledNew
      <4> QED  BY <4>1, <4>2
    <3> QED  BY <2>3, <3>3
  <2>5. DOMAIN handlers' = 0 .. allocated' - 1 /\ allocated' \in allocated .. SLOTS /\ allocated \in 0 .. allocated' - 1
    BY <1>0, <1>4, <2>1, <2>3, InstalledFacts
  <2>6. ASSUME NEW i \in 0 .. allocated - 1 PROVE handlers'[i] = handlers[i]
    <3>1. i \in 0 .. (allocated + 1) - 1 /\ i \in DOMAIN handlers /\ \A h \in new : h.index # i
      BY <1>0, <2>2
    <3> QED  BY <2>1, <2>3, <3>1, InstalledFacts
  <2> QED  BY <2>4, <2>5, <2>6
<1>11. PICK c \in Client, stage \in {"framebuffer", "events", "draw", "idle"}, cap \in Nat, window \in Nat :
         c = r.client /\ stage = "framebuffer" /\ cap = allocated /\ window = n
  BY <1>0, <1>1
<1>12. clients[c].terminal /\ stage = "draw" => windows'[window].ring # None
  BY <1>11
<1>13. AnswerEffect(c, stage, cap, window)
  BY <1>6, <1>7, <1>8, <1>9, <1>10, <1>11, <1>12 DEF AnswerEffect
<1> QED  BY <1>13, AnswerKeeps

\* The other methods are a window's: its client holds the certificate.
LEMMA WindowCall ==
  ASSUME DeskInv, pc = "calls", requests # <<>>, NEW r, r = Head(requests), r.method # "create"
  PROVE  /\ clients[r.client].window \in 1 .. Len(windows) /\ clients[r.client].window \in Nat
         /\ handlers[r.index] = clients[r.client].window
         /\ clients[r.client].cap \in Nat /\ clients[r.client].cap \in 0 .. allocated - 1
         /\ handlers[clients[r.client].cap] = clients[r.client].window
<1>1. /\ r.client \in Client /\ r.index = clients[r.client].cap /\ r.method = clients[r.client].stage
      /\ r.method \in {"create", "framebuffer", "events", "draw"} /\ r.index \in 0 .. allocated - 1
      /\ handlers[r.index] = ObjectOf(clients[r.client])
  BY HeadFacts
<1>2. clients[r.client].window \in 1 .. Len(windows)
  BY <1>1 DEF DeskInv, ClientsInv, ClientInv
<1>3. ObjectOf(clients[r.client]) = clients[r.client].window
  BY <1>2, NoneAssumption DEF ObjectOf
<1> QED  BY <1>1, <1>2, <1>3

\* Handlers when no new one is installed.
LEMMA SameHandlers ==
  ASSUME DeskInv, pc = "calls", NEW count, count \in {allocated, allocated + 1},
         handlers' = Installed({}, count), allocated' = count
  PROVE  /\ DOMAIN handlers' = 0 .. allocated' - 1
         /\ \A i \in 0 .. allocated - 1 : handlers'[i] = handlers[i]
<1>1. count \in Nat /\ allocated \in Nat /\ DOMAIN handlers = 0 .. allocated - 1
  BY DesktopAssumption DEF DeskInv, StateType, HandlersInv
<1>2. DOMAIN handlers' = 0 .. allocated' - 1
  BY <1>1, InstalledFacts
<1>3. ASSUME NEW i \in 0 .. allocated - 1 PROVE handlers'[i] = handlers[i]
  <2>1. i \in 0 .. count - 1 /\ i \in DOMAIN handlers /\ \A h \in {} : h.index # i
    BY <1>1
  <2> QED  BY <1>1, <2>1, InstalledFacts
<1> QED  BY <1>2, <1>3

LEMMA FramebufferKeeps ==
  ASSUME DeskInv, pc = "calls", requests # <<>>, Answered, NEW r, r = Head(requests),
         r.method = "framebuffer", allocated # SLOTS, framebuffer(r)
  PROVE  DeskInv'
<1>0. PICK c \in Client : c = r.client
  BY HeadFacts
<1>1. PICK window, cap \in Nat :
        /\ window = clients[c].window /\ cap = clients[c].cap /\ window \in 1 .. Len(windows)
        /\ cap \in 0 .. allocated - 1 /\ handlers[cap] = window
  BY <1>0, WindowCall
<1>2. PICK stage \in {"framebuffer", "events", "draw", "idle"} :
        stage = IF clients[c].terminal THEN "events" ELSE "draw"
  OBVIOUS
<1>3. /\ Reply(c, stage, cap, window) /\ handlers' = Installed({}, allocated + 1)
      /\ allocated' = allocated + 1 /\ UNCHANGED <<windows, active_window>>
  BY <1>0, <1>1, <1>2 DEF framebuffer, screen
<1>4. Replied(c, stage, cap, window)
  BY <1>3, ReplyFacts DEF Stages
<1>5. DOMAIN handlers' = 0 .. allocated' - 1 /\ \A i \in 0 .. allocated - 1 : handlers'[i] = handlers[i]
  BY <1>3, SameHandlers
<1>6. allocated' \in allocated .. SLOTS /\ cap \in 0 .. allocated' - 1 /\ handlers'[cap] = window
  <2>1. allocated \in 1 .. SLOTS /\ SLOTS \in Nat
    BY DesktopAssumption DEF DeskInv, StateType
  <2> QED  BY <1>1, <1>3, <1>5, <2>1
<1>7. WindowsStay /\ WindowsInv' /\ ActiveInv' /\ active_window' \in {None} \cup 1 .. Len(windows')
  BY <1>3, SameWindows DEF DeskInv, StateType, WindowsInv, ActiveInv
<1>8. clients[c].terminal /\ stage = "draw" => windows'[window].ring # None
  BY <1>2
<1>9. AnswerEffect(c, stage, cap, window)
  BY <1>0, <1>1, <1>3, <1>4, <1>5, <1>6, <1>7, <1>8 DEF AnswerEffect
<1> QED  BY <1>9, AnswerKeeps

LEMMA DrawKeeps ==
  ASSUME DeskInv, pc = "calls", requests # <<>>, Answered, NEW r, r = Head(requests),
         r.method = "draw", draw(r)
  PROVE  DeskInv'
<1>0. PICK c \in Client : c = r.client /\ clients[c].stage = "draw"
  BY HeadFacts
<1>1. PICK window, cap \in Nat :
        /\ window = clients[c].window /\ cap = clients[c].cap /\ window \in 1 .. Len(windows)
        /\ cap \in 0 .. allocated - 1 /\ handlers[cap] = window
  BY <1>0, WindowCall
<1>2. PICK stage \in {"framebuffer", "events", "draw", "idle"} :
        stage = IF clients[c].terminal THEN "draw" ELSE "idle"
  OBVIOUS
<1>3. /\ Reply(c, stage, cap, window) /\ handlers' = Installed({}, allocated)
      /\ allocated' = allocated /\ UNCHANGED <<windows, active_window>>
  BY <1>0, <1>1, <1>2 DEF draw, screen
<1>4. Replied(c, stage, cap, window)
  BY <1>3, ReplyFacts DEF Stages
<1>5. DOMAIN handlers' = 0 .. allocated' - 1 /\ \A i \in 0 .. allocated - 1 : handlers'[i] = handlers[i]
  BY <1>3, SameHandlers
<1>6. allocated' \in allocated .. SLOTS /\ cap \in 0 .. allocated' - 1 /\ handlers'[cap] = window
  <2>1. allocated \in 1 .. SLOTS /\ SLOTS \in Nat
    BY DesktopAssumption DEF DeskInv, StateType
  <2> QED  BY <1>1, <1>3, <1>5, <2>1
<1>7. WindowsStay /\ WindowsInv' /\ ActiveInv' /\ active_window' \in {None} \cup 1 .. Len(windows')
  BY <1>3, SameWindows DEF DeskInv, StateType, WindowsInv, ActiveInv
<1>8. clients[c].terminal /\ stage = "draw" => windows'[window].ring # None
  BY <1>0, <1>1, <1>3 DEF DeskInv, ClientsInv, ClientInv
<1>9. AnswerEffect(c, stage, cap, window)
  BY <1>0, <1>1, <1>3, <1>4, <1>5, <1>6, <1>7, <1>8 DEF AnswerEffect
<1> QED  BY <1>9, AnswerKeeps

LEMMA EventsKeeps ==
  ASSUME DeskInv, pc = "calls", requests # <<>>, Answered, NEW r, r = Head(requests),
         r.method = "events", allocated # SLOTS, events(r)
  PROVE  DeskInv'
<1>0. PICK c \in Client : c = r.client
  BY HeadFacts
<1>1. PICK window, cap \in Nat :
        /\ window = clients[c].window /\ cap = clients[c].cap /\ window \in 1 .. Len(windows)
        /\ cap \in 0 .. allocated - 1 /\ handlers[cap] = window /\ handlers[r.index] = window
  BY <1>0, WindowCall
<1>2. PICK stage \in {"framebuffer", "events", "draw", "idle"} : stage = "draw"
  OBVIOUS
<1>3. /\ Reply(c, stage, cap, window) /\ handlers' = Installed({}, allocated + 1)
      /\ allocated' = allocated + 1 /\ active_window' = active_window
      /\ windows' = [windows EXCEPT ![window].ring = 0]
  BY <1>0, <1>1, <1>2 DEF events
<1>4. Replied(c, stage, cap, window)
  BY <1>3, ReplyFacts DEF Stages
<1>5. DOMAIN handlers' = 0 .. allocated' - 1 /\ \A i \in 0 .. allocated - 1 : handlers'[i] = handlers[i]
  BY <1>3, SameHandlers
<1>6. allocated' \in allocated .. SLOTS /\ cap \in 0 .. allocated' - 1 /\ handlers'[cap] = window
  <2>1. allocated \in 1 .. SLOTS /\ SLOTS \in Nat
    BY DesktopAssumption DEF DeskInv, StateType
  <2> QED  BY <1>1, <1>3, <1>5, <2>1
<1>7. PICK u : u = [windows[window] EXCEPT !.ring = 0]
  OBVIOUS
<1>8. windows \in Seq(WindowRecord) /\ windows[window] \in WindowRecord
  BY <1>1 DEF DeskInv, StateType
<1>9. /\ u \in WindowRecord /\ u.x = windows[window].x /\ u.width = windows[window].width
      /\ u.status = windows[window].status /\ u.ring = 0 /\ 0 # None
  <2>1. 0 \in {None} \cup 0 .. EVENT_RING
    BY DesktopAssumption
  <2> QED  BY <1>7, <1>8, <2>1, RingSet, NoneAssumption
<1>10. /\ WindowsStay /\ Len(windows') = Len(windows) /\ windows'[window] = u
       /\ \A other \in 1 .. Len(windows) \ {window} : windows'[other] = windows[other]
  <2>1. windows' = [windows EXCEPT ![window] = u]
    BY <1>3, <1>7
  <2> QED  BY <1>1, <1>8, <1>9, <2>1, UpdateStays
<1>11. ActiveInv' /\ active_window' \in {None} \cup 1 .. Len(windows')
  BY <1>3, <1>9, <1>10 DEF DeskInv, StateType, ActiveInv
<1>12. WindowsInv'
  BY <1>10 DEF DeskInv, WindowsInv, WindowsStay, Placed
<1>13. clients[c].terminal /\ stage = "draw" => windows'[window].ring # None
  BY <1>9, <1>10
<1>14. window \in 1 .. Len(windows')
  BY <1>1, <1>10
<1>15. AnswerEffect(c, stage, cap, window)
  BY <1>0, <1>4, <1>5, <1>6, <1>10, <1>11, <1>12, <1>13, <1>14 DEF AnswerEffect
<1> QED  BY <1>15, AnswerKeeps

\* A call always finds its handler, and what it draws fits the display.
LEMMA RunCallProceeds ==
  ASSUME DeskInv, RunCall, NEW r, r = Head(requests)
  PROVE  \/ Stop("slots") \/ Stop("memory")
         \/ /\ Answered
            /\ \/ r.method = "create" /\ allocated # SLOTS /\ create_window(r)
               \/ r.method = "framebuffer" /\ allocated # SLOTS /\ framebuffer(r)
               \/ r.method = "events" /\ allocated # SLOTS /\ events(r)
               \/ r.method = "draw" /\ draw(r)
<1>1. pc = "calls" /\ requests # <<>>
  BY DEF RunCall
<1>2. ~(r.index \notin DOMAIN handlers \/ handlers[r.index] = None)
  BY <1>1, HeadFacts
<1>3. ASSUME r.method = "draw", NEW w \in Drawn(handlers[r.index]) PROVE CopyInBounds(w)
  <2>1. handlers[r.index] \in 1 .. Len(windows)
    BY <1>1, <1>3, WindowCall
  <2>2. PICK id \in 1 .. Len(windows) : w = windows[id]
    BY <1>3, <2>1 DEF Drawn, DeskInv, StateType
  <2>3. w \in WindowRecord /\ Placed(w)
    BY <2>2 DEF DeskInv, StateType, WindowsInv
  <2> QED  BY <2>3, DrawsFit
<1>4. ~(r.method = "draw" /\ \E w \in Drawn(handlers[r.index]) : ~CopyInBounds(w))
  BY <1>3
<1>5. CASE r.method # "draw" /\ allocated = SLOTS
  BY <1>2, <1>5 DEF RunCall
<1>6. CASE ~(r.method # "draw" /\ allocated = SLOTS)
  <2> SUFFICES ASSUME ~Stop("memory")
               PROVE  /\ Answered
                      /\ \/ r.method = "create" /\ allocated # SLOTS /\ create_window(r)
                         \/ r.method = "framebuffer" /\ allocated # SLOTS /\ framebuffer(r)
                         \/ r.method = "events" /\ allocated # SLOTS /\ events(r)
                         \/ r.method = "draw" /\ draw(r)
    OBVIOUS
  <2>1. /\ \/ r.method = "create" /\ create_window(r)
           \/ r.method = "framebuffer" /\ framebuffer(r)
           \/ r.method = "events" /\ events(r)
           \/ r.method = "draw" /\ draw(r)
        /\ requests' = Tail(requests)
        /\ UNCHANGED <<pc, new_handlers, global_shortcut, devices, shell_caps, stopped>>
    BY <1>2, <1>4, <1>6 DEF RunCall, NoMemory
  <2>2. UNCHANGED <<cursor_x, cursor_y>>
    BY <2>1 DEF create_window, framebuffer, events, draw, screen
  <2>3. Answered
    BY <2>1, <2>2 DEF Answered, devices
  <2> QED  BY <1>6, <2>1, <2>3
<1> QED  BY <1>5, <1>6

LEMMA RunCallKeeps ==
  ASSUME DeskInv, RunCall
  PROVE  DeskInv'
<1>1. PICK r : r = Head(requests)
  OBVIOUS
<1>2. pc = "calls" /\ requests # <<>>
  BY DEF RunCall
<1>3. CASE Stop("slots") \/ Stop("memory")
  <2>1. {"slots", "memory"} \subseteq StopReason
    BY DEF StopReason
  <2> QED  BY <1>3, <2>1, StopKeeps
<1>4. CASE Answered /\ r.method = "create" /\ allocated # SLOTS /\ create_window(r)
  BY <1>1, <1>2, <1>4, CreateKeeps
<1>5. CASE Answered /\ r.method = "framebuffer" /\ allocated # SLOTS /\ framebuffer(r)
  BY <1>1, <1>2, <1>5, FramebufferKeeps
<1>6. CASE Answered /\ r.method = "events" /\ allocated # SLOTS /\ events(r)
  BY <1>1, <1>2, <1>6, EventsKeeps
<1>7. CASE Answered /\ r.method = "draw" /\ draw(r)
  BY <1>1, <1>2, <1>7, DrawKeeps
<1> QED  BY <1>1, <1>3, <1>4, <1>5, <1>6, <1>7, RunCallProceeds

-----------------------------------------------------------------------------
(* The specification. *)

LEMMA DeskInit == Init => DeskInv
<1> SUFFICES ASSUME Init PROVE DeskInv
  OBVIOUS
<1>1. /\ pc = "calls" /\ requests = <<>> /\ handlers = [i \in {0} |-> "windowing"] /\ allocated = 1
      /\ new_handlers = {} /\ windows = <<>> /\ active_window = None /\ global_shortcut = "NotStarted"
      /\ mouse = <<>> /\ clients = [c \in Client |-> Unborn] /\ shell_caps = {} /\ stopped = "no"
  BY DEF Init
<1>2. cursor_x \in 0 .. WIDTH /\ cursor_y \in 0 .. HEIGHT
  BY DesktopAssumption DEF Init
<1>3. Unborn \in ClientType
  BY DEF Unborn, ClientType, Stages
<1>4. clients \in [Client -> ClientType] /\ \A c \in Client : clients[c] = Unborn
  BY <1>1, <1>3
<1>5. allocated \in 1 .. SLOTS
  BY <1>1, DesktopAssumption
<1>6. StateType
  BY <1>1, <1>2, <1>4, <1>5 DEF StateType, StopReason
<1>7. HandlersInv
  BY <1>1 DEF HandlersInv
<1>8. ClientsInv
  BY <1>4 DEF ClientsInv, ClientInv, Unborn
<1>9. ShellsInv /\ RequestsInv /\ WindowsInv /\ ActiveInv
  BY <1>1 DEF ShellsInv, RequestsInv, WindowsInv, ActiveInv
<1> QED  BY <1>6, <1>7, <1>8, <1>9 DEF DeskInv

LEMMA DeskStutter ==
  ASSUME DeskInv, UNCHANGED vars
  PROVE  DeskInv'
<1>1. /\ UNCHANGED <<requests, handlers, allocated, new_handlers, clients, shell_caps, windows>>
      /\ UNCHANGED <<pc, active_window, cursor_x, cursor_y, global_shortcut, mouse, stopped>>
  BY DEF vars, dispatch, screen, devices
<1>2. pc' \in {"calls", "keyboard", "mouse"} /\ ScreenType' /\ ActiveInv'
  BY <1>1 DEF DeskInv, StateType, ScreenType, ActiveInv
<1> QED  BY <1>1, <1>2, QuietKeeps

LEMMA DeskNext == DeskInv /\ [Next]_vars => DeskInv'
<1> SUFFICES ASSUME DeskInv, [Next]_vars PROVE DeskInv'
  OBVIOUS
<1>1. CASE RunCall
  BY <1>1, RunCallKeeps
<1>2. CASE CallsDone \/ KeyboardDone
  BY <1>2, LoopKeeps
<1>3. CASE ObserveKeyboard
  BY <1>3, KeyboardKeeps
<1>4. CASE ObserveMouse
  BY <1>4, MouseKeeps
<1>5. CASE MouseDone
  BY <1>5, MouseDoneKeeps
<1>6. CASE Input
  BY <1>6, InputKeeps
<1>7. CASE SpawnViewer
  BY <1>7, SpawnViewerKeeps
<1>8. ASSUME NEW c \in Client, Call(c) PROVE DeskInv'
  BY <1>8, CallKeeps
<1>9. ASSUME NEW c \in Client, ReadEvent(c) PROVE DeskInv'
  BY <1>9, ReadEventKeeps
<1>10. CASE UNCHANGED vars
  BY <1>10, DeskStutter
<1> QED  BY <1>1, <1>2, <1>3, <1>4, <1>5, <1>6, <1>7, <1>8, <1>9, <1>10 DEF Next, Server

LEMMA DeskAlways == Spec => []DeskInv
BY DeskInit, DeskNext, PTL DEF Spec

\* No call of a client ever meets a certificate without its handler or the
\* handler of another's window, though run_observables() installs handlers
\* only after observe() gave the capabilities away.
THEOREM CallsAreHandled == Spec => []CallsHandled
<1>1. DeskInv => CallsHandled
  <2> SUFFICES ASSUME DeskInv PROVE CallsHandled
    OBVIOUS
  <2>1. TypeOK
    <3>1. ASSUME NEW id \in 1 .. Len(windows)
          PROVE  windows[id].status \in {"open", "closed"} /\ windows[id].ring \in {None} \cup 0 .. EVENT_RING
      <4>1. windows[id] \in WindowRecord
        BY DEF DeskInv, StateType
      <4> QED  BY <4>1 DEF WindowRecord
    <3> QED  BY <3>1 DEF DeskInv, StateType, HandlersInv, StopReason, TypeOK
  <2>2. stopped # "unhandled"
    BY DEF DeskInv, StateType, StopReason
  <2>3. WindowsOwn
    <3> SUFFICES ASSUME NEW c \in Client, pc = "calls", clients[c].window # None
                 PROVE  handlers[clients[c].cap] = clients[c].window
      BY DEF WindowsOwn
    <3>1. ClientInv(c) /\ new_handlers = {}
      BY DEF DeskInv, ClientsInv, HandlersInv
    <3>2. Leads(clients[c].cap, clients[c].window)
      BY <3>1 DEF ClientInv, ObjectOf
    <3> QED  BY <3>1, <3>2 DEF Leads
  <2> QED  BY <2>1, <2>2, <2>3 DEF CallsHandled
<1> QED  BY <1>1, DeskAlways, PTL

\* Wherever the user moved the mouse before a window was created, no slice of
\* copy_from_rect() or fill_rect() is out of bounds.
THEOREM DrawingInBounds == Spec => []DrawsInBounds
<1>1. DeskInv => DrawsInBounds
  BY DEF DeskInv, StateType, StopReason, DrawsInBounds
<1> QED  BY <1>1, DeskAlways, PTL

-----------------------------------------------------------------------------
(* Windows that were closed. *)

QuietStep ==
  \A id \in 1 .. Len(windows) :
    windows[id].status = "closed" =>
      /\ windows'[id].status = "closed" /\ active_window' # id
      /\ windows'[id].ring # None /\ windows[id].ring # None
           => windows'[id].ring <= windows[id].ring

\* A step that neither touches a closed window nor makes one active.
LEMMA UntouchedQuiet ==
  ASSUME DeskInv,
         \A id \in 1 .. Len(windows) :
           windows[id].status = "closed" => windows'[id].status = "closed" /\ windows'[id].ring = windows[id].ring,
         active_window' \in {None, active_window} \/ active_window' \notin 1 .. Len(windows)
           \/ windows[active_window'].status = "open"
  PROVE  QuietStep
<1> SUFFICES ASSUME NEW id \in 1 .. Len(windows), windows[id].status = "closed"
             PROVE  /\ windows'[id].status = "closed" /\ active_window' # id
                    /\ windows'[id].ring # None /\ windows[id].ring # None
                         => windows'[id].ring <= windows[id].ring
  BY DEF QuietStep
<1>1. windows'[id].status = "closed" /\ windows'[id].ring = windows[id].ring
  OBVIOUS
<1>2. windows[id] \in WindowRecord
  BY DEF DeskInv, StateType
<1>3. windows[id].ring # None => windows[id].ring \in Int
  BY <1>2 DEF WindowRecord
<1>4. active_window' # id
  BY NoneAssumption DEF DeskInv, ActiveInv
<1> QED  BY <1>1, <1>3, <1>4

LEMMA SameQuiet ==
  ASSUME DeskInv, windows' = windows, active_window' = active_window
  PROVE  QuietStep
BY UntouchedQuiet

\* A window's ring shrinks, or becomes empty.
LEMMA RingQuiet ==
  ASSUME DeskInv, NEW id \in 1 .. Len(windows), NEW v \in 0 .. EVENT_RING,
         windows[id].ring # None => v <= windows[id].ring,
         windows' = [windows EXCEPT ![id] = [windows[id] EXCEPT !.ring = v]],
         active_window' = active_window
  PROVE  QuietStep
<1>1. windows \in Seq(WindowRecord) /\ windows[id] \in WindowRecord
  BY DEF DeskInv, StateType
<1>2. PICK u : u = [windows[id] EXCEPT !.ring = v]
  OBVIOUS
<1>3. u.status = windows[id].status /\ u.ring = v
  BY <1>1, <1>2, RingSet
<1>4. windows'[id] = u /\ \A other \in 1 .. Len(windows) : other # id => windows'[other] = windows[other]
  BY <1>1, <1>2
<1> SUFFICES ASSUME NEW other \in 1 .. Len(windows), windows[other].status = "closed"
             PROVE  /\ windows'[other].status = "closed" /\ active_window' # other
                    /\ windows'[other].ring # None /\ windows[other].ring # None
                         => windows'[other].ring <= windows[other].ring
  BY DEF QuietStep
<1>5. active_window' # other
  BY NoneAssumption DEF DeskInv, ActiveInv
<1>6. CASE other = id
  BY <1>3, <1>4, <1>5, <1>6
<1>7. CASE other # id
  <2>1. windows[other] \in WindowRecord
    BY <1>1
  <2>2. windows[other].ring # None => windows[other].ring \in Int
    BY <2>1 DEF WindowRecord
  <2> QED  BY <1>4, <1>5, <1>7, <2>2
<1> QED  BY <1>6, <1>7

LEMMA KeyboardQuiet ==
  ASSUME DeskInv, ObserveKeyboard
  PROVE  QuietStep
<1>0. ASSUME NEW why, Stop(why) PROVE QuietStep
  BY <1>0, SameQuiet DEF Stop, screen
<1>1. CASE SpawnTerminal
  <2>1. (\E why : Stop(why)) \/ Observed(windows, None, "NotStarted")
    BY <1>1 DEF SpawnTerminal
  <2>2. (\E why : Stop(why)) \/ (windows' = windows /\ active_window' = None)
    BY <2>1 DEF Observed, RingFull, Pushed
  <2> QED  BY <1>0, <2>2, UntouchedQuiet
<1>2. CASE CloseWindow
  <2>1. CASE active_window = None
    <3>1. windows' = windows /\ active_window' = None
      BY <1>2, <2>1 DEF CloseWindow, Observed, RingFull, Pushed
    <3> QED  BY <3>1, UntouchedQuiet
  <2>2. CASE active_window # None
    <3>1. PICK id \in 1 .. Len(windows) : id = active_window
      BY <2>2 DEF DeskInv, StateType
    <3>2. windows \in Seq(WindowRecord) /\ windows[id] \in WindowRecord
      BY DEF DeskInv, StateType
    <3>3. \/ \E why : Stop(why)
          \/ windows' = [windows EXCEPT ![id].status = "closed"] /\ active_window' = None
      BY <1>2, <2>2, <3>1 DEF CloseWindow, Observed, RingFull, Pushed
    <3>4. ASSUME windows' = [windows EXCEPT ![id].status = "closed"], active_window' = None
          PROVE  QuietStep
      <4>1. PICK u : u = [windows[id] EXCEPT !.status = "closed"]
        OBVIOUS
      <4>2. u.status = "closed" /\ u.ring = windows[id].ring
        BY <3>2, <4>1, Closed
      <4>3. windows'[id] = u /\ \A other \in 1 .. Len(windows) : other # id => windows'[other] = windows[other]
        BY <3>2, <3>4, <4>1
      <4> QED  BY <3>4, <4>2, <4>3, UntouchedQuiet
    <3> QED  BY <1>0, <3>3, <3>4
  <2> QED  BY <2>1, <2>2
<1>3. CASE Shutdown
  BY <1>0, <1>3 DEF Shutdown
<1>4. CASE OtherEvent
  <2>1. Observed(windows, active_window, NextShortcut)
    BY <1>4 DEF OtherEvent
  <2>2. CASE RingFull(windows, active_window)
    BY <1>0, <2>1, <2>2 DEF Observed
  <2>3. CASE ~RingFull(windows, active_window)
    <3>1. windows' = Pushed(windows, active_window) /\ active_window' = active_window
      BY <2>1, <2>3 DEF Observed
    <3>2. \A id \in 1 .. Len(windows) : id # active_window => windows'[id] = windows[id]
      BY <2>3, <3>1, PushedFacts
    <3>3. ASSUME NEW id \in 1 .. Len(windows), windows[id].status = "closed"
          PROVE  windows'[id].status = "closed" /\ windows'[id].ring = windows[id].ring
      <4>1. id # active_window
        BY <3>3, NoneAssumption DEF DeskInv, ActiveInv
      <4> QED  BY <3>2, <3>3, <4>1
    <3> QED  BY <3>1, <3>3, UntouchedQuiet
  <2> QED  BY <2>2, <2>3
<1> QED  BY <1>1, <1>2, <1>3, <1>4 DEF ObserveKeyboard

LEMMA RunCallQuiet ==
  ASSUME DeskInv, RunCall
  PROVE  QuietStep
<1>1. PICK r : r = Head(requests)
  OBVIOUS
<1>2. pc = "calls" /\ requests # <<>>
  BY DEF RunCall
<1>3. CASE Stop("slots") \/ Stop("memory")
  BY <1>3, SameQuiet DEF Stop, screen
<1>4. CASE create_window(r)
  <2>1. PICK w : w = NewWindow(r.size)
    OBVIOUS
  <2>2. windows' = Append(windows, w) /\ active_window' = Len(windows) + 1
    BY <1>4, <2>1 DEF create_window
  <2>3. Len(windows) \in Nat /\ \A id \in 1 .. Len(windows) : windows'[id] = windows[id]
    BY <2>2 DEF DeskInv, StateType
  <2>4. active_window' \notin 1 .. Len(windows)
    BY <2>2, <2>3
  <2> QED  BY <2>3, <2>4, UntouchedQuiet
<1>5. CASE framebuffer(r) \/ draw(r)
  BY <1>5, SameQuiet DEF framebuffer, draw, screen
<1>6. CASE r.method = "events" /\ events(r)
  <2>1. PICK id \in 1 .. Len(windows) : id = handlers[r.index]
    BY <1>1, <1>2, <1>6, WindowCall
  <2>2. windows' = [windows EXCEPT ![id].ring = 0] /\ active_window' = active_window
    BY <1>6, <2>1 DEF events
  <2>3. PICK v \in 0 .. EVENT_RING : v = 0
    BY DesktopAssumption
  <2>4. windows' = [windows EXCEPT ![id] = [windows[id] EXCEPT !.ring = v]]
    BY <2>2, <2>3
  <2>5. windows[id] \in WindowRecord
    BY DEF DeskInv, StateType
  <2>6. windows[id].ring # None => v <= windows[id].ring
    BY <2>3, <2>5 DEF WindowRecord
  <2> QED  BY <2>2, <2>4, <2>6, RingQuiet
<1> QED  BY <1>1, <1>3, <1>4, <1>5, <1>6, RunCallProceeds

\* A closed window stays closed, is never active again and gets no more
\* events, whatever is clicked, typed or drawn.
THEOREM ClosedStayQuiet == Spec => ClosedWindowsQuiet
<1>1. DeskInv /\ [Next]_vars => [QuietStep]_vars
  <2> SUFFICES ASSUME DeskInv, Next PROVE QuietStep
    OBVIOUS
  <2>1. CASE RunCall
    BY <2>1, RunCallQuiet
  <2>2. CASE CallsDone \/ KeyboardDone \/ MouseDone \/ Input \/ SpawnViewer
    BY <2>2, SameQuiet DEF CallsDone, KeyboardDone, MouseDone, Input, SpawnViewer, screen
  <2>3. CASE ObserveKeyboard
    BY <2>3, KeyboardQuiet
  <2>4. CASE ObserveMouse
    <3>1. windows' = windows /\ (active_window' = active_window \/ active_window' = Clicked)
      BY <2>4 DEF ObserveMouse
    <3>2. CASE Hit = {}
      BY <3>1, <3>2, SameQuiet DEF Clicked
    <3>3. CASE Hit # {}
      <4>1. Clicked \in Hit
        BY <3>3, LastHit
      <4>2. windows[Clicked].status = "open"
        BY <4>1 DEF Hit
      <4> QED  BY <3>1, <4>2, UntouchedQuiet
    <3> QED  BY <3>2, <3>3
  <2>5. ASSUME NEW c \in Client, Call(c) PROVE QuietStep
    BY <2>5, SameQuiet DEF Call, screen
  <2>6. ASSUME NEW c \in Client, ReadEvent(c) PROVE QuietStep
    <3>1. PICK id \in 1 .. Len(windows), v \in 0 .. EVENT_RING :
            /\ windows[id].ring = v + 1
            /\ windows' = [windows EXCEPT ![id] = [windows[id] EXCEPT !.ring = v]]
      BY <2>6, ReadEventFacts
    <3>2. active_window' = active_window
      BY <2>6 DEF ReadEvent
    <3>3. windows[id].ring # None => v <= windows[id].ring
      BY <3>1
    <3> QED  BY <3>1, <3>2, <3>3, RingQuiet
  <2> QED  BY <2>1, <2>2, <2>3, <2>4, <2>5, <2>6 DEF Next, Server
<1> QED  BY <1>1, DeskAlways, PTL DEF Spec, ClosedWindowsQuiet, QuietStep

=============================================================================
