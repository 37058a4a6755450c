------------------------------ MODULE Drivers ------------------------------
(***************************************************************************)
(* The drivers that wait for their device (kernel/src/virtio/queue.rs,     *)
(* virtio/blk.rs, virtio/gpu.rs): a drive with one queue, and a display    *)
(* with one for commands and one for the cursor.                           *)
(*                                                                         *)
(* A call fills a chain of descriptors that starts with descriptor 0 and   *)
(* leads to buffers on the kernel's stack, hands it to the device by       *)
(* adding one to the index of the available ring, and spins until the used *)
(* ring has caught up.  The kernel serves one call at a time with          *)
(* interrupts off; the device works whenever it likes.  A sector, the      *)
(* pixels of a buffer and a position are values of small sets.  The ring's *)
(* slots, which only ever hold 0, are left out; the fences order what      *)
(* Submit does at once.                                                    *)
(***************************************************************************)
EXTENDS Naturals, Sequences, SequencesExt, FiniteSets

CONSTANTS
  Machines,      \* sets of devices a machine may be found to have
  INDEX_END,     \* number of values of a ring index, 2^16 in the code
  CAPACITY,      \* number of sectors of the drive
  PAGE_SECTORS,  \* number of sectors in a page
  RegionStart,   \* first sectors of the regions that are mapped
  MAX_REGIONS,   \* bound: regions of the drive that are mapped
  Value,         \* contents of a sector or of an image, positions of the cursor
  None           \* nothing

ASSUME DriversAssumption ==
  /\ \A m \in Machines : m \subseteq {"drive", "display"}
  /\ INDEX_END \in Nat \ {0} /\ CAPACITY \in Nat
  /\ PAGE_SECTORS \in Nat \ {0} /\ RegionStart \subseteq Nat /\ MAX_REGIONS \in Nat

Queue == {"drive", "control", "cursor"}
Images == {"framebuffer", "cursor_image"}
Address == {"request", "data", "response"}   \* of the buffers of a request
Sector == 0 .. CAPACITY                      \* the last one does not exist

\* A command to a device, and a call that makes several.
Cmd == {"in", "out", "get_display_info", "create_2d", "attach_backing", "set_scanout", "transfer",
        "flush", "update_cursor", "move_cursor"}
Op == {"new", "read", "write", "load_page", "draw", "cursor_image_modified", "update_cursor",
       "handle"}
Data == Value \cup Images \cup {None}
CommandType == [queue : Queue, cmd : Cmd, arg : Nat, data : Data]
CallType ==
  [op : Op, arg : Seq(Nat \cup Value), commands : Seq(CommandType), got : Seq(Data),
   waiting : BOOLEAN]

ASSUME NoneAssumption == None \notin Value \cup Images \cup Nat \cup CallType

VARIABLES
  devices,        \* the devices of this machine
  descriptors,    \* of each queue, its descriptors 0, 1 and 2
  available,      \* of each queue, the index of the available ring
  used,           \* of each queue, the index of the used ring
  taken,          \* of each queue, the chain the device works on
  memory,         \* the kernel's buffers, None while they do not exist
  call,           \* the call the kernel works on
  regions,        \* MappedRegions: first sector and number of pages
  cursor_updated, \* whether the cursor image has to be sent
  disk,           \* contents of the drive
  images,         \* framebuffer and cursor image, which programs paint
  display,        \* what the display holds and shows
  panicked        \* "no" or why the kernel panicked

kernel == <<descriptors, available, memory, call, regions, cursor_updated>>
hardware == <<used, taken, disk, images, display>>
vars == <<devices, kernel, hardware, panicked>>

Resource == {1, 2}
ImageOf(resource) == IF resource = 1 THEN "framebuffer" ELSE "cursor_image"

-----------------------------------------------------------------------------
(* Commands, each with the queue it goes to, and the chains they need.     *)

Command(queue, cmd, arg, data) == [queue |-> queue, cmd |-> cmd, arg |-> arg, data |-> data]
In(sector) == Command("drive", "in", sector, None)
Out(sector, value) == Command("drive", "out", sector, value)
GetDisplayInfo == Command("control", "get_display_info", 0, None)
Create2D(resource) == Command("control", "create_2d", resource, None)
AttachBacking(resource) == Command("control", "attach_backing", resource, ImageOf(resource))
SetScanout == Command("control", "set_scanout", 1, None)
TransferToHost(resource) == Command("control", "transfer", resource, None)
Flush == Command("control", "flush", 1, None)
UpdateCursor(pos) == Command("cursor", "update_cursor", 2, pos)
MoveCursor(pos) == Command("cursor", "move_cursor", 2, pos)

readonly(address, next) == [address |-> address, write |-> FALSE, next |-> next]
writeonly(address, next) == [address |-> address, write |-> TRUE, next |-> next]

\* The descriptors the driver fills for a command, from descriptor 0 on.
Layout(command) ==
  CASE command.cmd = "in" ->
         <<readonly("request", 1), writeonly("data", 2), writeonly("response", None)>>
    [] command.cmd \in {"out", "attach_backing"} ->
         <<readonly("request", 1), readonly("data", 2), writeonly("response", None)>>
    [] command.queue = "cursor" -> <<readonly("request", None)>>
    [] OTHER -> <<readonly("request", 1), writeonly("response", None)>>

\* The chain a device finds in a queue.
Chain(q) ==
  LET ds == descriptors[q]
      last == CHOOSE n \in 0 .. 2 : ds[n].next = None /\ \A m \in 0 .. n - 1 : ds[m].next = m + 1
  IN  [i \in 1 .. last + 1 |-> ds[i - 1]]

\* The sectors of a page of a region, in the order load_page() reads them.
PageSectors(region, page_index) ==
  [i \in 1 .. PAGE_SECTORS |-> region.first + page_index * PAGE_SECTORS + (i - 1)]

-----------------------------------------------------------------------------
(* What the kernel does. *)

DisplayInit ==
  <<GetDisplayInfo, Create2D(1), AttachBacking(1), SetScanout, Create2D(2), AttachBacking(2)>>

NewCall(op, arg, commands) ==
  [op |-> op, arg |-> arg, commands |-> commands, got |-> <<>>, waiting |-> FALSE]

\* The command a call is at, and whether it has all its answers.
Current == call.commands[Len(call.got) + 1]
Done == call # None /\ Len(call.got) = Len(call.commands)

Init ==
  /\ devices \in Machines
  /\ descriptors = [q \in Queue |-> [i \in 0 .. 2 |-> readonly("request", None)]]
  /\ available = [q \in Queue |-> 0]
  /\ used = [q \in Queue |-> 0]
  /\ taken = [q \in Queue |-> None]
  /\ memory = [a \in Address |-> None]
  /\ call = IF "display" \in devices THEN NewCall("new", <<>>, DisplayInit) ELSE None
  /\ regions = {}
  /\ cursor_updated = TRUE
  /\ disk \in IF "drive" \in devices THEN [0 .. CAPACITY - 1 -> Value] ELSE {<<>>}
  /\ \E v \in Value :
       /\ images = [i \in Images |-> v]
       /\ display = [created |-> {}, backing |-> [r \in Resource |-> None],
                     host |-> [r \in Resource |-> None], scanout |-> None,
                     screen |-> None, cursor |-> None, pos |-> None, changed |-> FALSE, enabled |-> TRUE]
  /\ panicked = "no"

Begin(device, op, arg, commands) ==
  /\ panicked = "no" /\ device \in devices /\ call = None
  /\ call' = NewCall(op, arg, commands)
  /\ UNCHANGED <<devices, hardware, descriptors, available, memory, panicked>>

\* DriveServer::read() and write() make one request.  Data that is no sector,
\* here None, panics the kernel.
read(sector) ==
  Begin("drive", "read", <<sector>>, <<In(sector)>>) /\ UNCHANGED <<regions, cursor_updated>>

write(sector, data) ==
  \/ /\ data # None
     /\ Begin("drive", "write", <<sector, data>>, <<Out(sector, data)>>)
     /\ UNCHANGED <<regions, cursor_updated>>
  \/ /\ data = None
     /\ panicked = "no" /\ "drive" \in devices /\ call = None
     /\ panicked' = "size"
     /\ UNCHANGED <<devices, kernel, hardware>>

\* A region must be whole pages; anything else panics the kernel.
read_mapped(first, count) ==
  /\ panicked = "no" /\ "drive" \in devices /\ call = None
  /\ IF count % PAGE_SECTORS = 0
       THEN /\ regions' = regions \cup {[first |-> first, pages |-> count \div PAGE_SECTORS]}
            /\ UNCHANGED panicked
       ELSE panicked' = "size" /\ UNCHANGED regions
  /\ UNCHANGED <<devices, hardware, descriptors, available, memory, call, cursor_updated>>

\* A page fault in a region reads the sectors of the page one after another.
load_page(region, page_index) ==
  LET sectors == PageSectors(region, page_index)
  IN  /\ Begin("drive", "load_page", <<region.first, page_index>>,
               [i \in DOMAIN sectors |-> In(sectors[i])])
      /\ UNCHANGED <<regions, cursor_updated>>

draw ==
  Begin("display", "draw", <<>>, <<TransferToHost(1), Flush>>) /\ UNCHANGED <<regions, cursor_updated>>

cursor_image_modified ==
  /\ Begin("display", "cursor_image_modified", <<>>, <<TransferToHost(2)>>)
  /\ UNCHANGED <<regions, cursor_updated>>

update_cursor(pos) ==
  /\ Begin("display", "update_cursor", <<pos>>,
           <<IF cursor_updated THEN UpdateCursor(pos) ELSE MoveCursor(pos)>>)
  /\ cursor_updated' = FALSE
  /\ UNCHANGED regions

\* The interrupt handler asks for a changed resolution, only to log it.
handle ==
  /\ display.changed
  /\ panicked = "no" /\ call = None
  /\ call' = NewCall("handle", <<>>, <<GetDisplayInfo>>)
  /\ display' = [display EXCEPT !.changed = FALSE]
  /\ UNCHANGED <<devices, used, taken, disk, images, descriptors, available, memory,
                 regions, cursor_updated, panicked>>

MutantWraps(index) == (index + 1) % INDEX_END

NextIndex(index) == index + 1

\* The first half of send_and_recv(): the request is in memory, its chain in
\* the descriptors.  The addition is checked.  The status of a drive request
\* is 0 before the device writes it, and 0 stands for success.
Submit ==
  /\ panicked = "no" /\ call # None /\ ~Done /\ ~call.waiting
  /\ LET q == Current.queue
         layout == Layout(Current)
     IN  /\ descriptors' = [descriptors EXCEPT ![q] =
                              [i \in 0 .. 2 |-> IF i < Len(layout) THEN layout[i + 1] ELSE @[i]]]
         /\ memory' = [request |-> Current, data |-> Current.data,
                       response |-> IF q = "drive" THEN "ok" ELSE "default"]
         /\ IF NextIndex(available[q]) = INDEX_END
              THEN panicked' = "index" /\ UNCHANGED <<available, call>>
              ELSE /\ available' = [available EXCEPT ![q] = NextIndex(@)]
                   /\ call' = [call EXCEPT !.waiting = TRUE]
                   /\ UNCHANGED panicked
  /\ UNCHANGED <<devices, hardware, regions, cursor_updated>>

MutantNeverCaughtUp(q) == used[q] <= available[q]

MutantReturnsAtOnce(q) == FALSE

\* The indices are compared as numbers.
Waits(q) == used[q] < available[q]

\* Why a response panics the kernel, or "no": the callers unwrap the result.
Refusal(command, response) ==
  CASE command.queue = "cursor" -> "no"
    [] response = "ok" -> "no"
    [] command.queue = "drive" -> "drive"
    [] response = "disabled" -> "disabled"
    [] OTHER -> "refused"

MutantForgetsImage ==
  /\ panicked = "no" /\ call # None /\ call.waiting /\ ~Waits(Current.queue)
  /\ panicked' = Refusal(Current, memory["response"])
  /\ call' = [call EXCEPT !.got = Append(@, memory["data"]), !.waiting = FALSE]
  /\ memory' = [a \in Address |-> None]
  /\ UNCHANGED <<devices, hardware, descriptors, available, regions, cursor_updated>>

\* The second half, and what the caller does with the response.  The request's
\* buffers go out of scope.
Finish ==
  /\ panicked = "no" /\ call # None /\ call.waiting /\ ~Waits(Current.queue)
  /\ panicked' = Refusal(Current, memory["response"])
  /\ call' = [call EXCEPT !.got = Append(@, memory["data"]), !.waiting = FALSE]
  /\ memory' = [a \in Address |-> None]
  /\ cursor_updated' = (cursor_updated \/ call.op = "cursor_image_modified")
  /\ UNCHANGED <<devices, hardware, descriptors, available, regions>>

Return ==
  /\ panicked = "no" /\ Done
  /\ call' = None
  /\ UNCHANGED <<devices, hardware, descriptors, available, memory, regions, cursor_updated, panicked>>

-----------------------------------------------------------------------------
(* What the devices do: read a chain, and some time later carry it out,    *)
(* write the answer into the buffers and count it as used.  The drive      *)
(* refuses sectors it does not have, the display resources that were not   *)
(* created or have no backing.                                             *)

Take(q) ==
  /\ taken[q] = None /\ used[q] # available[q]
  /\ taken' = [taken EXCEPT ![q] = Chain(q)]
  /\ UNCHANGED <<devices, kernel, used, disk, images, display, panicked>>

\* The device's answer to a command, then what it does to the display.
Response(command) ==
  CASE command.queue = "drive" -> IF command.arg < CAPACITY THEN "ok" ELSE "err"
    [] command.cmd = "get_display_info" -> IF display.enabled THEN "ok" ELSE "disabled"
    [] command.cmd = "create_2d" -> IF command.arg \in display.created THEN "err" ELSE "ok"
    [] command.cmd \in {"attach_backing", "set_scanout", "flush"} ->
         IF command.arg \in display.created THEN "ok" ELSE "err"
    [] command.cmd = "transfer" -> IF display.backing[command.arg] # None THEN "ok" ELSE "err"
    [] OTHER -> "ok"

Shown(command, data) ==
  CASE command.cmd = "create_2d" -> [display EXCEPT !.created = @ \cup {command.arg}]
    [] command.cmd = "attach_backing" -> [display EXCEPT !.backing[command.arg] = data]
    [] command.cmd = "set_scanout" -> [display EXCEPT !.scanout = command.arg]
    [] command.cmd = "transfer" ->
         [display EXCEPT !.host[command.arg] = images[display.backing[command.arg]]]
    [] command.cmd = "flush" /\ display.scanout = command.arg ->
         [display EXCEPT !.screen = display.host[command.arg]]
    [] command.cmd = "update_cursor" ->
         [display EXCEPT !.cursor = display.host[command.arg], !.pos = data]
    [] command.cmd = "move_cursor" -> [display EXCEPT !.pos = data]
    [] OTHER -> display

Serve(q) ==
  LET chain == taken[q]
      command == memory[chain[1].address]
      response == Response(command)
  IN  /\ chain # None
      /\ taken' = [taken EXCEPT ![q] = None]
      /\ used' = [used EXCEPT ![q] = (@ + 1) % INDEX_END]
      /\ memory' = [a \in Address |->
                      CASE a = Last(chain).address /\ Last(chain).write -> response
                        [] command.cmd = "in" /\ response = "ok" /\ a = chain[2].address
                             -> disk[command.arg]
                        [] OTHER -> memory[a]]
      /\ disk' = IF command.cmd = "out" /\ response = "ok"
                   THEN [disk EXCEPT ![command.arg] = memory[chain[2].address]]
                   ELSE disk
      /\ display' = IF command.queue # "drive" /\ response = "ok"
                      THEN Shown(command, command.data)
                      ELSE display
      /\ UNCHANGED <<devices, descriptors, available, call, regions, cursor_updated, images, panicked>>

\* The user changes the window the display is in.
ChangeDisplay ==
  /\ panicked = "no" /\ "display" \in devices
  /\ \E enabled \in BOOLEAN :
       display' = [display EXCEPT !.changed = TRUE, !.enabled = enabled]
  /\ UNCHANGED <<devices, kernel, used, taken, disk, images, panicked>>

\* Programs paint while the kernel does not run.
Paint(image, value) ==
  /\ panicked = "no" /\ "display" \in devices /\ call = None
  /\ images' = [images EXCEPT ![image] = value]
  /\ UNCHANGED <<devices, kernel, used, taken, disk, display, panicked>>

-----------------------------------------------------------------------------
(* The specification. *)

Calls ==
  \/ \E sector \in Sector : read(sector) \/ \E data \in Value \cup {None} : write(sector, data)
  \/ \E first \in RegionStart, count \in 0 .. CAPACITY :
       Cardinality(regions) < MAX_REGIONS /\ read_mapped(first, count)
  \/ \E region \in regions : \E page \in 0 .. region.pages - 1 : load_page(region, page)
  \/ draw \/ cursor_image_modified \/ \E pos \in Value : update_cursor(pos)
  \/ handle

Next ==
  \/ Calls \/ Submit \/ Finish \/ Return
  \/ \E q \in Queue : Take(q) \/ Serve(q)
  \/ ChangeDisplay
  \/ \E image \in Images, v \in Value : Paint(image, v)

\* The kernel does not stop in a call, and the devices do their work.
Fairness ==
  /\ WF_vars(Submit) /\ WF_vars(Finish) /\ WF_vars(Return)
  /\ \A q \in Queue : WF_vars(Take(q)) /\ WF_vars(Serve(q))

Spec == Init /\ [][Next]_vars /\ Fairness

-----------------------------------------------------------------------------
(* Properties. *)

\* The state has its shape, and no index is out of range.
TypeOK ==
  /\ devices \in Machines
  /\ available \in [Queue -> 0 .. INDEX_END - 1] /\ used \in [Queue -> 0 .. INDEX_END - 1]
  /\ \A q \in Queue, i \in 0 .. 2 : descriptors[q][i].address \in Address
  /\ call \in CallType \cup {None}
  /\ "drive" \in devices => disk \in [0 .. CAPACITY - 1 -> Value]
  /\ images \in [Images -> Value]
  /\ cursor_updated \in BOOLEAN
  /\ panicked \in {"no", "index", "drive", "size", "refused", "disabled"}

\* A device never holds a chain whose buffers are gone: what is available and
\* not used, or taken, is the one request the kernel waits for, though the
\* indices are compared without regard to their wrapping.
BuffersLive ==
  /\ TypeOK
  /\ \A q \in Queue :
       taken[q] # None \/ used[q] # available[q]
         => call # None /\ call.waiting /\ Current.queue = q

\* What a read or a loaded page returns is what the drive holds there, and
\* what was written is on the drive, once the call is done.
DriveExact ==
  Done /\ panicked = "no" =>
    /\ call.op = "read" => call.got = <<disk[call.arg[1]]>>
    /\ call.op = "write" => disk[call.arg[1]] = call.arg[2]
    /\ call.op = "load_page" =>
         \A i \in 0 .. PAGE_SECTORS - 1 :
           call.got[i + 1] = disk[call.arg[1] + call.arg[2] * PAGE_SECTORS + i]

\* The display accepts every command: resources are created, backed and shown
\* in the order it asks for before anything is drawn.
CommandsAccepted == panicked # "refused"

\* When draw() is done the screen shows the framebuffer, and when
\* update_cursor() is done the cursor is in its place and has the image the
\* last cursor_image_modified() sent, though it is not sent every time; no
\* command on the way is refused.
DisplayExact ==
  /\ CommandsAccepted
  /\ Done =>
       /\ call.op = "draw" => display.screen = images["framebuffer"]
       /\ call.op = "update_cursor" => display.pos = call.arg[1] /\ display.cursor = display.host[2]

\* Every call returns, unless the kernel panics.
CallsReturn == call # None ~> call = None \/ panicked # "no"

=============================================================================
