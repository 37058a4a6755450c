------------------------------ MODULE Desktop ------------------------------
(***************************************************************************)
(* The window server (apps/src/bin/windowing.rs) on the dispatch library   *)
(* (kernel-api/src/dispatch.rs, capability.rs), with the clipping of       *)
(* framebuffers (kernel-api/src/framebuffer.rs).                           *)
(*                                                                         *)
(* The server answers all calls that wait, then looks at all input that    *)
(* came, then installs the handlers of the capabilities it granted and     *)
(* yields.  Its clients are the terminals Alt+T starts and the image       *)
(* viewers a shell starts; each creates a window, asks for its framebuffer *)
(* and, a terminal, for its events, and draws.  Calls wait in the order    *)
(* they were made (module Kernel).  Pixels are left out, and of a window's *)
(* event ring (module RingBuffer) only the number of unread events is kept.*)
(***************************************************************************)
EXTENDS Integers, Sequences, FiniteSets

CONSTANTS
  CLIENTS,       \* bound: processes that may use the window server
  Sizes,         \* sizes of windows they ask for
  MouseEvents,   \* what the user does with the mouse
  WIDTH, HEIGHT, \* of the display
  ABS_MAX,       \* largest value of an absolute axis; the smallest is 0
  EVENT_RING,    \* events a window's ring can hold
  SLOTS,         \* capability certificates a process can have
  MAX_INPUT,     \* bound: sequences of input events
  MAX_PENDING,   \* bound: events that wait in a device's stream when more come
  None           \* nothing

ASSUME DesktopAssumption ==
  /\ Sizes \subseteq (Nat \ {0}) \X (Nat \ {0})
  /\ WIDTH \in Nat \ {0} /\ HEIGHT \in Nat \ {0} /\ ABS_MAX \in Nat \ {0}
  /\ CLIENTS \in Nat /\ EVENT_RING \in Nat \ {0} /\ SLOTS \in Nat \ {0}
  /\ MAX_INPUT \in Nat /\ MAX_PENDING \in Nat
  /\ \A e \in MouseEvents :
       e.value \in Int /\ (e.code \in {"abs_x", "abs_y"} => e.value \in 0 .. ABS_MAX)

ASSUME NoneAssumption == None \notin Int \cup {"windowing"}

VARIABLES
  pc,              \* what the server's loop is at: "calls", "keyboard" or "mouse"
  requests,        \* the calls that wait, in order
  handlers,        \* of each certificate the server knows of, its object
  allocated,       \* CAPABILITIES_ALLOCATED
  new_handlers,    \* handlers of capabilities granted since calls were answered
  windows,         \* the windows ever created
  active_window,   \* the window that gets the keyboard's events
  cursor_x, cursor_y,
  global_shortcut, \* whether Alt was pressed
  keyboard, mouse, \* events that wait in the streams of the devices
  clients,         \* what each client holds and waits for
  shell_caps,      \* capabilities of the window server that shells hold
  inputs,          \* number of input sequences so far
  stopped          \* "no", "shutdown", or why the server panicked

Client == 1 .. CLIENTS

dispatch == <<handlers, allocated, new_handlers>>
screen == <<windows, active_window, cursor_x, cursor_y>>
devices == <<keyboard, mouse, inputs>>
vars == <<pc, requests, dispatch, screen, global_shortcut, devices, clients, shell_caps, stopped>>

SYN == [code |-> "syn", value |-> 0]
Key(code, value) == [code |-> code, value |-> value]
KeyEvents == {Key(code, 1) : code \in {"alt", "t", "q", "esc", "other"}} \cup {Key("alt", 0)}
Max2(a, b) == IF a >= b THEN a ELSE b
Min2(a, b) == IF a <= b THEN a ELSE b
MutantNoLowerEnd(n, end) == Min2(n, end)

Clamp(n, end) == Min2(Max2(n, 0), end)

Unborn == [stage |-> "unborn", terminal |-> FALSE, cap |-> None, window |-> None, waiting |-> FALSE]

Init ==
  /\ pc = "calls" /\ requests = <<>>
  /\ handlers = [i \in {0} |-> "windowing"] /\ allocated = 1 /\ new_handlers = {}
  /\ windows = <<>> /\ active_window = None
  /\ cursor_x = WIDTH \div 2 /\ cursor_y = HEIGHT \div 2
  /\ global_shortcut = "NotStarted"
  /\ keyboard = <<>> /\ mouse = <<>> /\ inputs = 0
  /\ clients = [c \in Client |-> Unborn] /\ shell_caps = {}
  /\ stopped = "no"

\* The clients once another one was started; one beyond the bound does nothing.
Started(terminal, cap) ==
  LET unborn == {c \in Client : clients[c].stage = "unborn"}
      next == CHOOSE c \in unborn : \A other \in unborn : c <= other
  IN  IF unborn = {}
        THEN clients
        ELSE [clients EXCEPT ![next] = [Unborn EXCEPT !.stage = "create",
                                                      !.terminal = terminal, !.cap = cap]]

Stop(why) ==
  /\ stopped' = why
  /\ UNCHANGED <<pc, requests, dispatch, screen, global_shortcut, devices, clients, shell_caps>>

-----------------------------------------------------------------------------
(* Framebuffers: what the slices of copy_from_rect() and fill_rect() need. *)

\* A window's pixels land on the display where the two overlap.
CopyInBounds(w) ==
  LET min_x == Max2(-w.x, 0)
      max_x == Min2(WIDTH - w.x, w.width)
      min_y == Max2(-w.y, 0)
      max_y == Min2(HEIGHT - w.y, w.height)
  IN  \A y \in min_y .. max_y - 1 :
        /\ w.y + y \in 0 .. HEIGHT - 1
        /\ 0 <= w.x + min_x /\ w.x + min_x <= w.x + max_x /\ w.x + max_x <= WIDTH
        /\ max_x <= w.width

FillInBounds(w) ==
  /\ Clamp(w.x, WIDTH) <= Clamp(w.x + w.width, WIDTH)
  /\ Clamp(w.y, HEIGHT) <= Clamp(w.y + w.height, HEIGHT)

-----------------------------------------------------------------------------
(* Dispatch: handlers are installed under the index of their certificate.  *)

\* resize_with(CAPABILITIES_ALLOCATED), then the new handlers.
Installed(new, count) ==
  [i \in 0 .. count - 1 |->
     IF \E h \in new : h.index = i THEN (CHOOSE h \in new : h.index = i).object
     ELSE IF i \in DOMAIN handlers THEN handlers[i] ELSE None]

\* The reply to a call: the client goes on with its next stage.
Reply(c, stage, cap, window) ==
  clients' = [clients EXCEPT ![c].stage = stage, ![c].cap = cap, ![c].window = window,
                             ![c].waiting = FALSE]

NewWindow(size) ==
  [x |-> cursor_x - size[1] \div 2, y |-> cursor_y - size[2] \div 2,
   width |-> size[1], height |-> size[2], status |-> "open", ring |-> None]

create_window(r) ==
  /\ windows' = Append(windows, NewWindow(r.size))
  /\ active_window' = Len(windows) + 1
  /\ Reply(r.client, "framebuffer", allocated, Len(windows) + 1)
  /\ handlers' = Installed({[index |-> allocated, object |-> Len(windows) + 1]}, allocated + 1)
  /\ allocated' = allocated + 1
  /\ UNCHANGED <<cursor_x, cursor_y>>

\* A forwarded capability takes a certificate and needs no handler.
framebuffer(r) ==
  /\ Reply(r.client, IF clients[r.client].terminal THEN "events" ELSE "draw",
           clients[r.client].cap, clients[r.client].window)
  /\ handlers' = Installed({}, allocated + 1) /\ allocated' = allocated + 1
  /\ UNCHANGED screen

events(r) ==
  /\ windows' = [windows EXCEPT ![handlers[r.index]].ring = 0]
  /\ Reply(r.client, "draw", clients[r.client].cap, clients[r.client].window)
  /\ handlers' = Installed({}, allocated + 1) /\ allocated' = allocated + 1
  /\ UNCHANGED <<active_window, cursor_x, cursor_y>>

\* The window and then the active one are copied to the display.
Drawn(id) == {windows[id]} \cup (IF active_window = None THEN {} ELSE {windows[active_window]})

\* A terminal draws again and again, a viewer once.
draw(r) ==
  /\ Reply(r.client, IF clients[r.client].terminal THEN "draw" ELSE "idle",
           clients[r.client].cap, clients[r.client].window)
  /\ handlers' = Installed({}, allocated)
  /\ UNCHANGED <<allocated, screen>>

\* alloc_shared() fails: there is no memory, or the size of the pixels is too
\* large a number.
NoMemory(r) == r.method \in {"create", "events"} /\ Stop("memory")

\* run_call(): one call, from the handler's look-up to ipc_reply().
RunCall ==
  /\ stopped = "no" /\ pc = "calls" /\ requests # <<>>
  /\ LET r == Head(requests)
     IN  IF r.index \notin DOMAIN handlers \/ handlers[r.index] = None
           THEN Stop("unhandled")
         ELSE IF r.method # "draw" /\ allocated = SLOTS THEN Stop("slots")
         ELSE IF r.method = "draw" /\ \E w \in Drawn(handlers[r.index]) : ~CopyInBounds(w)
           THEN Stop("bounds")
         ELSE \/ NoMemory(r)
              \/ /\ \/ r.method = "create" /\ create_window(r)
                    \/ r.method = "framebuffer" /\ framebuffer(r)
                    \/ r.method = "events" /\ events(r)
                    \/ r.method = "draw" /\ draw(r)
                 /\ requests' = Tail(requests)
                 /\ UNCHANGED <<pc, new_handlers, global_shortcut, devices, shell_caps, stopped>>

\* No call waits any more: the input is looked at.
CallsDone ==
  /\ stopped = "no" /\ pc = "calls" /\ requests = <<>>
  /\ pc' = "keyboard"
  /\ UNCHANGED <<requests, dispatch, screen, global_shortcut, devices, clients, shell_caps, stopped>>

-----------------------------------------------------------------------------
(* Keyboard input: shortcuts first, then the event goes to the window that *)
(* is active now, whose full ring would fail the assertion of push().      *)

Pushed(ws, active) ==
  IF active = None \/ ws[active].ring = None THEN ws ELSE [ws EXCEPT ![active].ring = @ + 1]

RingFull(ws, active) ==
  active # None /\ ws[active].ring # None /\ ws[active].ring = EVENT_RING

\* The rest of observe(), with the windows, the active one and the shortcut as
\* the shortcut left them.
Observed(ws, active, shortcut) ==
  IF RingFull(ws, active)
    THEN Stop("ring")
    ELSE /\ windows' = Pushed(ws, active)
         /\ active_window' = active
         /\ global_shortcut' = shortcut
         /\ keyboard' = Tail(keyboard)
         /\ UNCHANGED <<pc, requests, handlers, cursor_x, cursor_y, mouse, inputs, stopped>>

Event == Head(keyboard)
Pressed(shortcut, code) == global_shortcut = shortcut /\ Event = Key(code, 1)

\* Alt+T spawns a terminal and its shell.  Of the seven certificates this
\* takes, the first and the fifth are granted, and are the window server's.
SpawnTerminal ==
  /\ Pressed("Alt", "t")
  /\ IF allocated + 7 > SLOTS
       THEN Stop("slots")
       ELSE /\ clients' = Started(TRUE, allocated)
            /\ shell_caps' = shell_caps \cup {allocated + 4}
            /\ allocated' = allocated + 7
            /\ new_handlers' = new_handlers \cup
                 {[index |-> i, object |-> "windowing"] : i \in {allocated, allocated + 4}}
            /\ Observed(windows, None, "NotStarted")

CloseWindow ==
  /\ Pressed("Alt", "q")
  /\ IF active_window = None
       THEN Observed(windows, None, "Alt")
       ELSE IF ~FillInBounds(windows[active_window])
         THEN Stop("bounds")
         ELSE Observed([windows EXCEPT ![active_window].status = "closed"], None, "Alt")
  /\ UNCHANGED <<allocated, new_handlers, clients, shell_caps>>

Shutdown == Pressed("Alt", "esc") /\ Stop("shutdown")

\* Where the other events leave the shortcut.
NextShortcut ==
  IF global_shortcut = "NotStarted"
    THEN IF Event = Key("alt", 1) THEN "Alt" ELSE "NotStarted"
    ELSE IF Event.value = 1 \/ Event = Key("alt", 0) THEN "NotStarted" ELSE "Alt"

OtherEvent ==
  /\ ~(global_shortcut = "Alt" /\ Event \in {Key("t", 1), Key("q", 1), Key("esc", 1)})
  /\ Observed(windows, active_window, NextShortcut)
  /\ UNCHANGED <<allocated, new_handlers, clients, shell_caps>>

ObserveKeyboard ==
  /\ stopped = "no" /\ pc = "keyboard" /\ keyboard # <<>>
  /\ SpawnTerminal \/ CloseWindow \/ Shutdown \/ OtherEvent

KeyboardDone ==
  /\ stopped = "no" /\ pc = "keyboard" /\ keyboard = <<>>
  /\ pc' = "mouse"
  /\ UNCHANGED <<requests, dispatch, screen, global_shortcut, devices, clients, shell_caps, stopped>>

-----------------------------------------------------------------------------
(* Mouse input. *)

Contains(w) ==
  /\ w.x <= cursor_x /\ cursor_x < w.x + w.width
  /\ w.y <= cursor_y /\ cursor_y < w.y + w.height

MutantHitsClosed == {id \in 1 .. Len(windows) : Contains(windows[id])}

\* The open windows under the cursor; the last of them becomes active.
Hit == {id \in 1 .. Len(windows) : Contains(windows[id]) /\ windows[id].status = "open"}

Clicked == IF Hit = {} THEN active_window ELSE CHOOSE id \in Hit : \A other \in Hit : other <= id

from_abs(value, res) == (value * res) \div ABS_MAX

\* EV_SYN, which moves the picture of the cursor (module Drivers), is left out.
ObserveMouse ==
  /\ stopped = "no" /\ pc = "mouse" /\ mouse # <<>>
  /\ LET event == Head(mouse)
     IN  /\ active_window' = IF event.code = "btn_left" THEN Clicked ELSE active_window
         /\ cursor_x' = CASE event.code = "rel_x" -> Clamp(cursor_x + event.value, WIDTH)
                          [] event.code = "abs_x" -> from_abs(event.value, WIDTH)
                          [] OTHER -> cursor_x
         /\ cursor_y' = CASE event.code = "rel_y" -> Clamp(cursor_y + event.value, HEIGHT)
                          [] event.code = "abs_y" -> from_abs(event.value, HEIGHT)
                          [] OTHER -> cursor_y
  /\ mouse' = Tail(mouse)
  /\ UNCHANGED <<pc, requests, dispatch, windows, global_shortcut, keyboard, inputs, clients,
                 shell_caps, stopped>>

MutantInstallsNone ==
  /\ stopped = "no" /\ pc = "mouse" /\ mouse = <<>>
  /\ pc' = "calls"
  /\ handlers' = Installed({}, allocated)
  /\ new_handlers' = {}
  /\ UNCHANGED <<requests, allocated, screen, global_shortcut, devices, clients, shell_caps, stopped>>

MutantOnlyObserves ==
  /\ stopped = "no" /\ pc = "mouse" /\ mouse = <<>>
  /\ pc' = "keyboard"
  /\ handlers' = Installed(new_handlers, allocated)
  /\ new_handlers' = {}
  /\ UNCHANGED <<requests, allocated, screen, global_shortcut, devices, clients, shell_caps, stopped>>

\* The end of run_observables(), and the loop begins again.
MouseDone ==
  /\ stopped = "no" /\ pc = "mouse" /\ mouse = <<>>
  /\ pc' = "calls"
  /\ handlers' = Installed(new_handlers, allocated)
  /\ new_handlers' = {}
  /\ UNCHANGED <<requests, allocated, screen, global_shortcut, devices, clients, shell_caps, stopped>>

-----------------------------------------------------------------------------
(* The user, the shells and the clients. *)

\* A device puts in a whole sequence: an event and its end, left out for the
\* mouse.
Input ==
  /\ stopped = "no" /\ inputs < MAX_INPUT
  /\ inputs' = inputs + 1
  /\ \/ /\ \E e \in KeyEvents : Len(keyboard) < MAX_PENDING /\ keyboard' = keyboard \o <<e, SYN>>
        /\ UNCHANGED mouse
     \/ /\ \E e \in MouseEvents : Len(mouse) < MAX_PENDING /\ mouse' = Append(mouse, e)
        /\ UNCHANGED keyboard
  /\ UNCHANGED <<pc, requests, dispatch, screen, global_shortcut, clients, shell_caps, stopped>>

\* A shell forwards its capability to an image viewer it starts.
SpawnViewer ==
  /\ \E cap \in shell_caps : clients' = Started(FALSE, cap)
  /\ UNCHANGED <<pc, requests, dispatch, screen, global_shortcut, devices, shell_caps, stopped>>

\* The next call of a client: main() of terminal.rs and of image_viewer.rs.
Call(c) ==
  /\ clients[c].stage \notin {"unborn", "idle"} /\ ~clients[c].waiting
  /\ \E size \in IF clients[c].stage = "create" THEN Sizes ELSE {None} :
       requests' = Append(requests, [client |-> c, index |-> clients[c].cap,
                                     method |-> clients[c].stage, size |-> size])
  /\ clients' = [clients EXCEPT ![c].waiting = TRUE]
  /\ UNCHANGED <<pc, dispatch, screen, global_shortcut, devices, shell_caps, stopped>>

\* A terminal polls its ring.
ReadEvent(c) ==
  /\ clients[c].terminal /\ clients[c].stage = "draw" /\ ~clients[c].waiting
  /\ windows[clients[c].window].ring > 0
  /\ windows' = [windows EXCEPT ![clients[c].window].ring = @ - 1]
  /\ UNCHANGED <<pc, requests, dispatch, active_window, cursor_x, cursor_y, global_shortcut,
                 devices, clients, shell_caps, stopped>>

Server == RunCall \/ CallsDone \/ ObserveKeyboard \/ KeyboardDone \/ ObserveMouse \/ MouseDone

Next ==
  \/ Server
  \/ Input \/ SpawnViewer
  \/ \E c \in Client : Call(c) \/ ReadEvent(c)

\* The kernel lets the server run again and again.
Spec == Init /\ [][Next]_vars /\ WF_vars(Server)

-----------------------------------------------------------------------------
(* Properties. *)

\* The state has its shape, and every handler its certificate.
TypeOK ==
  /\ pc \in {"calls", "keyboard", "mouse"}
  /\ allocated \in 1 .. SLOTS /\ DOMAIN handlers \subseteq 0 .. allocated - 1
  /\ active_window \in {None} \cup 1 .. Len(windows)
  /\ \A id \in 1 .. Len(windows) :
       windows[id].status \in {"open", "closed"} /\ windows[id].ring \in {None} \cup 0 .. EVENT_RING
  /\ cursor_x \in 0 .. WIDTH /\ cursor_y \in 0 .. HEIGHT
  /\ global_shortcut \in {"NotStarted", "Alt"}
  /\ stopped \in {"no", "shutdown", "unhandled", "slots", "memory", "bounds", "ring"}

\* While calls are answered, the capability a client got for its window leads
\* to that window and to no other client's.
WindowsOwn ==
  \A c \in Client :
    pc = "calls" /\ clients[c].window # None => handlers[clients[c].cap] = clients[c].window

\* No call meets a certificate without a handler, or the handler of another
\* window, though capabilities are given away in the middle of observe() and
\* handlers installed at its end.
CallsHandled == TypeOK /\ stopped # "unhandled" /\ WindowsOwn

\* Wherever the cursor was when a window was created, drawing and clearing it
\* stay on the display.
DrawsInBounds == stopped # "bounds"

\* A window that was closed gets no event and is not made active again.
ClosedWindowsQuiet ==
  [][\A id \in 1 .. Len(windows) :
       windows[id].status = "closed" =>
         /\ windows'[id].status = "closed" /\ active_window' # id
         /\ windows'[id].ring # None /\ windows[id].ring # None
              => windows'[id].ring <= windows[id].ring]_vars

\* Every call is answered, unless the server stops.
CallsAnswered == \A c \in Client : clients[c].waiting ~> ~clients[c].waiting \/ stopped # "no"

=============================================================================
