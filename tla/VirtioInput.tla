----------------------------- MODULE VirtioInput ----------------------------
(***************************************************************************)
(* An input device, its interrupt handler and the program that reads its   *)
(* events (kernel/src/virtio/input.rs, with queue.rs, the interrupt branch *)
(* of on_user_trap_impl in main.rs, plic.rs and interrupt.rs).             *)
(*                                                                         *)
(* The device runs beside the hart: it fills an available buffer, counts   *)
(* it as used, and raises its interrupt, which stays pending until the     *)
(* handler reads the ISR register.  The handler runs to its end before the *)
(* hart goes back to the program; the device may do something between any  *)
(* two of its accesses to memory they share.                               *)
(*                                                                         *)
(* The available ring holds buffer i at position i for ever, and the       *)
(* device uses buffers in the order it gets them.                          *)
(***************************************************************************)
EXTENDS RingBuffer

CONSTANTS
  QUEUE_SIZE,   \* number of event buffers
  INDEX_SIZE    \* number of values of a u16

ASSUME QueueAssumption ==
  /\ QUEUE_SIZE \in Nat \ {0}
  /\ INDEX_SIZE \in Nat /\ INDEX_SIZE > QUEUE_SIZE
  /\ INDEX_SIZE % QUEUE_SIZE = 0

VARIABLES
  buffers,          \* the event buffers
  available_index,  \* eventq.available.index, written by the handler
  used_index,       \* eventq.used.index, written by the device
  isr,              \* whether the ISR register is set and the interrupt pending
  device,           \* what the device is doing: "idle", "filled" or "used"
  handler           \* the handler's place and its local variables

deviceVars == <<buffers, used_index, isr, device>>
vars == <<ringVars, deviceVars, available_index, handler>>

Index == 0 .. INDEX_SIZE - 1
Panicked == handler.pc = "panicked"

\* VirtioInput::new makes every buffer available.
Init ==
  /\ RingInit
  /\ buffers = [i \in 0 .. QUEUE_SIZE - 1 |-> Default]
  /\ available_index = QUEUE_SIZE
  /\ used_index = 0
  /\ isr = FALSE
  /\ device = "idle"
  /\ handler = [pc |-> "user", used_index |-> 0, used_end |-> 0]

-----------------------------------------------------------------------------
(* The device (external).                                                  *)

device_fill(event) ==
  /\ device = "idle" /\ used_index # available_index
  /\ buffers' = [buffers EXCEPT ![used_index % QUEUE_SIZE] = event]
  /\ device' = "filled"
  /\ UNCHANGED <<ringVars, used_index, isr, available_index, handler>>

device_use ==
  /\ device = "filled"
  /\ used_index' = (used_index + 1) % INDEX_SIZE
  /\ device' = "used"
  /\ UNCHANGED <<ringVars, buffers, isr, available_index, handler>>

device_interrupt ==
  /\ device = "used"
  /\ isr' = TRUE
  /\ device' = "idle"
  /\ UNCHANGED <<ringVars, buffers, used_index, available_index, handler>>

-----------------------------------------------------------------------------
(* VirtioInput::handle.                                                    *)

\* The trap is taken in user mode only; the PLIC has the interrupt pending
\* as long as the ISR register is set.
take_interrupt ==
  /\ handler.pc = "user" /\ isr
  /\ handler' = [handler EXCEPT !.pc = "clear"]
  /\ UNCHANGED <<ringVars, deviceVars, available_index>>

panic ==
  /\ handler' = [handler EXCEPT !.pc = "panicked"]
  /\ UNCHANGED <<ringVars, deviceVars, available_index>>

\* Reading the ISR register clears it.  The subtraction is checked.
handle_clear ==
  /\ handler.pc = "clear"
  /\ IF available_index < QUEUE_SIZE
     THEN panic
     ELSE /\ isr' = FALSE
          /\ handler' = [handler EXCEPT !.pc = "load", !.used_index = available_index - QUEUE_SIZE]
          /\ UNCHANGED <<ringVars, buffers, used_index, device, available_index>>

handle_load ==
  /\ handler.pc = "load"
  /\ handler' = [handler EXCEPT !.pc = "loop", !.used_end = used_index]
  /\ UNCHANGED <<ringVars, deviceVars, available_index>>

\* One iteration of the loop; push() panics when the ring is full.
handle_push ==
  /\ handler.pc = "loop" /\ handler.used_index < handler.used_end
  /\ \/ /\ push(buffers[handler.used_index % QUEUE_SIZE])
        /\ handler' = [handler EXCEPT !.used_index = @ + 1]
        /\ UNCHANGED <<deviceVars, available_index>>
     \/ ~has_room /\ panic

\* What becomes of the ISR register at the end of the handler.  (Mutant: it is
\* cleared once more.)
isr_cleared_again == FALSE
isr_at_return == isr

\* Index arithmetic is u16 and checked.
fits_u16(index) == index < INDEX_SIZE

\* The buffers go back to the device, and the hart to the program.
handle_publish ==
  /\ handler.pc = "loop" /\ handler.used_index >= handler.used_end
  /\ IF ~fits_u16(handler.used_end + QUEUE_SIZE)
     THEN panic
     ELSE /\ available_index' = handler.used_end + QUEUE_SIZE
          /\ handler' = [handler EXCEPT !.pc = "user"]
          /\ isr' = isr_at_return
          /\ UNCHANGED <<ringVars, buffers, used_index, device>>

\* The program that reads the ring.
observe ==
  /\ handler.pc = "user"
  /\ Poll
  /\ UNCHANGED <<deviceVars, available_index, handler>>

-----------------------------------------------------------------------------

Device == device_use \/ device_interrupt \/ \E event \in Value : device_fill(event)
Handle == take_interrupt \/ handle_clear \/ handle_load \/ handle_push \/ handle_publish
halted == Panicked /\ UNCHANGED vars

Next == Device \/ Handle \/ observe \/ halted

Spec == Init /\ [][Next]_vars

\* The device finishes what it started, an interrupt is taken and handled to
\* its end, and the program goes on polling.
Fairness ==
  /\ WF_vars(device_use) /\ WF_vars(device_interrupt)
  /\ WF_vars(Handle)
  /\ WF_vars(observe)

FairSpec == Spec /\ Fairness

-----------------------------------------------------------------------------
(* Properties.                                                             *)

TypeOK ==
  /\ RingTypeOK
  /\ buffers \in [0 .. QUEUE_SIZE - 1 -> Value \cup {Default}]
  /\ available_index \in Index
  /\ used_index \in Index
  /\ isr \in BOOLEAN
  /\ device \in {"idle", "filled", "used"}
  /\ handler \in [pc : {"user", "clear", "load", "loop", "panicked"},
                  used_index : Index, used_end : Index]

\* The events the device has used and the handler has not pushed: from where
\* the handler is, or will start.
FirstUnseen ==
  IF handler.pc \in {"user", "clear"} THEN available_index - QUEUE_SIZE ELSE handler.used_index
Unseen ==
  [i \in 1 .. used_index - FirstUnseen |-> buffers[(FirstUnseen + i - 1) % QUEUE_SIZE]]

\* From the device to the program, events arrive once each, in order and
\* untouched: no buffer is read while the device may write it, and no cell of
\* the ring is overwritten before, or while, it is read.
Stream == INSTANCE Fifo WITH queue <- Contents \o Unseen, out <- received
ImplementsFifo == Stream!Spec

\* No interrupt is lost: while a program runs, events the handler has not seen
\* are announced by a pending interrupt, or by one about to be raised; and the
\* indices it goes by are in their range.
UnseenEventsSignalled ==
  /\ TypeOK
  /\ handler.pc = "user" /\ used_index # available_index - QUEUE_SIZE =>
       isr \/ device = "used"

\* Every event the device reports reaches the program, unless the handler
\* stops the kernel because the ring is full or the index overflows.
EventsArrive ==
  \A n \in 1 .. INDEX_SIZE - 1 : used_index >= n ~> (read >= n \/ Panicked)

=============================================================================
