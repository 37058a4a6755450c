----------------------------- MODULE RingBuffer -----------------------------
(***************************************************************************)
(* RingBuffer (types/src/ring_buffer.rs): one writer, one reader, two      *)
(* counters that only grow.                                                *)
(*                                                                         *)
(* The reader is a program.  It can be interrupted between any two of its  *)
(* memory accesses, and the interrupt handler may push to the same ring,   *)
(* so poll() is one action per access to shared memory.  Nothing the       *)
(* reader does can happen inside push(), which is therefore one action.    *)
(***************************************************************************)
EXTENDS Naturals, Sequences

CONSTANTS
  Value,         \* the elements programs and devices put in the ring
  Default,       \* T::default(), what a fresh ring is filled with
  RING_LENGTH    \* data.0.len()

ASSUME RingAssumption == RING_LENGTH \in Nat \ {0}

VARIABLES
  read,      \* number of elements read
  written,   \* number of elements written
  data,      \* the cells
  poll,      \* the reader's place in poll(), and its local variables
  received   \* what poll() last returned, apart from None

ringVars == <<read, written, data, poll, received>>

RingInit ==
  /\ read = 0
  /\ written = 0
  /\ data = [i \in 0 .. RING_LENGTH - 1 |-> Default]
  /\ poll = [pc |-> "start", read |-> 0, element |-> Default]
  /\ received = Default

-----------------------------------------------------------------------------

\* The assertion of push().  (Mutant: a full ring is taken for one with room.)
room_for_one_too_many == written <= read + RING_LENGTH
has_room == written < read + RING_LENGTH

push(value) ==
  /\ has_room
  /\ data' = [data EXCEPT ![written % RING_LENGTH] = value]
  /\ written' = written + 1
  /\ UNCHANGED <<read, poll, received>>

\* poll(): load the counters and return None when nothing is there ...
poll_load ==
  /\ poll.pc = "start"
  /\ IF written <= read
     THEN UNCHANGED poll
     ELSE poll' = [poll EXCEPT !.pc = "copy", !.read = read]
  /\ UNCHANGED <<read, written, data, received>>

\* ... copy the element ...
poll_copy ==
  /\ poll.pc = "copy"
  /\ poll' = [poll EXCEPT !.pc = "advance", !.element = data[poll.read % RING_LENGTH]]
  /\ UNCHANGED <<read, written, data, received>>

\* ... and hand its cell back.
poll_advance ==
  /\ poll.pc = "advance"
  /\ read' = poll.read + 1
  /\ received' = poll.element
  /\ poll' = [poll EXCEPT !.pc = "start"]
  /\ UNCHANGED <<written, data>>

Poll == poll_load \/ poll_copy \/ poll_advance

-----------------------------------------------------------------------------

RingTypeOK ==
  /\ read \in Nat
  /\ written \in Nat
  /\ data \in [0 .. RING_LENGTH - 1 -> Value \cup {Default}]
  /\ poll \in [pc : {"start", "copy", "advance"}, read : Nat, element : Value \cup {Default}]
  /\ received \in Value \cup {Default}

\* The elements that were pushed and not yet read.
Contents ==
  [i \in 1 .. written - read |-> data[(read + i - 1) % RING_LENGTH]]

=============================================================================
