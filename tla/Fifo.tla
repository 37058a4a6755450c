-------------------------------- MODULE Fifo --------------------------------
(***************************************************************************)
(* What a stream promises its reader: the values that went in come out,    *)
(* once each and in order.                                                 *)
(***************************************************************************)
EXTENDS Sequences

CONSTANTS Value, Default

VARIABLES
  queue,  \* the values on their way
  out     \* the value delivered last

Init == queue = <<>> /\ out = Default

Enqueue(value) ==
  /\ queue' = Append(queue, value)
  /\ UNCHANGED out

Dequeue ==
  /\ queue # <<>>
  /\ out' = Head(queue)
  /\ queue' = Tail(queue)

Next == Dequeue \/ \E value \in Value : Enqueue(value)

Spec == Init /\ [][Next]_<<queue, out>>

=============================================================================
