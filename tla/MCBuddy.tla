------------------------------- MODULE MCBuddy ------------------------------
(***************************************************************************)
(* A small heap for TLC.                                                   *)
(***************************************************************************)
EXTENDS Buddy

MCReservable == {[start |-> 3, end |-> 5], [start |-> 8, end |-> 10], [start |-> 0, end |-> 4]}

=============================================================================
