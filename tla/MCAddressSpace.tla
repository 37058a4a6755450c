---------------------------- MODULE MCAddressSpace --------------------------
(***************************************************************************)
(* Small address spaces for TLC.  Processes and frames are interchangeable.*)
(***************************************************************************)
EXTENDS AddressSpace, TLC

Symmetry == Permutations(Process) \cup Permutations(Frame)

=============================================================================
