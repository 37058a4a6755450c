---------------------------- MODULE MCPageTable ----------------------------
(***************************************************************************)
(* Small page tables for TLC.                                              *)
(***************************************************************************)
EXTENDS PageTable

=============================================================================
