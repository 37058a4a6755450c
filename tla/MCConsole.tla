----------------------------- MODULE MCConsole -----------------------------
(***************************************************************************)
(* A small terminal for TLC: two lines of three characters.                *)
(***************************************************************************)
EXTENDS Console

=============================================================================
