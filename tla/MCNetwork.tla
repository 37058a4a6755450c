----------------------------- MODULE MCNetwork -----------------------------
(***************************************************************************)
(* A small network card for TLC.                                           *)
(***************************************************************************)
EXTENDS Network

=============================================================================
