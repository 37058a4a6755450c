---------------------------- MODULE MCVirtioInput ---------------------------
(***************************************************************************)
(* A small input device for TLC: two buffers, and a ring of three cells,   *)
(* which is not a multiple of the number of buffers.                       *)
(***************************************************************************)
EXTENDS VirtioInput

MCValue == {"press", "release"}

=============================================================================
