----------------------------- MODULE MCDrivers -----------------------------
(***************************************************************************)
(* A machine with a drive and one with a display, for TLC.                 *)
(***************************************************************************)
EXTENDS Drivers

OneDevice == {{"drive"}, {"display"}}

=============================================================================
