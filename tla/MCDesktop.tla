----------------------------- MODULE MCDesktop -----------------------------
(***************************************************************************)
(* A small desktop for TLC: windows narrower and higher than the display.  *)
(***************************************************************************)
EXTENDS Desktop

OneSize == {<<1, 3>>}

SomeMoves == {Key("btn_left", 1), Key("rel_x", -1), Key("abs_y", ABS_MAX)}

=============================================================================
