------------------------------ MODULE MCArena ------------------------------
(* The arena for TLC: words of two bytes, a default region of four words,  *)
(* and requests of nothing, one byte, a region's worth and more than that. *)
EXTENDS Arena

MCSizes == {0, 1, 4, 7, 12}
=============================================================================
