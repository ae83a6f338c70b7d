--------------------------- MODULE MCLineControl ---------------------------
(***************************************************************************)
(* PortSettings with every field of the line settings one step beyond its  *)
(* range on both sides, and the other settings at both ends of theirs.     *)
(***************************************************************************)
EXTENDS PortSettings

Requests == [word : 4..9, stop : 0..3, parity : 0..5]
ULongs == {0, 2147483647}
=============================================================================
