----------------------------- MODULE MCDevNodes -----------------------------
(***************************************************************************)
(* DevNodes with room for two ports, of one side or of both, and the port  *)
(* of someone else between them.                                           *)
(***************************************************************************)
EXTENDS DevNodes, TLC

CONSTANTS p1, p2

Swapped == Permutations(Elevated)
=============================================================================
