--------------------------- MODULE MCLinuxReader ---------------------------
(***************************************************************************)
(* LinuxReader with three readers. The first accepts either scanner, the   *)
(* last has no output for Linux.                                           *)
(***************************************************************************)
EXTENDS LinuxReader

CONSTANTS d1, d2

AnyExternal == <<{d1, d2}, {d2}, {d1}>>
=============================================================================
