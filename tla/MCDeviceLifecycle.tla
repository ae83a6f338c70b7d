------------------------- MODULE MCDeviceLifecycle -------------------------
(***************************************************************************)
(* DeviceLifecycle with a pair, and a second device for side A.            *)
(***************************************************************************)
EXTENDS DeviceLifecycle

CONSTANTS a1, a2, b1

Sides == [d \in Device |-> IF d = b1 THEN "B" ELSE "A"]
=============================================================================
