----------------------------- MODULE MCPortPair -----------------------------
(***************************************************************************)
(* PortPair on small instances.                                            *)
(***************************************************************************)
EXTENDS PortPair, TLC

Ask(op, len, flags) == [op |-> op, len |-> len, flags |-> flags]

\* Every operation, a purge with each clear on its own.
AllCalls ==
  {Ask("write", 2, {}), Ask("read", 1, {}), Ask("status", 0, {}),
   Ask("wait", 0, {}), Ask("setmask", 0, {}), Ask("purge", 0, {"RXABORT"}),
   Ask("purge", 0, {"TXCLEAR"}), Ask("purge", 0, {"RXCLEAR", "RXABORT"})}

\* What parks a read, what wakes it, what empties the ring meanwhile.
WakeCalls == {Ask("write", 1, {}), Ask("read", 1, {}), Ask("setmask", 0, {}),
              Ask("purge", 0, {"RXCLEAR", "RXABORT"})}

DataCalls == {Ask("write", 1, {}), Ask("read", 1, {})}

Symmetry == Permutations(Request)
=============================================================================
