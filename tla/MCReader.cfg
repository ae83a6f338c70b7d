\* Scanners that come and go, failed starts, kills, restarts and shutdowns.
CONSTANTS
  N = 3
  d1 = d1
  d2 = d2
  Device = {d1, d2}
  Matches <- AnyExternal
  NoOutput = {3}
  None = None
SPECIFICATION FairSpec
INVARIANTS Reachable IdleGrab CleanStop
PROPERTY SomeReader
