\* A pair and a duplicate come, fail and go beside each other's handlers.
CONSTANTS
  a1 = a1
  a2 = a2
  b1 = b1
  Device = {a1, a2, b1}
  HwSide <- Sides
  None = None
  Refused = {a2}
  MayDelete = FALSE
SPECIFICATION FairSpec
INVARIANTS Table PeerMemory Listed
PROPERTIES SlotFreed TableSpec
