\* A handler uses a peer whose QueueCreate has not finished.
CONSTANTS
  a1 = a1
  a2 = a2
  b1 = b1
  Device = {a1, b1}
  HwSide <- Sides
  None = None
  Refused = {}
  MayDelete = FALSE
SPECIFICATION Spec
INVARIANT AccessReady
