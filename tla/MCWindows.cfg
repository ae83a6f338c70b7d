\* Three scans, event buffer and queue that fill up, start, failures and stop.
CONSTANTS
  Letter = {"a"}
  Symbol = {"1"}
  Keypad = {}
  Silent = {}
  Blank = {}
  ShiftKey = {"lshift", "rshift"}
  CapsLock = "caps"
  Terminator = {"enter"}
  RespectCaps = TRUE
  Prefix <- One
  Suffix <- Nothing
  MaxLength = 2
  None = None
  Scans <- ThreeScans
  Backlog = 1
  SinkSize = 2
  Sentinel = Sentinel
SPECIFICATION FairSpec
INVARIANTS Faithful Confined InOrder Drained
PROPERTIES StopEnds Handled
CHECK_DEADLOCK FALSE
