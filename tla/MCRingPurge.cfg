\* Resets of either side beside the other side's call.
CONSTANTS
  Size = 3
  MaxReq = 3
  MaxOffered = 7
  MaxDelivered = 8
  Purge = TRUE
  OrderedReads = TRUE
SPECIFICATION Spec
INVARIANT InOrderOnce
