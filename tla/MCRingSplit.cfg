\* No purge and loads in order, but the two stores of Tail apart.
CONSTANTS
  Size = 3
  MaxReq = 3
  MaxOffered = 7
  MaxDelivered = 8
  Purge = FALSE
  OrderedReads = TRUE
SPECIFICATION Spec
INVARIANT InOrderOnce
