\* Every build, and purges from both sides.
CONSTANTS
  Size = 3
  MaxReq = 3
  MaxOffered = 4
  MaxDelivered = 4
  Purge = TRUE
  OrderedReads = FALSE
VIEW View
SPECIFICATION Spec
INVARIANTS TypeOK InBounds Fifo Disjoint
PROPERTIES PipeSpec CountSpec
