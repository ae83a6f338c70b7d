\* Every operation of both ports, purges, attach and detach.
CONSTANTS
  Request = {r1, r2, r3}
  Calls <- AllCalls
  Capacity = 2
  None = None
SPECIFICATION Spec
SYMMETRY Symmetry
INVARIANTS TypeOK OnePlace OneWaiter PeerAlive StatusHolds
PROPERTIES RingSpec TableSpec OwedSpec
