\* A read parked after the write that should have woken it.
CONSTANTS
  Request = {r1, r2}
  Calls <- DataCalls
  Capacity = 2
  None = None
SPECIFICATION Spec
INVARIANT NoStrandedRead
