\* Parked reads and their wake-ups, under fair scheduling of the handlers.
CONSTANTS
  Request = {r1, r2, r3}
  Calls <- WakeCalls
  Capacity = 1
  None = None
SPECIFICATION FairSpec
INVARIANT OneStranded
PROPERTIES HandlersReturn WakeReaches WakeShrinks
