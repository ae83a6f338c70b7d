\* Installs, reinstalls, removals and overlapping reconnects, with failures and kills.
CONSTANTS
  Instance = {1, 2, 3}
  Foreign = {2}
  p1 = p1
  p2 = p2
  Elevated = {p1, p2}
  None = None
SPECIFICATION Spec
INVARIANTS Paired Repaired Gone
SYMMETRY Swapped
