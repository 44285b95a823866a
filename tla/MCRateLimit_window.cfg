SPECIFICATION Spec
CONSTANTS
  r1 = r1
  r2 = r2
  Requests = {r1, r2}
  Limit = 2
  Window = 3
  MaxTime = 9
SYMMETRY Symmetry
INVARIANTS
  SlidingBound
PROPERTIES
  RefusedOnlyAtLimit
CHECK_DEADLOCK FALSE
