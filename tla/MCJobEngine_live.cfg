SPECIFICATION FairSpec
CONSTANTS
  j1 = j1
  j2 = j2
  w1 = w1
  c1 = c1
  Jobs = {j1, j2}
  Workers = {w1}
  Cancellers = {c1}
  None = None
  Capacity = 2
  MaxCrashes = 1
  MaxSignals = 1
  MaxFaults = 0
INVARIANTS
  ConcurrentJobsBounded
PROPERTIES
  EventuallySettled
CHECK_DEADLOCK FALSE
