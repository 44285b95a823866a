SPECIFICATION Spec
CONSTANTS
  j1 = j1
  w1 = w1
  c1 = c1
  Jobs = {j1}
  Workers = {w1}
  Cancellers = {c1}
  None = None
  Capacity = 1
  MaxCrashes = 0
  MaxSignals = 0
  MaxFaults = 0
INVARIANTS
  AckedCancelHolds
CHECK_DEADLOCK FALSE
