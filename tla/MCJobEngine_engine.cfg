SPECIFICATION Spec
CONSTANTS
  j1 = j1
  j2 = j2
  w1 = w1
  w2 = w2
  c1 = c1
  Jobs = {j1, j2}
  Workers = {w1, w2}
  Cancellers = {c1}
  None = None
  Capacity = 1
  MaxCrashes = 1
  MaxSignals = 1
  MaxFaults = 1
SYMMETRY Symmetry
INVARIANTS
  TypeOK
  AtMostOnce
  RegistryExact
  LiveRowsOwned
  RejectedNeverRuns
  CancelledWasAsked
PROPERTIES
  SettledIsFinal
  LifecycleKept
CHECK_DEADLOCK FALSE
