SPECIFICATION Spec
CONSTANTS
  None = None
  d1 = d1
  d2 = d2
  Dirs = {d1, d2}
  CfgDir = d1
  p1 = p1
  p2 = p2
  Passwords = {p1, p2}
  MaxRuns = 4
  MaxPolls = 2
SYMMETRY Symmetry
INVARIANTS
  TypeOK
  ReadyMeansUsable
PROPERTIES
  StartedGetsPort
  SecretsPreserved
  NeverStartedUnconfigured
CHECK_DEADLOCK FALSE
