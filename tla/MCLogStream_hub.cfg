SPECIFICATION Spec
CONSTANTS
  h1 = h1
  h2 = h2
  Conns = {h1, h2}
  None = None
  MaxLines = 2
  Threshold = 2
  ChanCap = 1
  WireCap = 1
  CheckEvery = 2
  MaxRetries = 1
  MaxFaults = 1
  MaxCrashes = 1
SYMMETRY Symmetry
INVARIANTS
  TypeOK
  NoSendOnClosed
CHECK_DEADLOCK FALSE
