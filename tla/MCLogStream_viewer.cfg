SPECIFICATION WriterSpec
CONSTANTS
  h1 = h1
  Conns = {h1}
  None = None
  MaxLines = 4
  Threshold = 2
  ChanCap = 2
  WireCap = 1
  CheckEvery = 2
  MaxRetries = 1
  MaxFaults = 1
  MaxCrashes = 1
INVARIANTS
  InOrder
  OnlyKnownGaps
  TerminalReplayComplete
PROPERTIES
  NeverBlocked
  TerminalStreamEnds
CHECK_DEADLOCK FALSE
