SPECIFICATION FairSpec
CONSTANTS
  a = a
  Jobs = {a}
  None = None
  Retries = 1
  MaxWrites = 3
  MaxFaults = 1
INVARIANTS
  TypeOK
  FreshAfterCancel
PROPERTIES
  NeverBack
  EndShown
  PanelGoes
  CreatedListed
CHECK_DEADLOCK FALSE
