SPECIFICATION FairSpec
CONSTANTS
  Server = server
  Tools = {t1, t2}
  None = none
  Releases = {2, 3}
  MaxRuns = 3
  MaxCrashes = 2
INVARIANTS
  TypeOK
  RecordedIffApplied
  InOrderOnce
  ReadyMeansMigrated
PROPERTY
  ServerStarts
CHECK_DEADLOCK FALSE
