SPECIFICATION FairSpec
CONSTANTS
  t1 = t1
  t2 = t2
  Tabs = {t1, t2}
  None = None
  TokenLife = 1
  SessionLife = 2
  MaxTime = 1
  MaxAsked = 1
INVARIANTS
  TypeOK
  SessionKeepsToken
PROPERTIES
  LogoutReaches
CHECK_DEADLOCK FALSE
