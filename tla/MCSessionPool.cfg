CONSTANTS
  Callers = {c1, c2}
  MaxSession = 2
  MinIdle = 1
SPECIFICATION FairSpec
CHECK_DEADLOCK FALSE
INVARIANTS
  ExclusiveSession
  StreamsDieWithTheirSession
PROPERTIES
  CloseReachesEverySession
