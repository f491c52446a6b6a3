CONSTANTS
  MaxStream = 2
  MaxData = 1
  Window = 1
SPECIFICATION FairSpec
CHECK_DEADLOCK FALSE
INVARIANTS
  NoAlert
PROPERTIES
  FinComesAfterData
  ServerCloseReachesClient
  ClosedSessionStops
