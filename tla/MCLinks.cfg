CONSTANTS
  c1 = c1
  c2 = c2
  Clients = {c1, c2}
  QueueCap = 1
  MaxRequests = 2
  MaxSend = 2
  Room = 1
  Callers = {k1, k2}
  MaxSession = 2
  MaxStream = 4
  Limit = 1
  StreamBound = 2
  MaxMsg <- MCMaxMsg
SPECIFICATION MCSpec
CHECK_DEADLOCK FALSE
INVARIANTS
  OneOwner
  LimitOvershootIsBounded
  OnlyPayloads
PROPERTIES
  LeftIsClosed
  ClosedAfterTheLastWrite
  OneEndEndsBoth
  SpokenIsHeard
