CONSTANTS
  Streams = {1, 3}
  Short = {1}
  MaxData = 2
  MaxSpoken = 2
  SynLimit = 2
  None = None
  Connectors = {c1, c2}
  Agents = {a1, a2}
  Manages = {g1}
  MaxTick = 1
  NoOne = NoOne
  MaxMsg = 4
SPECIFICATION FairSpec
CHECK_DEADLOCK FALSE
INVARIANTS
  StreamsStayApart
  ClientHearsRemote
  WaitingFirstIsFindable
  PipedInOrder
PROPERTIES
  RemoteEndIsTold
  LockIsPassedOn
