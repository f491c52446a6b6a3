CONSTANTS
  Names = {a}
  Clients = {c1}
  Manages = {m1, m2}
  MaxTick = 0
  None = None
SPECIFICATION FairSpec
CHECK_DEADLOCK FALSE
PROPERTIES
  LinkedIsAnswered
  BrokenPairIsCleared
