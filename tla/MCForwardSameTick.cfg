CONSTANTS
  Names = {a}
  Clients = {c1, c2}
  Manages = {m1}
  MaxTick = 1
  None = None
SPECIFICATION Spec
CHECK_DEADLOCK FALSE
INVARIANT ActiveGoesThroughPassive
