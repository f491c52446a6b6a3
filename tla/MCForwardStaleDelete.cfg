CONSTANTS
  Names = {a}
  Clients = {c1}
  Manages = {m1, m2}
  MaxTick = 1
  None = None
SPECIFICATION Spec
CHECK_DEADLOCK FALSE
INVARIANT RefusedMeansNotRunning
