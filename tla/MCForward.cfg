CONSTANTS
  Names = {a}
  Clients = {c1, c2}
  Manages = {m1, m2}
  MaxTick = 1
  None = None
SPECIFICATION Spec
SYMMETRY Symmetry
CHECK_DEADLOCK FALSE
INVARIANTS
  RelayJoinsClientWithItsAgent
  ParkedMeansPartnerComing
