CONSTANTS
  Readers = {r1}
  Writers = {w1, w2}
  MaxLen = 2
  MaxChan = 1
  None = None
  Setters = {g1, g2}
  MaxCancel = 3
  MaxTimer = 3
  NoSetter = NoSetter
SPECIFICATION MCFairSpec
CHECK_DEADLOCK FALSE
INVARIANTS
  DeliveredInOrder
  ReportedIsDelivered
  AnswerIsOwed
  NeverClosedTwice
PROPERTIES
  CloseReleasesEveryone
  SetReturns
  ImplementsDeadline
