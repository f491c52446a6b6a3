CONSTANTS
  MaxStream = 2
  MaxData = 1
  Window = 2
SPECIFICATION Spec
CHECK_DEADLOCK FALSE
INVARIANT CloseClosesAllStreams
