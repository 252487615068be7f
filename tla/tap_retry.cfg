SPECIFICATION Spec
CONSTANTS
  Base = 4
  MTU = 5
  Capacity = 9
  PipeBuf = 4
  Count = 3
INVARIANT
  RetryLater
CHECK_DEADLOCK FALSE
