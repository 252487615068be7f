SPECIFICATION Spec
CONSTANTS
  Base = 4
  MTU = 5
  Capacity = 9
  PipeBuf = 4
  Count = 3
INVARIANTS
  FramesIntact
  ErrorNeedsSplit
PROPERTIES
  PacketsArrive
CHECK_DEADLOCK FALSE
