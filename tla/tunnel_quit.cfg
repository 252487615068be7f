SPECIFICATION Spec
CONSTANTS
  MaxStops = 1
PROPERTIES
  TerminateEndsLoop
CHECK_DEADLOCK FALSE
