SPECIFICATION Spec
CONSTANTS
  MaxStops = 3
INVARIANTS
  ReadyWhenAnswered
  StopFindsListeners
  StopSafeOnceUp
PROPERTIES
  StartAnswered
  StopEnds
CHECK_DEADLOCK FALSE
