SPECIFICATION Spec
CONSTANTS
  Fds = {f1, f2}
  Timers = {t1, t2}
  Limit = 1
  Delays = {0, 1}
  Horizon = 1
  MaxOpens = 2
INVARIANTS
  ActiveWhenDispatched
CHECK_DEADLOCK FALSE
