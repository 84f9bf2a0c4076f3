SPECIFICATION FairSpec
CONSTANTS
  c1 = c1
  c2 = c2
  Callers = {c1, c2}
  MaxTimers = 1
  Delays = {1, 2}
  MaxTime = 3
PROPERTIES
  ShutdownReturns
CHECK_DEADLOCK FALSE
