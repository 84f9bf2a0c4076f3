SPECIFICATION FairSpec
CONSTANTS
  c1 = c1
  c2 = c2
  Callers = {c1, c2}
  MaxTimers = 3
  Delays = {1, 2}
  MaxTime = 2
INVARIANTS
  TypeOK
  NeverOversleeps
PROPERTIES
  ImplementsTimers
  DueTimersRun
CHECK_DEADLOCK FALSE
