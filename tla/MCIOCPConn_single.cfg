SPECIFICATION FairSpec
CONSTANTS
  p1 = p1
  p2 = p2
  app = app
  timer = timer
  Pollers = {p1}
  AppThreads = {p1}
  TimerThreads = {}
  MaxConnects = 1
  MaxSends = 3
  MaxReceives = 3
  CloseTimeout = FALSE
  NetFails = TRUE
  Accepted = TRUE
INVARIANTS
  Defined
  WaitsForPendingIo
  CauseReported
PROPERTIES
  KeepsContract
  CleanupEnds
CHECK_DEADLOCK FALSE
