SPECIFICATION FairSpec
CONSTANTS
  p1 = p1
  p2 = p2
  app = app
  timer = timer
  Pollers = {p1}
  AppThreads = {p1}
  TimerThreads = {timer}
  MaxConnects = 1
  MaxSends = 2
  MaxReceives = 2
  CloseTimeout = TRUE
  NetFails = TRUE
  Accepted = TRUE
INVARIANTS
  IoCounted
  BufferOutlivesWrite
PROPERTIES
  ShutdownEnds
CHECK_DEADLOCK FALSE
