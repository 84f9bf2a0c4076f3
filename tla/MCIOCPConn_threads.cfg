SPECIFICATION Spec
CONSTANTS
  p1 = p1
  p2 = p2
  app = app
  timer = timer
  Pollers = {p1, p2}
  AppThreads = {p1, p2}
  TimerThreads = {}
  MaxConnects = 1
  MaxSends = 2
  MaxReceives = 2
  CloseTimeout = FALSE
  NetFails = TRUE
  Accepted = TRUE
INVARIANTS
  TypeOK
  OneReadOneWrite
PROPERTIES
  DeliversSerially
  ImplementsSendPath
CHECK_DEADLOCK FALSE
