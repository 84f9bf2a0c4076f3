SPECIFICATION FairSpec
CONSTANTS
  p1 = p1
  p2 = p2
  app = app
  Threads <- MCThreads
  Pollers <- MCPollers
  MaxSends = 4
INVARIANTS
  NoStrandedMessage
PROPERTIES
  ImplementsOrderedSender
  EveryMessageGoesOut
CHECK_DEADLOCK FALSE
