SPECIFICATION FairAcceptorSpec
CONSTANTS
  Users <- MCUsers
  Pollers <- MCPollers
  App = "app"
  AcceptN = 2
  Address = "IPv6"
  Stack = "DualStack"
  Handles <- MCHandles
  MaxClients = 1
  MaxFailures = 2
INVARIANTS
  ChannelOutlivesAccepts
  AcceptsCounted
  SlotsKept
  PoolExclusive
  OnlyFailedAcceptsLeak
  FunctionsHeld
PROPERTIES
  ClientsServed
CHECK_DEADLOCK FALSE
