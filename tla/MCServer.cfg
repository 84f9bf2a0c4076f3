SPECIFICATION FairSpec
CONSTANTS
  Users <- MCUsers
  Pollers <- OnePoll
  App = "app"
  Timer = "timer"
  AcceptN = 1
  Address = "IPv4"
  Stack = "IPv4Only"
  Handles <- MCHandles
  MaxClients = 2
  MaxFailures = 0
  MaxConnections = 2
  UserOps = {"close"}
INVARIANTS
  ServerTypeOK
  TableHoldsLiving
  FewLeftOpen
PROPERTIES
  WaitEnds
CHECK_DEADLOCK FALSE
