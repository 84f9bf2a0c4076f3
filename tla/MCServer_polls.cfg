SPECIFICATION Spec
CONSTANTS
  Users <- MCUsers
  Pollers <- TwoPolls
  App = "app"
  Timer = "timer"
  AcceptN = 2
  Address = "IPv4"
  Stack = "IPv4Only"
  Handles <- MCHandles
  MaxClients = 3
  MaxFailures = 0
  MaxConnections = 1
  UserOps = {"close", "shutdown", "others"}
INVARIANTS
  LimitKept
  
CONSTRAINT
  Running
CHECK_DEADLOCK FALSE
