SPECIFICATION FairSpec
CONSTANTS
  SubPolls = 2
  MainRuns = TRUE
  MaxPackets = 3
  MaxBatch = 2
INVARIANTS
  TypeOK
  PortOutlivesSubPolls
PROPERTIES
  CompletionsHandled
  MainEnds
CHECK_DEADLOCK FALSE
