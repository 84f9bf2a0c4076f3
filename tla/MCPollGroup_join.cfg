SPECIFICATION FairSpec
CONSTANTS
  SubPolls = 1
  MainRuns = TRUE
  MaxPackets = 1
  MaxBatch = 2
PROPERTIES
  SubPollsJoined
CHECK_DEADLOCK FALSE
