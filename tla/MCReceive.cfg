SPECIFICATION Spec
CONSTANTS
  InitialCapacity = 2
  ShrinkIdle = 4
  MaxBytes = 12
  MaxPending = 8
INVARIANTS
  TypeOK
  StreamKept
  RecvTargetsFreeEnd
PROPERTIES
  CapacityFollowsUse
CHECK_DEADLOCK FALSE
