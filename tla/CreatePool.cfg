CONSTANTS
  MaxAttempts = 5
  MaxFaults = 2
SPECIFICATION Spec
INVARIANTS
  PoolsOwnTheirParts
  NoSecondPool
  OkMeansCreated
PROPERTIES
  CreationCompletes
CHECK_DEADLOCK FALSE
