CONSTANTS
  w1 = w1
  w2 = w2
  Workers = {w1, w2}
  K = 2
  Retries = 1
  MaxTasks = 4
  MaxFaults = 3
SPECIFICATION PoolFairSpec
CHECK_DEADLOCK FALSE
INVARIANTS
  EveryContainerOwned
  ShutdownLeavesNothing
PROPERTIES
  RefilledUnlessMissed
  ShutdownReturnsUnlessMissed
