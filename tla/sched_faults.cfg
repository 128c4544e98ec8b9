CONSTANTS
  w1 = w1
  w2 = w2
  s1 = s1
  NoTask = NoTask
  Workers = {w1, w2}
  Submissions = {s1}
  MaxQueue = 0
  HasDocker = TRUE
  Faults = {"fs", "spawn", "db", "write", "create", "start", "remove", "rmdir"}
  MaxEnqueue = 2
  MaxSweeps = 1
  MaxCrashes = 1
SYMMETRY Symmetry
SPECIFICATION Spec
CHECK_DEADLOCK FALSE
INVARIANTS
  ExclusiveJudging
  AccountingExact
  NothingLost
PROPERTIES
  RefinesLifecycle
