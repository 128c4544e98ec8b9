CONSTANTS
  Clients = {t1, t2}
  PoolSize = 2
  MaxFaults = 0
  Slugs = {s1, s2}
  Batches <- MCBatches
  MaxRuns = 2
  LastStamp = 3
  Members = {1, 2}
  Tasks = {p1, p2}
  MaxSubmissions = 2
  MaxTurns = 0
  MaxOut = 2
  MaxExpected = 2
  EpsNum = 10
  EpsDen = 11
SPECIFICATION Spec
CHECK_DEADLOCK FALSE
INVARIANTS
  CaseIsIgnored
