CONSTANTS
  Clients = {t1, t2}
  PoolSize = 2
  MaxFaults = 1
  Slugs = {s1, s2}
  Batches <- MCBatches
  MaxRuns = 2
  LastStamp = 3
  Members = {1, 2}
  Tasks = {p1, p2}
  MaxSubmissions = 2
  MaxTurns = 2
  MaxOut = 3
  MaxExpected = 2
  EpsNum = 10
  EpsDen = 11
SPECIFICATION Spec
SYMMETRY Symmetry
CHECK_DEADLOCK FALSE
INVARIANTS
  EditsAreWhole
  RevisionsNumbered
  ActsAudited
  SkipKeepsProblems
  RunsLeaveNothing
  SampleIsOwn
  CountsAgree
  LenientKeepsWords
  FloatIsTokenwise
