CONSTANTS
  w1 = w1
  w2 = w2
  s1 = s1
  s2 = s2
  NoTask = NoTask
  Workers = {w1, w2}
  Submissions = {s1, s2}
  MaxQueue = 1
  HasDocker = FALSE
  Faults = {}
  MaxEnqueue = 2
  MaxSweeps = 0
  MaxCrashes = 0
SPECIFICATION FairSpec
CHECK_DEADLOCK FALSE
INVARIANTS
  DrainedAtShutdown
PROPERTIES
  AcceptedIsJudged
  ShutdownReturnsUnlessMissed
