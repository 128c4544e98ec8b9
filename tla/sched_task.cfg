CONSTANTS
  w1 = w1
  w2 = w2
  s1 = s1
  NoTask = NoTask
  Workers = {w1, w2}
  Submissions = {s1}
  MaxQueue = 1
  HasDocker = TRUE
  Faults = {"fs", "spawn", "db", "start"}
  MaxEnqueue = 1
  MaxSweeps = 1
  MaxCrashes = 0
SPECIFICATION FairSpec
CHECK_DEADLOCK FALSE
INVARIANTS
  LitterOnlyByFailure
PROPERTIES
  AcceptedIsJudged
