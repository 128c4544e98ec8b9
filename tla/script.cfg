CONSTANTS
  UsedTypes = {"exact", "ignore_trailing", "special", "unknown"}
  MaxCases = 3
  Hard = 1
  Slack = 1
  MaxStep = 1
SPECIFICATION FairSpec
CHECK_DEADLOCK FALSE
INVARIANTS
  AcceptedPassedAll
  FailureIsLocated
PROPERTIES
  EveryTaskAnswered
