CONSTANTS
  s1 = s1
  s2 = s2
  c1 = c1
  c2 = c2
  Submissions = {s1, s2}
  Listeners = {c1, c2}
  HasNotifier = TRUE
  DbFails = TRUE
SPECIFICATION NotifierFairSpec
CHECK_DEADLOCK FALSE
INVARIANTS
  AnswerIsTheVerdict
  NoEntryLeaks
PROPERTIES
  EveryRequestAnswered
