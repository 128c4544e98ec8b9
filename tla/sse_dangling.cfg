CONSTANTS
  s1 = s1
  c1 = c1
  Submissions = {s1}
  Listeners = {c1}
  HasNotifier = TRUE
  DbFails = FALSE
SYMMETRY Symmetry
SPECIFICATION NotifierSpec
CHECK_DEADLOCK FALSE
INVARIANTS
  NoDanglingCall
