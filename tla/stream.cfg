CONSTANTS
  Clients = {t1, t2}
  PoolSize = 2
  MaxFaults = 0
  Users = {u1, u2}
  NoUser = u0
  Dangling = FALSE
  Admins = {u2}
  MaxRows = 4
  Members = {u1}
  MaxDay = 3
  Foci = {"stream"}
SPECIFICATION Spec
CHECK_DEADLOCK FALSE
PROPERTIES
  PushedIsStreamed
