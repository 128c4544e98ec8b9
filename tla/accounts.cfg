CONSTANTS
  Clients = {t1, t2}
  PoolSize = 1
  MaxFaults = 1
  Second = 2
  RefreshTtl = 2
  MaxRevoked = 1
  MaxTime = 5
  Names <- Spelled
  Fold <- Folded
  Emails = {e1}
  Cooldown = 2
  MaxUsers = 3
  Threshold = 2
  Window = 3
  LockedFor = 2
  MaxTracked = 2
  AuditEvery = 2
  TokenAdmins = {1, 2}
  Keys = {k1, k2, k3}
  Capacity = 2
  WindowMs = 7
  Ms = 2
  SecondMs = 2
  MaxKeys = 2
  LastTick = 12
SPECIFICATION Spec
SYMMETRY Symmetry
CHECK_DEADLOCK FALSE
INVARIANTS
  RevokedIsRefused
  ExchangesBounded
  WrongPasswordsBounded
  AliasesResolve
  ActsAudited
  RateBounded
  RetryAfterSuffices
