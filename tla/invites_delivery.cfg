CONSTANTS
  a = a
  b = b
  a1 = a1
  b1 = b1
  b2 = b2
  s1 = s1
  s2 = s2
  None = None
  Users = {a, b}
  Sockets = {a1, b1, b2}
  SessionIds = {s1, s2}
  UserOf <- Returning
  Workers = 2
  PerTarget = 2
  PerSender = 2
  Total = 3
  TTL = 1
  MaxClock = 1
  MaxSetBack = 1
SPECIFICATION Spec
INVARIANT OnlyCrossedStrand
INVARIANT Bounded
PROPERTY LeavesForAReason
PROPERTY CapacityReturns
\* Every socket may have closed for good.
CHECK_DEADLOCK FALSE
