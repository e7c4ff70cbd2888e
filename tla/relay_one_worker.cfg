CONSTANTS
  a = a
  b = b
  c = c
  a1 = a1
  a2 = a2
  b1 = b1
  c1 = c1
  s1 = s1
  s2 = s2
  None = None
  Users = {a, b, c}
  Sockets = {a1, a2, b1, c1}
  SessionIds = {s1, s2}
  UserOf <- Reconnecting
  Workers = 1
SPECIFICATION SeenSpec
INVARIANT NoGhosts
INVARIANT ToldTruth
PROPERTY Implements
\* Every socket may have closed for good.
CHECK_DEADLOCK FALSE
