CONSTANTS
  a = a
  b = b
  a1 = a1
  a2 = a2
  b1 = b1
  s1 = s1
  None = None
  Users = {a, b}
  Sockets = {a1, a2, b1}
  SessionIds = {s1}
  UserOf <- Reconnecting
  Workers = 2
  t1 = t1
  t2 = t2
  t3 = t3
  Nobody = Nobody
  Threads = {t1, t2, t3}
  Ids = {s1}
  Names = {a}
  ShardOf <- OneShard
SPECIFICATION BothSpec
INVARIANT HostPresent
INVARIANT GhostsReconnected
INVARIANT NoCircle
SYMMETRY Alike
\* Every socket may have closed for good.
CHECK_DEADLOCK FALSE
