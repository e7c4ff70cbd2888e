CONSTANTS
  x = x
  y = y
  t1 = t1
  t2 = t2
  None = None
  Keys = {x, y}
  Transfers = {t1, t2}
  MAX_AUTO_RETRIES = 1
  UserOps = {"queue", "delete"}
  MaxOps = 3
SPECIFICATION Spec
INVARIANT OneGetAtATime
\* The users may be done.
CHECK_DEADLOCK FALSE
