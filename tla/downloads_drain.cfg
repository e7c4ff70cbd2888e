CONSTANTS
  x = x
  y = y
  t1 = t1
  t2 = t2
  None = None
  Keys = {x, y}
  Transfers = {t1, t2}
  MAX_AUTO_RETRIES = 1
  UserOps = {"queue", "cancel", "retry", "delete", "server", "restart"}
  MaxOps = 2
SPECIFICATION FairSpec
INVARIANT OneGetUndisturbed
INVARIANT ToldOnce
PROPERTY QueueDrains
\* The users may be done.
CHECK_DEADLOCK FALSE
