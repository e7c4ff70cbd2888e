CONSTANTS
  x = x
  y = y
  t1 = t1
  t2 = t2
  None = None
  Keys = {x}
  Transfers = {t1, t2}
  MAX_AUTO_RETRIES = 1
  UserOps = {"queue", "cancel", "retry", "delete", "server", "restart"}
  MaxOps = 3
SPECIFICATION Spec
INVARIANT TypeOK
INVARIANT NoStall
INVARIANT CompleteOnDisk
SYMMETRY Symmetry
\* The users may be done.
CHECK_DEADLOCK FALSE
