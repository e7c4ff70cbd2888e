CONSTANTS
  x = x
  t1 = t1
  t2 = t2
  t3 = t3
  None = None
  Keys = {x}
  Transfers = {t1, t2, t3}
SPECIFICATION Spec
INVARIANT OneTransferPerKey
INVARIANT PartsOwned
SYMMETRY Symmetry
