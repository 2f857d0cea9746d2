SPECIFICATION Spec
CONSTANTS
  KeyIds = {k1}
  Names = {n1}
  KeyTypes = {"aead"}
  Secrets = {s1}
  Requests = {r1, r2}
  Ops <- LifecycleOps
  Windows = {0, 1}
  HardLimit = 2
  MaxVersion = 1
  MaxTime = 2
  None = None
SYMMETRY Symmetry
PROPERTIES DestroyedOnlyWhenDue
CHECK_DEADLOCK FALSE
