SPECIFICATION Spec
CONSTANTS
  KeyIds = {k1}
  Names = {n1}
  KeyTypes = {"aead"}
  Secrets = {s1, s2, s3, s4}
  Requests = {r1, r2, r3}
  Ops <- EncryptOps
  Windows = {0, 1}
  HardLimit = 2
  MaxVersion = 3
  MaxTime = 0
  None = None
SYMMETRY Symmetry
INVARIANTS NonceBudget
PROPERTIES VersionsImmutable
CHECK_DEADLOCK FALSE
