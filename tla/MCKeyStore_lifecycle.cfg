SPECIFICATION Spec
CONSTANTS
  KeyIds = {k1}
  Names = {n1}
  KeyTypes = {"aead", "sig", "kem"}
  Secrets = {s1, s2, s3}
  Requests = {r1, r2}
  Ops <- AllOps
  Windows = {0, 1}
  HardLimit = 2
  MaxVersion = 2
  MaxTime = 2
  None = None
SYMMETRY Symmetry
INVARIANTS VersionChain DatedIffPending Decryptable OpensWithItsOwnSecret
PROPERTIES ShreddedForGood ImplementsVault
CHECK_DEADLOCK FALSE
