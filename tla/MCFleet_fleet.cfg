SPECIFICATION Spec
CONSTANTS
  Servers = {a1}
  Tools = {t1}
  AuditKey = audit
  SigKeys = {sig}
  KemKeys = {kem}
  Deals <- MCDeals
  Combine <- MCCombine
  Passphrase <- MCPassphrase
  MaxVersions = 2
  MaxMade = 3
  None = None
INVARIANTS PqFleetIsPq NoDowngrade ArtefactsKeepWorking EnoughSharesUnlock
