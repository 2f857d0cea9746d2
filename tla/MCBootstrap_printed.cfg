SPECIFICATION Spec
CONSTANTS
  Replicas = {a}
  Inits = {i}
  Rekeys = {}
  Passphrases = {p1}
  RootKeks = {r1, r2}
  SigningKeys = {s1, s2}
  MaxCrashes = 0
  None = None
INVARIANTS BootstrapTokenPrinted
CHECK_DEADLOCK FALSE
