SPECIFICATION Spec
CONSTANTS
  Principals = {root, p1}
  Tokens = {t0, t1}
  Grants = {g1, g2}
  Namespaces = {n0, n1}
  Keys = {k1}
  Root = root
  RootToken = t0
  Default = n0
  Names = {default, team}
  DefaultName = default
  Ops = {"manage", "read", "encrypt"}
  Strict = TRUE
  ScopeSets = {{"manage", "read", "encrypt"}}
  OpSets = {{"manage", "read"}}
  Ttls = {FALSE}
  Requests = {r1, r2}
  Handlers <- GrantHandlers
  None = None
SYMMETRY Symmetry
INVARIANTS OneGrantPerResource OnlyLateGrantsDangle
PROPERTIES DecisionsAreCovered RemovedGrantsStayRemoved DestructionIsFinal
CHECK_DEADLOCK FALSE
