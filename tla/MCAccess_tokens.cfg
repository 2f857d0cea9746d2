SPECIFICATION Spec
CONSTANTS
  Principals = {root, p1}
  Tokens = {t0, t1, t2}
  Grants = {}
  Namespaces = {n0}
  Keys = {}
  Root = root
  RootToken = t0
  Default = n0
  Names = {default}
  DefaultName = default
  Ops = {"manage", "read"}
  Strict = TRUE
  ScopeSets = {{"admin"}}
  OpSets = {}
  Ttls = {FALSE, TRUE}
  Requests = {r1, r2}
  Handlers <- TokenHandlers
  None = None
SYMMETRY Symmetry
INVARIANTS OnlyLateTokensSurvive
PROPERTIES DeletionIsFinal
CHECK_DEADLOCK FALSE
