SPECIFICATION Spec
CONSTANTS
  Keys = {k1, k2}
  Workloads <- MCWorkloads
  Requests = {r1, r2}
  Crons = {c1, c2}
  MaxFaults = 1
  None = None
SYMMETRY Symmetry
INVARIANTS EntriesTellTheTruth UnloggedIsExplained VerifiedBackupIsComplete
PROPERTIES TakesVaultSteps ImplementsEntryLog EarlyRotationsAreRaces
CHECK_DEADLOCK FALSE
