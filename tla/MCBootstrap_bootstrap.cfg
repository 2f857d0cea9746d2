SPECIFICATION FairSpec
CONSTANTS
  Replicas = {a}
  Inits = {i}
  Rekeys = {k}
  Passphrases = {p1, p2}
  RootKeks = {r1, r2, r3}
  SigningKeys = {s1, s2, s3}
  MaxCrashes = 2
  None = None
INVARIANTS OneRootKek OneSigningKey OneBootstrapToken
PROPERTIES RootKekIsForever ImplementsAgreement EveryReplicaServes
CHECK_DEADLOCK FALSE
