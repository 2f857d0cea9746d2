SPECIFICATION Spec
CONSTANTS
  other = other
  u1 = u1
  u2 = u2
  Browsers = {b1, b2, other}
  Subjects = {u1, u2}
  UserOf <- MCUserOf
  Replicas = {a1}
  Principals = {p1, p2, p3}
  Logins = {l1, l2, l3}
  TxTtl = 1
  MaxTime = 1
  MaxRestarts = 1
  None = None
SYMMETRY Symmetry
INVARIANTS SessionsAreTheUsersOwn NoSessionOfTheLongGone
PROPERTIES StableIdentity
CHECK_DEADLOCK FALSE
