SPECIFICATION Spec
CONSTANTS
  Calls = {c1, c2}
  MaxRetries = 2
  NoCall = NoCall
INVARIANTS FileIsChain
CHECK_DEADLOCK FALSE
