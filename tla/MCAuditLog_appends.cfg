SPECIFICATION FairSpec
CONSTANTS
  Calls = {c1, c2, c3}
  MaxRetries = 2
  NoCall = NoCall
INVARIANTS ChainIntact AnswersMatchLog LosesOnlyToOthers FileMirrorsCommitted
PROPERTIES ImplementsAppendOnlyLog EveryAppendEnds
CHECK_DEADLOCK FALSE
