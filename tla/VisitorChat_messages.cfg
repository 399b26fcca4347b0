SPECIFICATION FairSpec
CONSTANTS
  v1 = v1 v2 = v2 v3 = v3 NoVisitor = NoVisitor
  Visitors = {v1, v2}
  Known = {v2}
  Sends = {1}
  TextOf <- SameText
  MaxRecoveries = 1
  MaxReplaces = 1
  MaxTokens = 5
  MaxConvs = 2
  MaxMessages = 1
  MaxFaults = 1
  MaxFetches = 2
INVARIANTS TypeOK ShownOnce
PROPERTIES ReadIsNotUndone NothingMissed
CHECK_DEADLOCK FALSE
