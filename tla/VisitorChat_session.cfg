SPECIFICATION FairSpec
CONSTANTS
  v1 = v1 v2 = v2 v3 = v3 NoVisitor = NoVisitor
  Visitors = {v1, v2, v3}
  Known = {v2}
  Sends = {}
  TextOf <- SameText
  MaxRecoveries = 1
  MaxReplaces = 1
  MaxTokens = 5
  MaxConvs = 2
  MaxMessages = 0
  MaxFaults = 2
  MaxFetches = 2
INVARIANTS RemintsAreBounded
PROPERTIES SocketFollowsIdentity
CHECK_DEADLOCK FALSE
