SPECIFICATION FairSpec
CONSTANTS
  v1 = v1 v2 = v2 v3 = v3 NoVisitor = NoVisitor
  Visitors = {v1, v2}
  Known = {v2}
  Sends = {}
  TextOf <- SameText
  MaxRecoveries = 1
  MaxReplaces = 1
  MaxTokens = 4
  MaxConvs = 2
  MaxMessages = 0
  MaxFaults = 1
  MaxFetches = 2
PROPERTIES SocketFollowsLogin
CHECK_DEADLOCK FALSE
