CONSTANTS
  ask1 = ask1
  ask2 = ask2
  request1 = request1
  request2 = request2
  NoAsk = NoAsk
  NoSession = NoSession
  Ask <- TwoAsks
  Heard <- None
  Request <- TwoRequests
  Faults <- ServiceFaults
  MaxFaults = 1
  MaxSentences = 1
  MaxAgents = 2
SPECIFICATION FairScopeSpec
INVARIANTS ScopeTypeOK SessionSettles
PROPERTIES EveryAskEnds
CHECK_DEADLOCK FALSE
