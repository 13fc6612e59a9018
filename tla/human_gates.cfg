CONSTANTS
  r1 = r1
  r2 = r2
  NoRepo = NoRepo
  None = None
  Kinds <- AllKinds
  Repo <- TwoRepos
  Number = {1}
  Acts <- AllActs
  MaxChanges = 3
  MaxOrders = 2
  MaxLists = 1
SPECIFICATION FairSpec
INVARIANTS TakenWasSent OneAgentPerConflict
PROPERTY BoardSettles
CHECK_DEADLOCK FALSE
