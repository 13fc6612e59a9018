CONSTANTS
  r1 = r1
  r2 = r2
  NoRepo = NoRepo
  None = None
  Kinds <- Dispatcher
  Repo <- TwoRepos
  Number = {1}
  Acts <- OnlyVoice
  MaxChanges = 1
  MaxOrders = 1
  MaxLists = 1
SPECIFICATION Spec
INVARIANT TakenWasSignalled
CHECK_DEADLOCK FALSE
