CONSTANTS
  MaxCards = 3
  MaxId = 1
  MaxPriority = 2
  Limit = 7
  Faults <- AllFaults
  MaxFaults = 2
SPECIFICATION FairSpec
INVARIANTS OneNodeLit TimelineAgrees BoardIsWorkedOff
PROPERTIES EveryRunTold KeepsContract
CHECK_DEADLOCK FALSE
