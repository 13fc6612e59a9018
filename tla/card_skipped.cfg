CONSTANTS
  MaxCards = 2
  MaxId = 1
  MaxPriority = 1
  Limit = 7
  Faults <- None
  MaxFaults = 0
SPECIFICATION Spec
INVARIANT EveryCardIsWorked
CHECK_DEADLOCK FALSE
