CONSTANTS
  MaxCards = 3
  MaxId = 1
  MaxPriority = 1
  Limit = 5
  Faults <- None
  MaxFaults = 0
SPECIFICATION FairSpec
PROPERTY RowIsDeleted
CHECK_DEADLOCK FALSE
