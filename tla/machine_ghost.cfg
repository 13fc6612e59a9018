CONSTANTS
  o1 = o1
  o2 = o2
  NoOrder = NoOrder
  Order <- OneOrder
  Faults <- None
  MaxMishaps = 0
SPECIFICATION Spec
INVARIANT HashNamesOrder
CHECK_DEADLOCK FALSE
