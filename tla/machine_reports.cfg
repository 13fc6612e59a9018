CONSTANTS
  o1 = o1
  o2 = o2
  NoOrder = NoOrder
  Order <- TwoOrders
  Faults <- AllFaults
  MaxMishaps = 2
SPECIFICATION Spec
INVARIANTS TypeOK ReportedOnce
PROPERTIES KeepsContract
