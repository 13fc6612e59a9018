CONSTANTS
  p1 = p1
  p2 = p2
  p3 = p3
  NoOwner = NoOwner
  Proc <- TwoProcs
  Faults <- NoFaults
SPECIFICATION Spec
INVARIANT ServedNodesAreListed
CHECK_DEADLOCK FALSE
