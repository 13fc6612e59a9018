CONSTANTS
  p1 = p1
  p2 = p2
  p3 = p3
  NoOwner = NoOwner
  Proc <- ThreeProcs
  Faults <- OrderlyFaults
SPECIFICATION Spec
SYMMETRY Symmetry
INVARIANT NothingLeftBehind
CHECK_DEADLOCK FALSE
