CONSTANTS
  n1 = n1
  n2 = n2
  NoNode = NoNode
  Node <- OneNode
  Misaddressed <- OneNode
  Faults <- None
  MaxRestarts = 0
SPECIFICATION Spec
INVARIANT NaturalDeathIsPublished
CHECK_DEADLOCK FALSE
