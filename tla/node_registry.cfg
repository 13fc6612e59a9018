CONSTANTS
  n1 = n1
  n2 = n2
  NoNode = NoNode
  Node <- TwoNodes
  Misaddressed <- None
  Faults <- JustRedis
  MaxRestarts = 0
SPECIFICATION Spec
SYMMETRY Symmetry
INVARIANTS NoOrphans ExitPublishedOnce
PROPERTY NeverUnlisted
CHECK_DEADLOCK FALSE
