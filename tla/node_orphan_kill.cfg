CONSTANTS
  n1 = n1
  n2 = n2
  NoNode = NoNode
  Node <- OneNode
  Misaddressed <- None
  Faults <- Crashes
  MaxRestarts = 1
SPECIFICATION Spec
PROPERTY KillRequestStopsProcess
CHECK_DEADLOCK FALSE
