CONSTANTS
  n1 = n1
  n2 = n2
  NoNode = NoNode
  Node <- OneNode
  Misaddressed <- None
  Faults <- ProcessFaults
  MaxRestarts = 1
SPECIFICATION FairSpec
PROPERTIES CorpseIsDropped KillTakesEffect SwitchedOffStops
CHECK_DEADLOCK FALSE
