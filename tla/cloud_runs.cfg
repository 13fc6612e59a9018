CONSTANTS
  o1 = o1
  a1 = a1
  a2 = a2
  a3 = a3
  NoOrder = NoOrder
  NoAgent = NoAgent
  Order <- OneOrder
  Agent <- ThreeAgents
  Faults <- AllFaults
  MaxPublish = 2
  MaxMishaps = 2
  MAX_LAUNCH_ATTEMPTS = 2
SPECIFICATION FairSpec
INVARIANT OneRunPerOrder
PROPERTIES OrderAnswered RejectedRunStops EveryRunSettles
