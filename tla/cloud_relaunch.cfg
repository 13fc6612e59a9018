CONSTANTS
  o1 = o1
  a1 = a1
  a2 = a2
  a3 = a3
  NoOrder = NoOrder
  NoAgent = NoAgent
  Order <- OneOrder
  Agent <- ThreeAgents
  Faults <- RedisFaults
  MaxPublish = 1
  MaxMishaps = 1
  MAX_LAUNCH_ATTEMPTS = 2
SPECIFICATION Spec
INVARIANT OneLaunchPerOrder
CHECK_DEADLOCK FALSE
