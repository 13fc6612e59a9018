CONSTANTS
  o1 = o1
  o2 = o2
  NoOrder = NoOrder
  Order <- TwoOrders
  Faults <- AllButDocker
  MaxMishaps = 1
SPECIFICATION FairSpec
INVARIANT SandboxHasRedis
PROPERTIES EveryRunReported SidecarsReleased
