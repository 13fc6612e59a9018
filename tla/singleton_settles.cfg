CONSTANTS
  p1 = p1
  p2 = p2
  p3 = p3
  NoOwner = NoOwner
  Proc <- ThreeProcs
  Faults <- FlushAndRedis
SPECIFICATION FairSpec
INVARIANT SurvivorHoldsLock
PROPERTIES SettlesToOne BootedIsServed
CHECK_DEADLOCK FALSE
