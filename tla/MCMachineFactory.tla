-------------------------- MODULE MCMachineFactory --------------------------
\* Model values and bounds for the TLC runs of MachineFactory.
EXTENDS MachineFactory

CONSTANTS o1, o2

OneOrder == {o1}
TwoOrders == {o1, o2}

None == {}
AllFaults == {"die", "crash", "redis", "docker", "launch", "cancel", "trim"}
AllButDocker == {"die", "crash", "redis", "launch", "trim"}
=============================================================================
