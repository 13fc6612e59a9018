--------------------------- MODULE MCCloudFactory ---------------------------
\* Model values and bounds for the TLC runs of CloudFactory.
EXTENDS CloudFactory, TLC

CONSTANTS o1, a1, a2, a3

OneOrder == {o1}
ThreeAgents == {a1, a2, a3}

RedisFaults == {"redis"}
AllFaults == {"api", "redis", "crash", "flood"}
=============================================================================
