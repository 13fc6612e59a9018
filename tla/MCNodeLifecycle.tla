--------------------------- MODULE MCNodeLifecycle ---------------------------
\* Model values and bounds for the TLC runs of NodeLifecycle.
EXTENDS NodeLifecycle, TLC

CONSTANTS n1, n2

OneNode == {n1}
TwoNodes == {n1, n2}

\* Sound where no node is misaddressed.
Symmetry == Permutations(Node)

None == {}
Crashes == {"crash"}
JustRedis == {"redis"}
ProcessFaults == {"crash", "signal", "stall"}
=============================================================================
