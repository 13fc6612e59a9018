------------------------ MODULE MCSupervisorSingleton ------------------------
\* Model values and symmetry for the TLC runs of SupervisorSingleton.
EXTENDS SupervisorSingleton, TLC

CONSTANTS p1, p2, p3

TwoProcs == {p1, p2}
ThreeProcs == {p1, p2, p3}

\* Processes are interchangeable: no action or invariant names one.
Symmetry == Permutations(Proc)

NoFaults == {}
OrderlyFaults == {"crash", "signal", "flush"}
FlushAndRedis == {"flush", "redis"}
=============================================================================
