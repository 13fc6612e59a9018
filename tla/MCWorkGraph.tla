---------------------------- MODULE MCWorkGraph ----------------------------
\* Bounds for the TLC runs of WorkGraph.
EXTENDS WorkGraph

None == {}
AllFaults == {"redis", "raise", "kill", "trim"}
=============================================================================
