---------------------------- MODULE MCCodeScope ----------------------------
\* Model values and bounds for the TLC run of CodeScope.
EXTENDS CodeScope

CONSTANTS ask1, ask2, request1, request2

TwoAsks == {ask1, ask2}
TwoRequests == {request1, request2}

None == {}
ServiceFaults == {"service"}
=============================================================================
