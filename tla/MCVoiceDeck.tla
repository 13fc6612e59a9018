---------------------------- MODULE MCVoiceDeck ----------------------------
\* Model values and bounds for the TLC runs of VoiceDeck, CodeScope and Sargent.
EXTENDS VoiceDeck

CONSTANTS question1, request1, prompt1

OneQuestion == {question1}
OneRequest == {request1}
OnePrompt == {prompt1}

None == {}
AllFaults == {"service", "sargent", "panel", "connect", "socket", "stop"}
=============================================================================
