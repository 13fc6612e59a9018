---------------------------- MODULE MCHumanGates ----------------------------
\* Model values and bounds for the TLC runs of HumanGates.
EXTENDS HumanGates, TLC

CONSTANTS r1, r2

TwoRepos == {r1, r2}
AllKinds == {"dispatcher", "integrator", "manager"}
Dispatcher == {"dispatcher"}
AllActs == {"tag", "url", "label", "drag", "pull", "voice", "rehost", "gh"}
OnlyVoice == {"voice"}
=============================================================================
