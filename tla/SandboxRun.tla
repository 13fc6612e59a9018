----------------------------- MODULE SandboxRun -----------------------------
(***************************************************************************)
(* What one run promises to whoever watches the AGENTHANDLER registry and  *)
(* the FINISHED stream (wire/machine.py): its hash appears once, its       *)
(* outcome is on the stream before the hash goes, the sandbox reports it   *)
(* at most once, and the manager speaks for a sandbox only after its end.  *)
(* WorkGraph implements this for the run it is inside of, MachineFactory   *)
(* for every order it launches.                                            *)
(***************************************************************************)
EXTENDS Sequences, Naturals

VARIABLES
  open,    \* the run is in the registry
  up,      \* its container has been started and has not ended
  reports  \* what the stream says of it

contract == <<open, up, reports>>

Outcome == {"finished", "error"}

ContractInit == open = FALSE /\ up = FALSE /\ reports = <<>>

\* A run is registered before anything of it exists.
Register ==
  /\ ~ open /\ ~ up /\ reports = <<>>
  /\ open' = TRUE
  /\ UNCHANGED <<up, reports>>

StartUp ==
  /\ ~ up /\ reports = <<>>
  /\ up' = TRUE
  /\ UNCHANGED <<open, reports>>

\* The sandbox tells its own outcome, and it is the first to speak.
Tell(status) ==
  /\ up /\ reports = <<>>
  /\ reports' = <<status>>
  /\ UNCHANGED <<open, up>>

\* Nobody is left to tell it, or to take back the hash of a run that was told.
TellForIt ==
  /\ open /\ ~ up
  /\ reports' = Append(reports, "error")
  /\ UNCHANGED <<open, up>>

Close ==
  /\ open /\ reports # <<>>
  /\ open' = FALSE
  /\ UNCHANGED <<up, reports>>

\* The order is no longer on the stream: the run cannot be named any more.
CloseUntold ==
  /\ open /\ ~ up
  /\ open' = FALSE
  /\ UNCHANGED <<up, reports>>

End ==
  /\ up
  /\ up' = FALSE
  /\ UNCHANGED <<open, reports>>

ContractNext ==
  \/ Register \/ StartUp \/ TellForIt \/ Close \/ CloseUntold \/ End
  \/ \E status \in Outcome : Tell(status)

Contract == ContractInit /\ [][ContractNext]_contract
=============================================================================
