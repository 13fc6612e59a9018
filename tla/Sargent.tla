------------------------------ MODULE Sargent ------------------------------
(***************************************************************************)
(* The manager that rewrites prompts (SargentManager/manager.py).  It      *)
(* reads SARGENT:ASK as a member of a consumer group, first what was       *)
(* handed to it and never acknowledged, then what is new, and answers on   *)
(* SARGENT:ANSWER.  Its consumer name has its process id in it, so that    *)
(* what one process leaves unacknowledged no later process reads.          *)
(***************************************************************************)
EXTENDS Mishaps, Sequences

CONSTANTS Prompt, NoPrompt, MaxAnswers

ASSUME SargentAssumption == NoPrompt \notin Prompt /\ MaxAnswers \in Nat

VARIABLES
  mail,     \* where the entry of each prompt is
  serves,   \* "up", "answered" between a prompt's answer and its XACK, "down"
  hand,     \* the prompt at hand
  answers   \* SARGENT:ANSWER

sargentVars == <<mail, serves, hand, answers>>

SargentTypeOK ==
  /\ mail \in [Prompt -> {"unsent", "sent", "handed", "orphaned", "acked"}]
  /\ serves \in {"up", "answered", "down"}
  /\ hand \in Prompt \cup {NoPrompt}
  /\ answers \in Seq(Prompt) /\ Len(answers) <= MaxAnswers
  /\ serves = "answered" => hand # NoPrompt /\ mail[hand] = "handed"

SargentInit ==
  /\ mail = [p \in Prompt |-> "unsent"]
  /\ serves = "up" /\ hand = NoPrompt /\ answers = <<>>

SendPrompt(p) ==
  /\ mail[p] = "unsent"
  /\ mail' = [mail EXCEPT ![p] = "sent"]
  /\ UNCHANGED <<serves, hand, answers>>

-----------------------------------------------------------------------------
\* XREADGROUP from "0", or from ">".  Entries that an error has cut off from
\* their batch are pending, too, and are handed over again.
TakePrompt(p) ==
  /\ serves = "up" /\ hand = NoPrompt
  /\ mail[p] \in {"sent", "handed"}
  /\ mail' = [mail EXCEPT ![p] = "handed"]
  /\ hand' = p
  /\ UNCHANGED <<serves, answers, faults>>

\* The rewrite, or the error that the model met.
AnswerPrompt ==
  /\ serves = "up" /\ hand # NoPrompt
  /\ Len(answers) < MaxAnswers
  /\ answers' = Append(answers, hand)
  /\ serves' = "answered"
  /\ UNCHANGED <<mail, hand, faults>>

\* The XADD fails.  The prompt is acknowledged all the same.
AnswerIsLost ==
  /\ serves = "up" /\ hand # NoPrompt
  /\ Fault("sargent")
  /\ serves' = "answered"
  /\ UNCHANGED <<mail, hand, answers>>

AckPrompt ==
  /\ serves = "answered"
  /\ mail' = [mail EXCEPT ![hand] = "acked"]
  /\ serves' = "up" /\ hand' = NoPrompt
  /\ UNCHANGED <<answers, faults>>

AckFails ==
  /\ serves = "answered"
  /\ Fault("sargent")
  /\ serves' = "up" /\ hand' = NoPrompt
  /\ UNCHANGED <<mail, answers>>

SargentCrashes ==
  /\ serves # "down"
  /\ Fault("sargent")
  /\ mail' = [p \in Prompt |-> IF mail[p] = "handed" THEN "orphaned" ELSE mail[p]]
  /\ serves' = "down" /\ hand' = NoPrompt
  /\ UNCHANGED answers

SargentRestarts ==
  /\ serves = "down"
  /\ serves' = "up"
  /\ UNCHANGED <<mail, hand, answers, faults>>

SargentStep ==
  \/ \E p \in Prompt : TakePrompt(p)
  \/ AnswerPrompt \/ AckPrompt \/ SargentRestarts

SargentMishap == AnswerIsLost \/ AckFails \/ SargentCrashes
=============================================================================
