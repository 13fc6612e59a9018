------------------------------ MODULE CodeScope ------------------------------
(***************************************************************************)
(* The HTTP service that answers questions about a repository              *)
(* (CodeScopeManager/service.py, server.py, runner.py).  One session is    *)
(* looked at; the lock that lets one question through at a time is the     *)
(* service's.  Every request is a thread.  A request reads the session as  *)
(* a copy, works on the copy, and stores it whole: what another request    *)
(* has stored in between is lost.                                          *)
(*                                                                         *)
(* An answer is a generator.  It is suspended at every sentence, with the  *)
(* lock held, until the HTTP server asks for the next; once the server     *)
(* knows that the client has gone it is closed where it stands.            *)
(***************************************************************************)
EXTENDS Mishaps, Sequences, FiniteSets

CONSTANTS
  Ask,           \* questions that are ever asked
  Heard,         \* those whose answers are followed to the client
  Request,       \* the other requests: POST /repos and POST /sessions/{id}/sync
  NoAsk, NoSession,
  MaxSentences,  \* bound on the sentences before the last
  MaxAgents      \* bound on the Cursor agents that are created

ASSUME CodeScopeAssumption ==
  /\ Heard \subseteq Ask /\ NoAsk \notin Ask
  /\ MaxSentences \in Nat /\ MaxAgents \in Nat

VARIABLES
  session,    \* the stored session, in memory and in sessions.json
  clone,      \* its directory
  runner,     \* the agent id of its cached CursorRunner, 0 before it has one
  born,       \* agents that have been created
  up,         \* the service runs
  lock,       \* who holds _ask_lock
  at,         \* where the thread of each question is
  copy,       \* its copy of the session
  said,       \* sentences that it has yielded
  wire,       \* what was sent of its answer and not read yet
  gone,       \* questions whose client has hung up
  req, held,  \* where each of the other requests is, and its copy
  talked,     \* history: the agent that gave the last whole answer
  overlapped, \* history: two requests of the session overlapped
  cutOff      \* history: what a question that was closed or cut did not get stored
              \* and nothing has stored since, of its "status" and its "agent"

askVars == <<lock, at, copy, said>>
otherVars == <<req, held>>
scopeHistory == <<talked, overlapped, cutOff>>
scopeVars == <<session, clone, runner, born, up, askVars, wire, gone, otherVars, scopeHistory>>

-----------------------------------------------------------------------------
Status == {"cloning", "thinking", "ready", "error"}
Agent == 0..MaxAgents
NoRunner == MaxAgents + 1

Session == [status : Status, agent : Agent]

ASSUME NoSessionAssumption == NoSession \notin Session

\* "taken": the lock and the copy are there.  The phases that end in a yield:
\* "missing", "paused", "final", "unstarted", "failed".
Yielded == {"missing", "paused", "final", "unstarted", "failed"}
Over == {"ended", "closed", "cut", "refused"}
AskPhase == {"new", "waiting", "taken", "running"} \cup Yielded \cup Over
InLock == {"taken", "running"} \cup Yielded
ReqPhase == {"new", "found", "cloning", "fetching", "syncing", "done"}

Reply == {"sentence", "final", "error"}
ScopeTypeOK ==
  /\ session \in Session \cup {NoSession}
  /\ clone \in {"missing", "partial", "whole"}
  /\ runner \in Agent \cup {NoRunner} /\ born \in Agent
  /\ up \in BOOLEAN
  /\ lock \in Ask \cup {NoAsk}
  /\ at \in [Ask -> AskPhase]
  /\ copy \in [Ask -> Session \cup {NoSession}]
  /\ said \in [Ask -> 0..MaxSentences]
  /\ wire \in [Ask -> Seq(Reply)] /\ \A a \in Ask : Len(wire[a]) <= MaxSentences + 1
  /\ gone \subseteq Ask
  /\ req \in [Request -> ReqPhase]
  /\ held \in [Request -> Session \cup {NoSession}]
  /\ talked \in Agent /\ overlapped \in BOOLEAN /\ cutOff \subseteq {"status", "agent"}
  \* the lock belongs to the one question that is between taking and giving it back
  /\ \A a \in Ask : at[a] \in InLock <=> lock = a

ScopeInit ==
  /\ session = NoSession /\ clone = "missing" /\ runner = NoRunner /\ born = 0
  /\ up = TRUE /\ lock = NoAsk
  /\ at = [a \in Ask |-> "new"] /\ copy = [a \in Ask |-> NoSession]
  /\ said = [a \in Ask |-> 0] /\ wire = [a \in Ask |-> <<>>]
  /\ gone = {}
  /\ req = [r \in Request |-> "new"] /\ held = [r \in Request |-> NoSession]
  /\ talked = 0 /\ overlapped = FALSE /\ cutOff = {}

\* A request has read the session and will store what it made of it.
Working == {a \in Ask : at[a] \in InLock} \cup
           {r \in Request : req[r] \notin {"new", "done"}}

Joins == overlapped' = (overlapped \/ Working # {})

Stores(s) == session' = s /\ cutOff' = cutOff \ {"status"}

Send(a, what) == wire' = IF a \in Heard THEN [wire EXCEPT ![a] = Append(@, what)] ELSE wire

-----------------------------------------------------------------------------
(***************************************************************************)
(* POST /repos: open_repo.                                                 *)
(***************************************************************************)

\* find_repo: a session that is there keeps its id and its agent.
OpenFinds(o) ==
  /\ up /\ req[o] = "new"
  /\ req' = [req EXCEPT ![o] = "found"]
  /\ held' = [held EXCEPT ![o] =
       [status |-> "cloning", agent |-> IF session = NoSession THEN 0 ELSE session.agent]]
  /\ Joins
  /\ UNCHANGED <<session, clone, runner, born, up, askVars, wire, gone, talked, cutOff, faults>>

OpenPuts(o) ==
  /\ req[o] = "found"
  /\ Stores(held[o])
  /\ req' = [req EXCEPT ![o] = "cloning"]
  /\ UNCHANGED <<clone, runner, born, up, askVars, wire, gone, held, talked, overlapped, faults>>

\* git clone makes the directory first.  Who finds one takes it for a clone.
CloneBegins(o) ==
  /\ req[o] = "cloning" /\ clone = "missing"
  /\ clone' = "partial"
  /\ req' = [req EXCEPT ![o] = "fetching"]
  /\ UNCHANGED <<session, runner, born, up, askVars, wire, gone, held, scopeHistory, faults>>

RequestEnds(r) ==
  /\ req' = [req EXCEPT ![r] = "done"]
  /\ held' = [held EXCEPT ![r] = NoSession]

OpenEnds(o, status) ==
  /\ Stores([held[o] EXCEPT !.status = status])
  /\ RequestEnds(o)
  /\ UNCHANGED <<runner, born, up, askVars, wire, gone, talked, overlapped, faults>>

OpenReady(o) ==
  \/ /\ req[o] = "cloning" /\ clone # "missing"
     /\ OpenEnds(o, "ready") /\ UNCHANGED clone
  \/ /\ req[o] = "fetching"
     /\ OpenEnds(o, "ready") /\ clone' = "whole"

\* git takes back the directory of a clone that failed.
OpenFails(o) ==
  /\ req[o] = "fetching"
  /\ OpenEnds(o, "error") /\ clone' = "missing"

-----------------------------------------------------------------------------
(***************************************************************************)
(* POST /sessions/{id}/sync.  Git failing leaves the session as it is.     *)
(***************************************************************************)

SyncGets(r) ==
  /\ up /\ req[r] = "new" /\ session # NoSession
  /\ held' = [held EXCEPT ![r] = session]
  /\ req' = [req EXCEPT ![r] = "syncing"]
  /\ Joins
  /\ UNCHANGED <<session, clone, runner, born, up, askVars, wire, gone, talked, cutOff, faults>>

SyncPuts(r) ==
  /\ req[r] = "syncing"
  /\ \/ clone # "missing" /\ Stores([held[r] EXCEPT !.status = "ready"])
     \/ UNCHANGED <<session, cutOff>>
  /\ RequestEnds(r)
  /\ UNCHANGED <<clone, runner, born, up, askVars, wire, gone, talked, overlapped, faults>>

-----------------------------------------------------------------------------
(***************************************************************************)
(* POST /sessions/{id}/ask.                                                *)
(***************************************************************************)

\* The request arrives, or is refused: no such session, or no service.
AskArrives(a) ==
  /\ at[a] = "new"
  /\ at' = [at EXCEPT ![a] = IF up /\ session # NoSession THEN "waiting" ELSE "refused"]
  /\ UNCHANGED <<session, clone, runner, born, up, lock, copy, said, wire, gone, otherVars,
                 scopeHistory, faults>>

TakeLock(a) ==
  /\ at[a] = "waiting" /\ lock = NoAsk
  /\ lock' = a
  /\ copy' = [copy EXCEPT ![a] = session]
  /\ at' = [at EXCEPT ![a] = "taken"]
  /\ Joins
  /\ UNCHANGED <<session, clone, runner, born, up, said, wire, gone, otherVars, talked, cutOff,
                 faults>>

\* The directory is asked for, not the status of the session.
MissesClone(a) ==
  /\ at[a] = "taken" /\ clone = "missing"
  /\ Send(a, "error")
  /\ at' = [at EXCEPT ![a] = "missing"]
  /\ UNCHANGED <<session, clone, runner, born, up, lock, copy, said, gone, otherVars,
                 scopeHistory, faults>>

\* THINKING is stored, and the runner of the session is found or made.
Thinks(a) ==
  /\ at[a] = "taken" /\ clone # "missing"
  /\ Stores([copy[a] EXCEPT !.status = "thinking"])
  /\ runner' = IF runner = NoRunner THEN copy[a].agent ELSE runner
  /\ at' = [at EXCEPT ![a] = "running"]
  /\ UNCHANGED <<clone, born, up, lock, copy, said, wire, gone, otherVars, talked, overlapped,
                 faults>>

\* CursorRunner.open: resume the agent, or create one.
OpenAgent ==
  \/ runner # 0 /\ UNCHANGED <<runner, born>>
  \/ runner = 0 /\ born < MaxAgents /\ born' = born + 1 /\ runner' = born + 1

Speaks(a) ==
  /\ at[a] = "running" /\ said[a] < MaxSentences
  /\ OpenAgent
  /\ Send(a, "sentence")
  /\ said' = [said EXCEPT ![a] = @ + 1]
  /\ at' = [at EXCEPT ![a] = "paused"]
  /\ UNCHANGED <<session, clone, up, lock, copy, gone, otherVars, scopeHistory, faults>>

\* The agent has given its whole answer, and the last of it is sent.
Concludes(a) ==
  /\ at[a] = "running"
  /\ OpenAgent /\ talked' = runner'
  /\ Send(a, "final")
  /\ at' = [at EXCEPT ![a] = "final"]
  /\ UNCHANGED <<session, clone, up, lock, copy, said, gone, otherVars, overlapped, cutOff, faults>>

\* The agent cannot be started, perhaps after it was created, or its run fails.
AgentFails(a) ==
  /\ at[a] = "running"
  /\ \/ said[a] = 0 /\ at' = [at EXCEPT ![a] = "unstarted"] /\ UNCHANGED <<runner, born>>
     \/ said[a] = 0 /\ at' = [at EXCEPT ![a] = "unstarted"] /\ OpenAgent
     \/ at' = [at EXCEPT ![a] = "failed"] /\ OpenAgent
  /\ Send(a, "error")
  /\ UNCHANGED <<session, clone, up, lock, copy, said, gone, otherVars, scopeHistory, faults>>

Resumes(a) ==
  /\ at[a] = "paused"
  /\ at' = [at EXCEPT ![a] = "running"]
  /\ UNCHANGED <<session, clone, runner, born, up, lock, copy, said, wire, gone, otherVars,
                 scopeHistory, faults>>

\* What the thread of a question has goes with it.
GiveLock(a, how) ==
  /\ at' = [at EXCEPT ![a] = how]
  /\ lock' = NoAsk
  /\ copy' = [copy EXCEPT ![a] = NoSession]
  /\ said' = [said EXCEPT ![a] = 0]

\* Leaving the lock: the copy is stored with its last status.
Leaves(a, status, agent) ==
  /\ session' = [status |-> status, agent |-> agent]
  /\ GiveLock(a, "ended")
  /\ UNCHANGED <<clone, born, up, wire, gone, otherVars, talked, overlapped, faults>>

\* Changed form for the checks: the agent's id is not kept.
EndsReadyForgetting(a) ==
  /\ at[a] = "final"
  /\ Leaves(a, "ready", copy[a].agent)
  /\ cutOff' = {} /\ UNCHANGED runner

\* _remember_agent.
EndsReady(a) ==
  /\ at[a] = "final"
  /\ Leaves(a, "ready", runner)
  /\ cutOff' = {} /\ UNCHANGED runner

\* Only an agent that could not be started is dropped.
EndsError(a) ==
  /\ at[a] \in {"missing", "unstarted", "failed"}
  /\ Leaves(a, "error", copy[a].agent)
  /\ runner' = IF at[a] = "unstarted" THEN NoRunner ELSE runner
  /\ cutOff' = cutOff \ {"status"}

\* Changed form for the checks: the lock goes with the generator.
ClosesHolding(a) ==
  /\ at[a] \in Yielded /\ a \in gone
  /\ at' = [at EXCEPT ![a] = "closed"]
  /\ UNCHANGED <<session, clone, runner, born, up, lock, copy, said, wire, gone, otherVars,
                 scopeHistory, faults>>

\* What is not stored when a question comes to its end where it stands.
LeftBy(a) ==
  (IF at[a] \in {"running", "paused", "final", "unstarted", "failed"} THEN {"status"} ELSE {}) \cup
  (IF at[a] = "final" THEN {"agent"} ELSE {})

\* The client has gone: the generator is closed at its yield.  The lock is
\* given back; what is after the yield does not happen.
Closes(a) ==
  /\ at[a] \in Yielded /\ a \in gone
  /\ GiveLock(a, "closed") /\ cutOff' = cutOff \cup LeftBy(a)
  /\ UNCHANGED <<session, clone, runner, born, up, wire, gone, otherVars, talked, overlapped, faults>>

-----------------------------------------------------------------------------
(***************************************************************************)
(* The process.  Its container is started again; sessions.json and the     *)
(* clones are still there, a clone under way is cut short.                 *)
(***************************************************************************)

ServiceCrashes ==
  /\ up /\ Fault("service")
  /\ up' = FALSE
  /\ cutOff' = cutOff \cup (UNION {LeftBy(a) : a \in Ask}) \cup
       (IF \E r \in Request : req[r] \in {"cloning", "fetching"} THEN {"status"} ELSE {})
  /\ runner' = NoRunner /\ lock' = NoAsk
  /\ at' = [a \in Ask |-> IF at[a] \in {"new"} \cup Over THEN at[a] ELSE "cut"]
  /\ copy' = [a \in Ask |-> NoSession] /\ said' = [a \in Ask |-> 0]
  /\ req' = [r \in Request |-> IF req[r] = "new" THEN "new" ELSE "done"]
  /\ held' = [r \in Request |-> NoSession]
  /\ UNCHANGED <<session, clone, born, wire, gone, talked, overlapped>>

ServiceRestarts ==
  /\ ~ up
  /\ up' = TRUE
  /\ UNCHANGED <<session, clone, runner, born, askVars, wire, gone, otherVars, scopeHistory,
                 faults>>

-----------------------------------------------------------------------------
\* What goes on inside the service, clients apart.
ScopeStep ==
  \/ \E r \in Request : \/ OpenPuts(r) \/ CloneBegins(r) \/ OpenReady(r) \/ OpenFails(r)
                        \/ SyncPuts(r)
  \/ \E a \in Ask : \/ TakeLock(a) \/ MissesClone(a) \/ Thinks(a) \/ Speaks(a) \/ Concludes(a)
                    \/ AgentFails(a) \/ Resumes(a) \/ EndsReady(a) \/ EndsError(a) \/ Closes(a)
  \/ ServiceRestarts

ScopeRequest ==
  \/ \E r \in Request : OpenFinds(r) \/ SyncGets(r)
  \/ ServiceCrashes

-----------------------------------------------------------------------------
(***************************************************************************)
(* The service by itself: its clients are CodeScope's own panel and anyone *)
(* who has the token.                                                      *)
(***************************************************************************)

ClientHangsUp(a) ==
  /\ at[a] \notin {"new"} \cup Over /\ a \notin gone
  /\ gone' = gone \cup {a}
  /\ UNCHANGED <<session, clone, runner, born, up, askVars, wire, otherVars, scopeHistory, faults>>

Client == \E a \in Ask \ Heard : AskArrives(a) \/ ClientHangsUp(a)

ScopeAlone == ScopeInit /\ faults = 0
ScopeNext == ScopeStep \/ ScopeRequest \/ Client

ScopeSpec == ScopeAlone /\ [][ScopeNext]_<<scopeVars, faults>>

\* Every request has its thread, and git and the agent succeed or fail in the end.
FairScopeSpec == ScopeSpec /\ WF_<<scopeVars, faults>>(ScopeStep)

-----------------------------------------------------------------------------
(***************************************************************************)
(* Properties.                                                             *)
(***************************************************************************)

\* Once no request is under way the session says so: it is ready or in error,
\* whichever request stored it last; and it names the agent that gave the last
\* whole answer, so that a restarted service resumes the conversation.  It says
\* otherwise only as long as nothing was stored since a question was closed, or a
\* request cut by a crash, before it had stored its status, or the agent of the
\* answer that it had just sent; and of the agent also when requests that overlapped
\* have overwritten each other's copies.
SessionSettles ==
  Working = {} /\ session # NoSession =>
    /\ session.status \in {"cloning", "thinking"} => "status" \in cutOff
    /\ session.agent = talked \/ overlapped \/ "agent" \in cutOff

\* Whoever waits for the lock gets his turn and his answer comes to an end,
\* whatever happens to the client that has the lock.
EveryAskEnds == \A a \in Ask : at[a] = "waiting" ~> at[a] \in Over
=============================================================================
