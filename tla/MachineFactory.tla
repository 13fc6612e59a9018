---------------------------- MODULE MachineFactory ----------------------------
(***************************************************************************)
(* Work orders that become sandboxes on this machine.  The manager is one  *)
(* thread (MachineFactoryManager/manager.py, run_forever) that turns every *)
(* WORKORDER signal into a registry hash, a Redis sidecar and a container  *)
(* (runtime.py, pool.py), and looks after the containers that die.  Each   *)
(* container runs one AgentHandler (AgentHandler/handler.py and the nodes  *)
(* that open and close its graph) that reports its own outcome.  Manager   *)
(* and sandboxes share the AGENTHANDLER hashes and the FINISHED streams.   *)
(*                                                                         *)
(* An order starts at most one run, so an order also names the run, its    *)
(* guid, its container and its sidecar.  A step is one Redis command or    *)
(* one docker command with the local work that follows it.                 *)
(***************************************************************************)
EXTENDS Naturals, Sequences, FiniteSets

CONSTANTS
  Order,       \* the orders that may be published, each once
  NoOrder,     \* the manager is between two orders
  Faults,      \* what may go wrong
  MaxMishaps   \* bound on how often something goes wrong

ASSUME OrderAssumption == NoOrder \notin Order

\* "die": a container dies, or its process raises.  "crash": the manager is
\* killed.  "redis": a Redis command fails.  "docker": a docker command that is
\* run with check=False fails.  "launch": a sandbox does not start.
\* "cancel": a caller of the manager cancels a run.  "trim": an entry is deleted
\* from the WORKORDER stream.
ASSUME FaultsAssumption ==
  /\ Faults \subseteq {"die", "crash", "redis", "docker", "launch", "cancel", "trim"}
  /\ MaxMishaps \in Nat

VARIABLES
  order,     \* where each order is on its way to the manager
  hash,      \* status field of AGENTHANDLER:<guid>
  finished,  \* the statuses FINISHED:<repo> holds for each order
  box,       \* the container of each run, and where its AgentHandler is
  result,    \* the status its teardown settled on
  sidecar,   \* runs whose Redis sidecar is up
  missing,   \* _missing_since, and whether the grace has passed
  pc, cur,   \* where the manager is, and with which order
  todo,      \* runs or sidecars that this poll has yet to look at
  back,      \* where _finish returns to
  mishaps,   \* how often something has gone wrong
  cut,       \* history: runs that lost their reporter between XADD and DEL
  missed     \* history: runs whose cancel did not find the container

boxVars == <<box, result>>
history == <<cut, missed>>
mgrVars == <<missing, pc, cur, todo, back>>
vars == <<order, hash, finished, boxVars, sidecar, mgrVars, mishaps, history>>

Status == {"finished", "error"}

\* "ghost" is a hash with a status and no ticket_id: parse_agent_handler
\* raises ValueError on it.
HashState == {"none", "ghost", "queued", "running", "cancelled"} \cup Status
Parses(h) == h \notin {"none", "ghost"}

\* HSET of the status alone makes a hash without a ticket_id where there was none.
WithStatus(h, status) == IF Parses(h) THEN status ELSE "ghost"

BoxState == {"none", "boot", "work", "settle", "publish", "delete", "exit", "gone"}
Up(o) == box[o] \notin {"none", "gone"}

ManagerPc == {"down", "idle", "orders", "write", "sidecar", "container", "mark",
              "finishSet", "finishAdd", "finishDel", "due", "runs", "reap",
              "list", "sidecars", "cancel"}

TypeOK ==
  /\ order \in [Order -> {"new", "dropped", "inbox", "taken", "stored", "trimmed", "lost"}]
  /\ hash \in [Order -> HashState]
  /\ finished \in [Order -> Seq(Status)]
  /\ box \in [Order -> BoxState]
  /\ result \in [Order -> Status \cup {"none"}]
  /\ sidecar \subseteq Order
  /\ missing \in [Order -> {"no", "noticed", "due"}]
  /\ pc \in ManagerPc
  /\ cur \in Order \cup {NoOrder}
  /\ (cur = NoOrder) <=>
       pc \in {"down", "idle", "orders", "due", "runs", "list", "sidecars"}
  /\ todo \subseteq Order
  /\ back \in {"orders", "runs"}
  /\ mishaps \in 0..MaxMishaps
  /\ cut \subseteq Order /\ missed \subseteq Order

Init ==
  /\ order = [o \in Order |-> "new"]
  /\ hash = [o \in Order |-> "none"]
  /\ finished = [o \in Order |-> <<>>]
  /\ box = [o \in Order |-> "none"] /\ result = [o \in Order |-> "none"]
  /\ sidecar = {}
  /\ missing = [o \in Order |-> "no"]
  /\ pc = "down" /\ cur = NoOrder /\ todo = {} /\ back = "orders"
  /\ mishaps = 0
  /\ cut = {} /\ missed = {}

Mishap(kind) ==
  /\ kind \in Faults
  /\ mishaps < MaxMishaps
  /\ mishaps' = mishaps + 1

At(o, place) == pc' = place /\ cur' = o
Between(place) == At(NoOrder, place)

(***************************************************************************)
(* Orders.                                                                 *)
(***************************************************************************)

\* A publish that nobody is subscribed to is dropped.
Publish(o) ==
  /\ order[o] = "new"
  /\ order' = [order EXCEPT ![o] = IF pc = "down" THEN "dropped" ELSE "inbox"]
  /\ UNCHANGED <<hash, finished, boxVars, sidecar, mgrVars, mishaps, history>>

Listen ==
  /\ pc = "down"
  /\ Between("idle")
  /\ UNCHANGED <<order, hash, finished, boxVars, sidecar, missing, todo, back, mishaps, history>>

Drain ==
  /\ pc = "idle"
  /\ order' = [o \in Order |-> IF order[o] = "inbox" THEN "taken" ELSE order[o]]
  /\ Between("orders")
  /\ UNCHANGED <<hash, finished, boxVars, sidecar, missing, todo, back, mishaps, history>>

StoreOrder(o) ==
  /\ pc = "orders" /\ order[o] = "taken"
  /\ order' = [order EXCEPT ![o] = "stored"]
  /\ At(o, "write")
  /\ UNCHANGED <<hash, finished, boxVars, sidecar, missing, todo, back, mishaps, history>>

\* An order that parse_workorder rejects stays on the stream for reference only.
StoreUnusable(o) ==
  /\ pc = "orders" /\ order[o] = "taken"
  /\ order' = [order EXCEPT ![o] = "stored"]
  /\ UNCHANGED <<hash, finished, boxVars, sidecar, mgrVars, mishaps, history>>

WriteHash ==
  /\ pc = "write"
  /\ hash' = [hash EXCEPT ![cur] = "queued"]
  /\ At(cur, "sidecar")
  /\ UNCHANGED <<order, finished, boxVars, sidecar, missing, todo, back, mishaps, history>>

StartSidecar ==
  /\ pc = "sidecar"
  /\ sidecar' = sidecar \cup {cur}
  /\ At(cur, "container")
  /\ UNCHANGED <<order, hash, finished, boxVars, missing, todo, back, mishaps, history>>

StartContainer ==
  /\ pc = "container"
  /\ box' = [box EXCEPT ![cur] = "boot"]
  /\ At(cur, "mark")
  /\ UNCHANGED <<order, hash, finished, result, sidecar, missing, todo, back, mishaps, history>>

\* launch stops the sidecar it started; one that docker does not find is left to
\* poll_sidecars.
LaunchFails ==
  /\ pc \in {"sidecar", "container"}
  /\ \/ Mishap("launch") /\ sidecar' = sidecar \ {cur}
     \/ /\ {"launch", "docker"} \subseteq Faults /\ cur \in sidecar
        /\ mishaps + 2 <= MaxMishaps /\ mishaps' = mishaps + 2
        /\ UNCHANGED sidecar
  /\ back' = "orders"
  /\ At(cur, "finishSet")
  /\ UNCHANGED <<order, hash, finished, boxVars, missing, todo, history>>

\* Changed form for the checks: the loop does not move on.
MarkRunningStays ==
  /\ pc = "mark"
  /\ hash' = [hash EXCEPT ![cur] = WithStatus(@, "running")]
  /\ At(cur, "orders")
  /\ UNCHANGED <<order, finished, boxVars, sidecar, missing, todo, back, mishaps, history>>

MarkRunning ==
  /\ pc = "mark"
  /\ hash' = [hash EXCEPT ![cur] = WithStatus(@, "running")]
  /\ Between("orders")
  /\ UNCHANGED <<order, finished, boxVars, sidecar, missing, todo, back, mishaps, history>>

Trim(o) ==
  /\ order[o] = "stored"
  /\ Mishap("trim")
  /\ order' = [order EXCEPT ![o] = "trimmed"]
  /\ UNCHANGED <<hash, finished, boxVars, sidecar, mgrVars, history>>

(***************************************************************************)
(* Reaping: poll_runs every RUN_POLL_INTERVAL_SEC, poll_sidecars in every  *)
(* pass.                                                                   *)
(***************************************************************************)

OrdersDone ==
  /\ pc = "orders" /\ \A o \in Order : order[o] # "taken"
  /\ Between("due")
  /\ UNCHANGED <<order, hash, finished, boxVars, sidecar, missing, todo, back, mishaps, history>>

RunsNotDue ==
  /\ pc = "due"
  /\ Between("list")
  /\ UNCHANGED <<order, hash, finished, boxVars, sidecar, missing, todo, back, mishaps, history>>

\* live_runs skips the hashes it cannot parse.  _missing_since forgets the runs
\* that are not live (at the end of poll_runs, which nothing tells apart).
RunsDue ==
  LET live == {o \in Order : Parses(hash[o])}
  IN  /\ pc = "due"
      /\ todo' = live
      /\ missing' = [o \in Order |-> IF o \in live THEN missing[o] ELSE "no"]
      /\ Between("runs")
      /\ UNCHANGED <<order, hash, finished, boxVars, sidecar, back, mishaps, history>>

\* What runtime.poll says: a docker command that fails looks like a container
\* that is gone.
SeenRunning(o) == Up(o) /\ mishaps' = mishaps
SeenGone(o) == IF Up(o) THEN Mishap("docker") ELSE mishaps' = mishaps

\* Changed form for the checks: the first answer that misses the container is believed.
PollRunNoGrace(o) ==
  /\ pc = "runs" /\ o \in todo
  /\ todo' = todo \ {o}
  /\ \/ SeenRunning(o) /\ Between("runs")
     \/ SeenGone(o) /\ At(o, "reap")
  /\ UNCHANGED <<order, hash, finished, boxVars, sidecar, missing, back, history>>

PollRun(o) ==
  /\ pc = "runs" /\ o \in todo
  /\ todo' = todo \ {o}
  /\ \/ /\ SeenRunning(o)
        /\ missing' = [missing EXCEPT ![o] = "no"]
        /\ Between("runs")
     \/ /\ SeenGone(o)
        /\ missing[o] # "due"
        /\ missing' = [missing EXCEPT ![o] = "noticed"]
        /\ Between("runs")
     \/ /\ SeenGone(o)
        /\ missing[o] = "due"
        /\ At(o, "reap")
        /\ UNCHANGED missing
  /\ UNCHANGED <<order, hash, finished, boxVars, sidecar, back, history>>

\* orphan_grace passes, seen from the time at which poll_runs starts.  A run that
\* is up gets a true answer before that: an outage of docker and a pass of the
\* loop are assumed to be shorter.
PollingRuns ==
  pc \in {"runs", "reap"} \/ (pc \in {"finishSet", "finishAdd", "finishDel"} /\ back = "runs")

GraceEnds(o) ==
  /\ missing[o] = "noticed" /\ ~ Up(o) /\ ~ PollingRuns
  /\ missing' = [missing EXCEPT ![o] = "due"]
  /\ UNCHANGED <<order, hash, finished, boxVars, sidecar, pc, cur, todo, back, mishaps, history>>

\* stop_redis_sidecar finds no container when docker fails.
Released(o) ==
  \/ sidecar' = sidecar \ {o} /\ mishaps' = mishaps
  \/ o \in sidecar /\ sidecar' = sidecar /\ Mishap("docker")

\* A run whose order is no longer on the stream is dropped without a report.
Reap ==
  /\ pc = "reap"
  /\ Released(cur)
  /\ IF order[cur] = "trimmed"
     THEN /\ hash' = [hash EXCEPT ![cur] = "none"]
          /\ missing' = [missing EXCEPT ![cur] = "no"]
          /\ Between("runs")
          /\ UNCHANGED back
     ELSE /\ At(cur, "finishSet")
          /\ back' = "runs"
          /\ UNCHANGED <<hash, missing>>
  /\ UNCHANGED <<order, finished, boxVars, todo, history>>

\* _finish, for a launch that failed and for a run that is reaped.
FinishSet ==
  /\ pc = "finishSet"
  /\ hash' = [hash EXCEPT ![cur] = "error"]
  /\ At(cur, "finishAdd")
  /\ UNCHANGED <<order, finished, boxVars, sidecar, missing, todo, back, mishaps, history>>

FinishAdd ==
  /\ pc = "finishAdd"
  /\ finished' = [finished EXCEPT ![cur] = Append(@, "error")]
  /\ At(cur, "finishDel")
  /\ UNCHANGED <<order, hash, boxVars, sidecar, missing, todo, back, mishaps, history>>

\* Changed form for the checks: the hash stays.
FinishDelKeeps ==
  /\ pc = "finishDel"
  /\ missing' = [missing EXCEPT ![cur] = "no"]
  /\ Between(back)
  /\ UNCHANGED <<order, hash, finished, boxVars, sidecar, todo, back, mishaps, history>>

FinishDel ==
  /\ pc = "finishDel"
  /\ hash' = [hash EXCEPT ![cur] = "none"]
  /\ missing' = [missing EXCEPT ![cur] = "no"]
  /\ Between(back)
  /\ UNCHANGED <<order, finished, boxVars, sidecar, todo, back, mishaps, history>>

RunsDone ==
  /\ pc = "runs" /\ todo = {}
  /\ Between("list")
  /\ UNCHANGED <<order, hash, finished, boxVars, sidecar, missing, todo, back, mishaps, history>>

\* Changed form for the checks: the registry is asked instead of docker.
ListSidecarsOfRegistry ==
  /\ pc = "list"
  /\ todo' = {o \in sidecar : Parses(hash[o])}
  /\ Between("sidecars")
  /\ UNCHANGED <<order, hash, finished, boxVars, sidecar, missing, back, mishaps, history>>

ListSidecars ==
  /\ pc = "list"
  /\ \/ todo' = sidecar /\ mishaps' = mishaps
     \/ sidecar # {} /\ todo' = {} /\ Mishap("docker")
  /\ Between("sidecars")
  /\ UNCHANGED <<order, hash, finished, boxVars, sidecar, missing, back, history>>

\* Changed form for the checks: a run without a hash needs no sidecar.
PollSidecarOfRegistry(o) ==
  /\ pc = "sidecars" /\ o \in todo
  /\ todo' = todo \ {o}
  /\ sidecar' = IF Parses(hash[o]) THEN sidecar ELSE sidecar \ {o}
  /\ UNCHANGED <<order, hash, finished, boxVars, missing, pc, cur, back, mishaps, history>>

PollSidecar(o) ==
  /\ pc = "sidecars" /\ o \in todo
  /\ todo' = todo \ {o}
  /\ \/ SeenRunning(o) /\ sidecar' = sidecar
     \/ Up(o) /\ Mishap("docker") /\ sidecar' = sidecar \ {o}
     \/ ~ Up(o) /\ Released(o)
  /\ UNCHANGED <<order, hash, finished, boxVars, missing, pc, cur, back, history>>

SidecarsDone ==
  /\ pc = "sidecars" /\ todo = {}
  /\ Between("idle")
  /\ UNCHANGED <<order, hash, finished, boxVars, sidecar, missing, todo, back, mishaps, history>>

(***************************************************************************)
(* cancel: read the hash, remove the container and the sidecar, mark the   *)
(* hash; the next poll_runs reports the run.                               *)
(***************************************************************************)

CancelStop(o) ==
  /\ pc = "idle" /\ Parses(hash[o])
  /\ "cancel" \in Faults
  /\ \/ /\ mishaps < MaxMishaps /\ mishaps' = mishaps + 1
        /\ box' = [box EXCEPT ![o] = IF Up(o) THEN "gone" ELSE @]
        /\ cut' = IF box[o] = "delete" THEN cut \cup {o} ELSE cut
        /\ UNCHANGED missed
     \/ /\ "docker" \in Faults /\ Up(o)
        /\ mishaps + 2 <= MaxMishaps /\ mishaps' = mishaps + 2
        /\ missed' = missed \cup {o}
        /\ UNCHANGED <<box, cut>>
  /\ sidecar' = sidecar \ {o}
  /\ At(o, "cancel")
  /\ UNCHANGED <<order, hash, finished, result, missing, todo, back>>

CancelMark ==
  /\ pc = "cancel"
  /\ hash' = [hash EXCEPT ![cur] = WithStatus(@, "cancelled")]
  /\ missing' = [missing EXCEPT ![cur] = "due"]
  /\ Between("idle")
  /\ UNCHANGED <<order, finished, boxVars, sidecar, todo, back, mishaps, history>>

(***************************************************************************)
(* The manager loses Redis or its life.                                    *)
(***************************************************************************)

\* Of the orders taken from the inbox, those not yet on the stream are lost when
\* poll_orders is left by an exception.
TakenAreLost == [o \in Order |-> IF order[o] = "taken" THEN "lost" ELSE order[o]]

\* handle_workorder swallows the exception of one order; everything else goes to
\* the loop of run_forever.  A reap has let go of the sidecar when its order cannot
\* be read or its hash cannot be deleted.
RedisFails ==
  /\ Mishap("redis")
  /\ IF pc \in {"write", "mark"} \/ (pc \in {"finishSet", "finishAdd", "finishDel"} /\ back = "orders")
     THEN Between("orders") /\ UNCHANGED <<order, todo>>
     ELSE /\ \/ pc = "orders" /\ \E o \in Order : order[o] = "taken"
             \/ pc \in {"due", "reap", "finishSet", "finishAdd", "finishDel"}
          /\ Between("idle")
          /\ order' = TakenAreLost
          /\ todo' = {}
  /\ cut' = IF pc = "finishDel" THEN cut \cup {cur} ELSE cut
  /\ sidecar' = IF pc = "reap" THEN sidecar \ {cur} ELSE sidecar
  /\ UNCHANGED <<hash, finished, boxVars, missing, back, missed>>

ManagerDies ==
  /\ pc # "down"
  /\ Mishap("crash")
  /\ order' = [o \in Order |-> IF order[o] = "inbox" THEN "lost" ELSE TakenAreLost[o]]
  /\ missing' = [o \in Order |-> "no"]
  /\ todo' = {}
  /\ cut' = IF pc = "finishDel" THEN cut \cup {cur} ELSE cut
  /\ Between("down")
  /\ UNCHANGED <<hash, finished, boxVars, sidecar, back, missed>>

(***************************************************************************)
(* The sandbox.                                                            *)
(***************************************************************************)

\* startup_node: without a hash that parses and the order it names there is no
\* work, and the run ends in an error.
Startable(o) == Parses(hash[o]) /\ order[o] = "stored"

BoxStarts(o) ==
  /\ box[o] = "boot"
  /\ \/ /\ Startable(o)
        /\ hash' = [hash EXCEPT ![o] = "running"]
        /\ box' = [box EXCEPT ![o] = "work"]
        /\ UNCHANGED result
     \/ /\ ~ Startable(o)
        /\ box' = [box EXCEPT ![o] = "settle"]
        /\ result' = [result EXCEPT ![o] = "error"]
        /\ UNCHANGED hash
  /\ UNCHANGED <<order, finished, sidecar, mgrVars, mishaps, history>>

BoxWorks(o, status) ==
  /\ box[o] = "work"
  /\ box' = [box EXCEPT ![o] = "settle"]
  /\ result' = [result EXCEPT ![o] = status]
  /\ UNCHANGED <<order, hash, finished, sidecar, mgrVars, mishaps, history>>

\* teardown_node: the status, the FINISHED entry, the hash.
BoxSettles(o) ==
  /\ box[o] = "settle"
  /\ hash' = [hash EXCEPT ![o] = result[o]]
  /\ box' = [box EXCEPT ![o] = "publish"]
  /\ UNCHANGED <<order, finished, result, sidecar, mgrVars, mishaps, history>>

BoxPublishes(o) ==
  /\ box[o] = "publish"
  /\ finished' = [finished EXCEPT ![o] = Append(@, result[o])]
  /\ box' = [box EXCEPT ![o] = "delete"]
  /\ UNCHANGED <<order, hash, result, sidecar, mgrVars, mishaps, history>>

BoxDeletes(o) ==
  /\ box[o] = "delete"
  /\ hash' = [hash EXCEPT ![o] = "none"]
  /\ box' = [box EXCEPT ![o] = "exit"]
  /\ UNCHANGED <<order, finished, result, sidecar, mgrVars, mishaps, history>>

BoxExits(o) ==
  /\ box[o] = "exit"
  /\ box' = [box EXCEPT ![o] = "gone"]
  /\ UNCHANGED <<order, hash, finished, result, sidecar, mgrVars, mishaps, history>>

\* Changed form for the checks: teardown deletes the hash although FINISHED was not
\* published.
BoxRedisFailsAndDeletes(o) ==
  /\ Mishap("redis")
  /\ box[o] = "publish"
  /\ box' = [box EXCEPT ![o] = "exit"]
  /\ hash' = [hash EXCEPT ![o] = "none"]
  /\ UNCHANGED <<order, finished, result, sidecar, mgrVars, history>>

\* startup_node turns a Redis error into an error of the run.  teardown_node logs
\* it and goes on: what it could not write is left to the reaper.
BoxRedisFails(o) ==
  /\ Mishap("redis")
  /\ \/ /\ box[o] = "boot"
        /\ box' = [box EXCEPT ![o] = "settle"]
        /\ result' = [result EXCEPT ![o] = "error"]
     \/ /\ box[o] \in {"settle", "publish", "delete"}
        /\ box' = [box EXCEPT ![o] = IF @ = "settle" THEN "publish" ELSE "exit"]
        /\ UNCHANGED result
  /\ cut' = IF box[o] = "delete" THEN cut \cup {o} ELSE cut
  /\ UNCHANGED <<order, hash, finished, sidecar, mgrVars, missed>>

BoxDies(o) ==
  /\ Up(o)
  /\ Mishap("die")
  /\ box' = [box EXCEPT ![o] = "gone"]
  /\ cut' = IF box[o] = "delete" THEN cut \cup {o} ELSE cut
  /\ UNCHANGED <<order, hash, finished, result, sidecar, mgrVars, missed>>

-----------------------------------------------------------------------------
\* What the manager's loop does by itself, RunsNotDue excepted.
ManagerStep ==
  \/ Listen \/ Drain \/ WriteHash \/ StartSidecar \/ StartContainer \/ MarkRunning
  \/ OrdersDone \/ RunsNotDue \/ RunsDue \/ RunsDone \/ Reap
  \/ FinishSet \/ FinishAdd \/ FinishDel
  \/ ListSidecars \/ SidecarsDone \/ CancelMark
  \/ \E o \in Order : StoreOrder(o) \/ StoreUnusable(o) \/ PollRun(o) \/ PollSidecar(o)

BoxStep(o) ==
  \/ BoxStarts(o) \/ BoxSettles(o) \/ BoxPublishes(o) \/ BoxDeletes(o) \/ BoxExits(o)
  \/ \E status \in Status : BoxWorks(o, status)

Mischance ==
  \/ LaunchFails \/ RedisFails \/ ManagerDies
  \/ \E o \in Order : Trim(o) \/ CancelStop(o) \/ BoxRedisFails(o) \/ BoxDies(o)

Next ==
  \/ ManagerStep \/ Mischance
  \/ \E o \in Order : Publish(o) \/ BoxStep(o) \/ GraceEnds(o)

Spec == Init /\ [][Next]_vars

\* The manager is one thread that is never left waiting, the 10 seconds between
\* two poll_runs pass, a node that died is launched again, an agent ends its
\* work, and time passes.
Fairness ==
  /\ WF_vars(ManagerStep) /\ SF_vars(RunsDue)
  /\ \A o \in Order : WF_vars(BoxStep(o)) /\ SF_vars(GraceEnds(o))

FairSpec == Spec /\ Fairness

(***************************************************************************)
(* Properties.                                                             *)
(***************************************************************************)

\* An order is reported once, whether its sandbox or the manager reports it: a
\* second FINISHED entry costs a reporter that was stopped after its XADD and
\* before its DEL, or a cancel that missed a container that was up.
ReportedOnce ==
  \A o \in Order : Len(finished[o]) > 1 => o \in cut \cup missed

\* Nobody waits forever: an order in the registry is reported, unless its entry
\* is deleted from the stream.
EveryRunReported ==
  \A o \in Order : Parses(hash[o]) ~> (finished[o] # <<>> \/ order[o] = "trimmed")

\* The sidecar of a sandbox that is gone is removed.
SidecarsReleased ==
  \A o \in Order : (o \in sidecar /\ ~ Up(o)) ~> (o \notin sidecar \/ Up(o))

\* A sandbox that is up has its Redis.
SandboxHasRedis ==
  \A o \in Order : Up(o) => o \in sidecar

\* Every hash names the order of its run, as the registry's fields require.
HashNamesOrder ==
  \A o \in Order : hash[o] # "ghost"

\* Every order keeps the contract of one run, seen from the registry and the
\* stream: hash, container and FINISHED entries tell one story.
Run(o) == INSTANCE SandboxRun WITH
  open <- Parses(hash[o]), up <- Up(o), reports <- finished[o]
KeepsContract ==
  /\ \A o \in Order : Run(o)!ContractInit
  /\ [][\A o \in Order : o \in missed \/ [Run(o)!ContractNext]_(Run(o)!contract)]_<<hash, box, finished>>
=============================================================================
