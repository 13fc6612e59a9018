------------------------- MODULE SupervisorSingleton -------------------------
(***************************************************************************)
(* The lock that keeps Supervisor processes apart: SUPERVISOR:SINGLETON    *)
(* and SUPERVISOR:ALIVE on Redis db1 (supervisor/redis_provision.py), the  *)
(* processes that claim them (supervisor/__main__.py), the heartbeat       *)
(* thread that keeps them (supervisor/stream_server.py) and the canvas     *)
(* that spawns a Supervisor when it sees none                              *)
(* (megadesk_contracts/supervisor_client.py).                              *)
(*                                                                         *)
(* One step is one Redis command, or the local work between two of them:   *)
(* acquire, refresh and release are each several commands, and other       *)
(* processes run in between.  A process is identified with its owner       *)
(* token, str(os.getpid()).  Times are abstracted: a key expires when its  *)
(* writer stopped refreshing it (or stalls, if Faults says so).            *)
(***************************************************************************)
EXTENDS Naturals, FiniteSets

CONSTANTS
  Proc,     \* Supervisor processes that may be started, each at most once
  NoOwner,  \* the value of a key that does not exist
  Faults    \* what the environment does besides starting processes

ASSUME NoOwnerAssumption == NoOwner \notin Proc

\* "crash": kill -9 or power loss.   "signal": SIGINT or SIGTERM.
\* "flush": DEV_FLUSH_MODE is on.   "redis": a Redis command fails, without effect.
\* "stall": a live process takes longer than a TTL or a join timeout allows.
ASSUME FaultsAssumption ==
  Faults \subseteq {"crash", "signal", "flush", "redis", "stall"}

Stalls == "stall" \in Faults
RedisFails == "redis" \in Faults

VARIABLES
  singleton,  \* value of SUPERVISOR:SINGLETON, or NoOwner
  alive,      \* does SUPERVISOR:ALIVE exist
  pc,         \* where the main thread of each process is
  joined,     \* has the process passed the joins of SupervisorServer.stop
  stop,       \* SupervisorServer._stop of each process
  hb,         \* where the heartbeat thread of each process is
  nodes,      \* processes that have a node process running
  listed      \* processes whose node has its RUNNINGNODES hash

vars == <<singleton, alive, pc, joined, stop, hb, nodes, listed>>

MainPc == {"idle", "boot", "reused", "acquire", "check", "refused", "steal",
           "held", "serving", "clear", "release", "delete", "join",
           "killAll", "exited", "crashed", "aborted", "failed"}

\* In "failed" the thread waits as in "wait", after a round that failed.
HbPc == {"off", "wait", "failed", "mark", "get", "nx"}

TypeOK ==
  /\ singleton \in Proc \cup {NoOwner}
  /\ alive \in BOOLEAN
  /\ pc \in [Proc -> MainPc]
  /\ joined \in [Proc -> BOOLEAN]
  /\ stop \in [Proc -> BOOLEAN]
  /\ hb \in [Proc -> HbPc]
  /\ nodes \in SUBSET Proc
  /\ listed \in SUBSET Proc

\* A process that holds, or believes it holds, the singleton.
Active(p) == pc[p] \in {"held", "serving"}

\* The heartbeat thread of p will refresh the keys it writes within their TTL;
\* while its rounds fail they may run out.
Beating(p) == hb[p] \notin {"off", "failed"} /\ ~ stop[p]

goto(p, l) == pc' = [pc EXCEPT ![p] = l]
beat(p, l) == hb' = [hb EXCEPT ![p] = l]

Init ==
  /\ singleton = NoOwner
  /\ alive = FALSE
  /\ pc = [p \in Proc |-> "idle"]
  /\ joined = [p \in Proc |-> FALSE]
  /\ stop = [p \in Proc |-> FALSE]
  /\ hb = [p \in Proc |-> "off"]
  /\ nodes = {}
  /\ listed = {}

(***************************************************************************)
(* Starting: a canvas boots, or somebody runs `python -m supervisor`.      *)
(***************************************************************************)

\* FLUSHDB of db0 and db1.
Flushed == singleton' = NoOwner /\ alive' = FALSE /\ listed' = {}

\* A canvas boots; with DEV_FLUSH_MODE it first empties both live databases.
CanvasBoot(p) ==
  /\ pc[p] = "idle"
  /\ goto(p, "boot")
  /\ \/ UNCHANGED <<singleton, alive, listed>>
     \/ "flush" \in Faults /\ Flushed
  /\ UNCHANGED <<joined, stop, hb, nodes>>

\* backend_ok and is_supervisor_alive: an EXISTS that fails counts as "not alive".
LooksAlive == IF RedisFails THEN {alive, FALSE} ELSE {alive}

\* ensure_supervisor_running: reuse a Supervisor that looks alive, else spawn.
CanvasEnsure(p) ==
  /\ pc[p] = "boot"
  /\ \E up \in LooksAlive : goto(p, IF up THEN "reused" ELSE "acquire")
  /\ UNCHANGED <<singleton, alive, joined, stop, hb, nodes, listed>>

\* `python -m supervisor` from a shell asks nobody first.
StartByHand(p) ==
  /\ pc[p] = "idle"
  /\ goto(p, "acquire")
  /\ UNCHANGED <<singleton, alive, joined, stop, hb, nodes, listed>>

(***************************************************************************)
(* acquire_supervisor_singleton: SET NX, then EXISTS ALIVE, then SET.      *)
(***************************************************************************)

AcquireNx(p) ==
  /\ pc[p] = "acquire"
  /\ IF singleton = NoOwner
       THEN singleton' = p /\ goto(p, "held")
       ELSE goto(p, "check") /\ UNCHANGED singleton
  /\ UNCHANGED <<alive, joined, stop, hb, nodes, listed>>

AcquireCheck(p) ==
  /\ pc[p] = "check"
  /\ \E up \in LooksAlive : goto(p, IF up THEN "refused" ELSE "steal")
  /\ UNCHANGED <<singleton, alive, joined, stop, hb, nodes, listed>>

Steal(p) ==
  /\ pc[p] = "steal"
  /\ singleton' = p
  /\ goto(p, "held")
  /\ UNCHANGED <<alive, joined, stop, hb, nodes, listed>>

\* ExecutionEngine is built, then SupervisorServer.start marks ALIVE and
\* starts the heartbeat thread.
ServerStart(p) ==
  /\ pc[p] = "held"
  /\ alive' = TRUE
  /\ beat(p, "wait")
  /\ goto(p, "serving")
  /\ UNCHANGED <<singleton, joined, stop, nodes, listed>>

\* main() catches no Redis error past provisioning, and installs its handlers
\* last: a SET that raises ends the process before it has the lock; a group or
\* ALIVE that cannot be written ends it with the lock, which nobody releases.
StartFails(p) ==
  /\ RedisFails
  /\ \/ pc[p] \in {"acquire", "steal"} /\ goto(p, "aborted")
     \/ pc[p] = "held" /\ goto(p, "failed")
  /\ UNCHANGED <<singleton, alive, joined, stop, hb, nodes, listed>>

\* The listener thread launches a node.  It finishes the batch it has read
\* even after _stop is set; SupervisorServer.stop joins it for 3 seconds.
LaunchNode(p) ==
  /\ pc[p] \in {"serving", "clear", "release", "delete", "join", "killAll"}
  /\ joined[p] => Stalls
  /\ p \notin nodes
  /\ nodes' = nodes \cup {p}
  /\ listed' = listed \cup {p}
  /\ UNCHANGED <<singleton, alive, pc, joined, stop, hb>>

(***************************************************************************)
(* The heartbeat thread: mark ALIVE, then refresh the singleton.           *)
(***************************************************************************)

HbLoop(p) ==
  /\ hb[p] \in {"wait", "failed"}
  /\ beat(p, IF stop[p] THEN "off" ELSE "mark")
  /\ UNCHANGED <<singleton, alive, pc, joined, stop, nodes, listed>>

HbMark(p) ==
  /\ hb[p] = "mark"
  /\ alive' = TRUE
  /\ beat(p, "get")
  /\ UNCHANGED <<singleton, pc, joined, stop, nodes, listed>>

\* Changed form for the checks: the heartbeat thread ends without setting _stop.
LoseSingletonSilently(p) == beat(p, "off") /\ UNCHANGED stop

\* refresh_supervisor_singleton returned False: set _stop and end the thread.
LoseSingleton(p) ==
  /\ stop' = [stop EXCEPT ![p] = TRUE]
  /\ beat(p, "off")

\* Changed form for the checks: a missing key counts as a lost one.
HbGetStrict(p) ==
  /\ hb[p] = "get"
  /\ IF singleton = p THEN beat(p, "wait") /\ UNCHANGED stop
                      ELSE LoseSingleton(p)
  /\ UNCHANGED <<singleton, alive, pc, joined, nodes, listed>>

HbGet(p) ==
  /\ hb[p] = "get"
  /\ \/ singleton = p /\ beat(p, "wait") /\ UNCHANGED stop
     \/ singleton = NoOwner /\ beat(p, "nx") /\ UNCHANGED stop
     \/ singleton \notin {p, NoOwner} /\ LoseSingleton(p)
  /\ UNCHANGED <<singleton, alive, pc, joined, nodes, listed>>

HbNx(p) ==
  /\ hb[p] = "nx"
  /\ IF singleton = NoOwner
       THEN singleton' = p /\ beat(p, "wait") /\ UNCHANGED stop
       ELSE LoseSingleton(p) /\ UNCHANGED singleton
  /\ UNCHANGED <<alive, pc, joined, nodes, listed>>

\* An exception is logged and the loop goes on.
HbFails(p) ==
  /\ RedisFails
  /\ hb[p] \in {"mark", "get", "nx"}
  /\ beat(p, "failed")
  /\ UNCHANGED <<singleton, alive, pc, joined, stop, nodes, listed>>

(***************************************************************************)
(* Shutting down: SupervisorServer.stop, ExecutionEngine.kill_all, then    *)
(* ALIVE and the singleton are cleared a second time.                      *)
(***************************************************************************)

BeginShutdown(p) ==
  /\ pc[p] = "serving"
  /\ stop' = [stop EXCEPT ![p] = TRUE]
  /\ goto(p, "clear")
  /\ UNCHANGED <<singleton, alive, joined, hb, nodes, listed>>

\* The main loop sees that the heartbeat thread gave up.
NoticeLoss(p) == stop[p] /\ BeginShutdown(p)

Signal(p) == "signal" \in Faults /\ BeginShutdown(p)

\* Before its handlers are installed a signal ends the process on the spot.
SignalEarly(p) ==
  /\ "signal" \in Faults
  /\ pc[p] \in {"acquire", "check", "steal", "held"}
  /\ goto(p, "crashed")
  /\ UNCHANGED <<singleton, alive, joined, stop, hb, nodes, listed>>

ClearAlive(p) ==
  /\ pc[p] = "clear"
  /\ alive' = FALSE
  /\ goto(p, "release")
  /\ UNCHANGED <<singleton, joined, stop, hb, nodes, listed>>

\* What follows a release: the joins the first time, sys.exit the second
\* time, which ends the daemon threads with the process.
AfterRelease(p) ==
  IF joined[p] THEN goto(p, "exited") /\ beat(p, "off")
               ELSE goto(p, "join") /\ UNCHANGED hb

ReleaseGet(p) ==
  /\ pc[p] = "release"
  /\ IF singleton = p THEN goto(p, "delete") /\ UNCHANGED hb
                      ELSE AfterRelease(p)
  /\ UNCHANGED <<singleton, alive, joined, stop, nodes, listed>>

\* GET and DELETE are two commands: the key may be another's by now.
ReleaseDelete(p) ==
  /\ pc[p] = "delete"
  /\ singleton' = NoOwner
  /\ AfterRelease(p)
  /\ UNCHANGED <<alive, joined, stop, nodes, listed>>

\* Clearing and releasing swallow every Redis error.
CleanupFails(p) ==
  /\ RedisFails
  /\ \/ pc[p] = "clear" /\ goto(p, "release") /\ UNCHANGED hb
     \/ pc[p] \in {"release", "delete"} /\ AfterRelease(p)
  /\ UNCHANGED <<singleton, alive, joined, stop, nodes, listed>>

\* The joins end when the threads do, or time out.
Join(p) ==
  /\ pc[p] = "join"
  /\ hb[p] = "off" \/ Stalls
  /\ joined' = [joined EXCEPT ![p] = TRUE]
  /\ goto(p, "killAll")
  /\ UNCHANGED <<singleton, alive, stop, hb, nodes, listed>>

\* Changed form for the checks: the keys are not cleared again after kill_all.
KillAllThenExit(p) ==
  /\ pc[p] = "killAll"
  /\ nodes' = nodes \ {p}
  /\ listed' = {}
  /\ goto(p, "exited")
  /\ UNCHANGED <<singleton, alive, joined, stop, hb>>

\* kill_all stops the processes of this registry, then deletes every
\* RUNNINGNODES hash there is, whoever wrote it.
KillAll(p) ==
  /\ pc[p] = "killAll"
  /\ nodes' = nodes \ {p}
  /\ listed' = {}
  /\ goto(p, "clear")
  /\ UNCHANGED <<singleton, alive, joined, stop, hb>>

(***************************************************************************)
(* The environment.                                                        *)
(***************************************************************************)

Crash(p) ==
  /\ "crash" \in Faults
  /\ pc[p] \notin {"idle", "boot", "reused", "refused", "exited", "crashed",
                   "aborted", "failed"}
  /\ goto(p, "crashed")
  /\ beat(p, "off")
  /\ UNCHANGED <<singleton, alive, joined, stop, nodes, listed>>

\* ALIVE_TTL_SECONDS pass without a refresh.
AliveExpires ==
  /\ alive
  /\ Stalls \/ \A p \in Proc : ~ Beating(p)
  /\ alive' = FALSE
  /\ UNCHANGED <<singleton, pc, joined, stop, hb, nodes, listed>>

\* SINGLETON_TTL_SECONDS pass without a refresh.  The start between taking the
\* lock and the first beat is shorter than that, unless it stalls.
SingletonExpires ==
  /\ singleton # NoOwner
  /\ Stalls \/ ~ (Beating(singleton) \/ pc[singleton] = "held")
  /\ singleton' = NoOwner
  /\ UNCHANGED <<alive, pc, joined, stop, hb, nodes, listed>>

-----------------------------------------------------------------------------

Start(p) == CanvasBoot(p) \/ StartByHand(p)

MainThread(p) ==
  \/ CanvasEnsure(p)
  \/ AcquireNx(p) \/ AcquireCheck(p) \/ Steal(p) \/ ServerStart(p)
  \/ NoticeLoss(p) \/ ClearAlive(p) \/ ReleaseGet(p) \/ ReleaseDelete(p)
  \/ Join(p) \/ KillAll(p)

HeartbeatThread(p) == HbLoop(p) \/ HbMark(p) \/ HbGet(p) \/ HbNx(p)

Environment(p) ==
  \/ LaunchNode(p) \/ Signal(p) \/ SignalEarly(p) \/ Crash(p)
  \/ StartFails(p) \/ HbFails(p) \/ CleanupFails(p)

Next ==
  \/ \E p \in Proc :
       Start(p) \/ MainThread(p) \/ HeartbeatThread(p) \/ Environment(p)
  \/ AliveExpires
  \/ SingletonExpires

Spec == Init /\ [][Next]_vars

\* Threads of a live process, and of the canvas that spawns it, are scheduled;
\* nothing forces anybody to start a Supervisor, to signal it or to crash it,
\* or a key to expire.
Fairness ==
  \A p \in Proc : WF_vars(MainThread(p)) /\ WF_vars(HeartbeatThread(p))

\* Redis recovers from what makes heartbeats fail.
RedisRecovers == \A p \in Proc : <>[](hb[p] # "failed")

FairSpec == Spec /\ Fairness /\ RedisRecovers

(***************************************************************************)
(* What the lock is for.                                                   *)
(***************************************************************************)

\* A process that is not, or no longer, a Supervisor, and did not die as one.
Gone(p) == pc[p] \in {"idle", "boot", "reused", "acquire", "check", "steal",
                      "refused", "aborted", "exited"}

\* An orderly shutdown leaves nothing behind, although the heartbeat thread
\* may mark ALIVE and take the singleton again after SupervisorServer.stop has
\* cleared them, and the listener may still launch: no process that is gone
\* owns the singleton or a running node, and when all are gone there is no
\* ALIVE key and no RUNNINGNODES hash.
NothingLeftBehind ==
  /\ \A p \in Proc : Gone(p) => singleton # p /\ p \notin nodes
  /\ (\A p \in Proc : Gone(p)) => ~ alive /\ listed = {}

\* When nobody is signalled or crashes, Supervisors never drive each other all
\* out, although a failing EXISTS lets one steal from another that is alive: as
\* long as one got past the singleton, there is a holder that has not been told
\* to stop, and no other process has the key.  The one exception is a process
\* that takes the lock and then fails to start: whoever it stole from stops.
SurvivorHoldsLock ==
  (\E p \in Proc : ~ Gone(p) \/ pc[p] = "exited") =>
    \/ \E q \in Proc : Active(q) /\ ~ stop[q] /\ singleton \in {q, NoOwner}
    \/ \E q \in Proc : pc[q] = "failed"

\* However many were started or stole the lock from each other, in the end at
\* most one Supervisor keeps consuming the request streams.
SettlesToOne ==
  <>[](Cardinality({p \in Proc : pc[p] = "serving"}) <= 1)

\* A canvas that has booted ends up with a Supervisor that keeps serving,
\* whether it reused one or spawned its own; unless a Redis error ended the one
\* it spawned, or one that held the lock, while it was starting.
BootedIsServed ==
  \A p \in Proc :
    pc[p] = "boot" ~> [](\/ \E q \in Proc : pc[q] \in {"serving", "failed"}
                        \/ pc[p] = "aborted")

(***************************************************************************)
(* What its comments say, and the code does not do.                        *)
(***************************************************************************)

\* kill_all clears "exited Redis-only hashes": a Supervisor in service has a
\* hash for each of its running nodes.
ServedNodesAreListed ==
  \A p \in Proc : pc[p] = "serving" /\ p \in nodes => p \in listed

=============================================================================
