----------------------------- MODULE NodeLifecycle -----------------------------
(***************************************************************************)
(* The life of the node processes one Supervisor manages: requests on the  *)
(* LAUNCHREQUEST and KILLREQUEST streams, the listener and the reaper      *)
(* threads of the Supervisor (supervisor/stream_server.py) working on one  *)
(* in-memory registry and on the RUNNINGNODES hashes (supervisor/          *)
(* engine.py, process_registry.py), the heartbeat and the kill switch in   *)
(* every node (megadesk_contracts/node_runtime.py) and the clients that    *)
(* ask (megadesk_contracts/supervisor_client.py).  Which process is the    *)
(* Supervisor is the matter of SupervisorSingleton.                        *)
(*                                                                         *)
(* A step is one Redis command or one access to the registry, with the     *)
(* local work that follows it.  A node is identified with its unique_id.   *)
(***************************************************************************)
EXTENDS Naturals, FiniteSets

CONSTANTS
  Node,          \* the unique_ids that may be launched, each once
  NoNode,        \* the listener or the reaper is between two nodes
  Misaddressed,  \* nodes whose KILLREQUEST names another node_endpoint
  Faults,        \* what may go wrong
  MaxRestarts    \* bound on the number of restarts of the Supervisor

ASSUME NoNodeAssumption == NoNode \notin Node

\* "crash": the Supervisor is killed.   "signal": it gets SIGINT or SIGTERM.
\* "redis": a Redis command fails.   "stall": a process is so slow that a TTL,
\* the launch grace or a join timeout passes.
ASSUME FaultsAssumption ==
  /\ Faults \subseteq {"crash", "signal", "redis", "stall"}
  /\ Misaddressed \subseteq Node
  /\ MaxRestarts \in Nat

Stalls == "stall" \in Faults
RedisFails == "redis" \in Faults

VARIABLES
  \* the node processes
  proc,      \* state of each process
  young,     \* running, with a launched_at less than HEARTBEAT_GRACE_SEC ago
  hb,        \* NODEHB:<uid> exists
  \* Redis keys of the Supervisor
  hash,      \* nodes with a RUNNINGNODES:<uid> hash
  flag,      \* nodes with NODE:SHUTDOWN:<uid>
  exits,     \* how many NODEEXIT entries each node has
  launchQ, killQ,    \* requests nobody has read
  \* the Supervisor process
  sup,       \* "up", or what it is doing instead
  restarts,  \* how often it has been started again
  registry,  \* ProcessRegistry._nodes
  launchB, killB,    \* requests of the batch the listener is working on
  lpc, cur,  \* where the listener is, and with which node
  rpc, rcur, \* where the reaper is, and with which node
  rset,      \* the entries or the keys the reaper has yet to look at
  inMemory   \* the ids reconcile_stale read from the registry

nodeVars == <<proc, young, hb>>
listenerVars == <<launchB, killB, lpc, cur>>
reaperVars == <<rpc, rcur, rset, inMemory>>
supVars == <<sup, restarts>>
vars == <<nodeVars, hash, flag, exits, launchQ, killQ, supVars, registry,
          listenerVars, reaperVars>>

\* A process ends by itself or is "killed" by the Supervisor; "failed" is a
\* launch whose Popen failed.
ProcState == {"none", "starting", "beating", "stopping", "ended", "killed", "failed"}
Running(n) == proc[n] \in {"starting", "beating", "stopping"}
Dead(n) == proc[n] \in {"ended", "killed"}

ListenerPc == {"idle", "batch", "hset", "flag", "stop", "terminate", "delete"}
ReaperPc == {"idle", "exits", "publish", "clear", "scan", "ids", "check", "drop"}

TypeOK ==
  /\ proc \in [Node -> ProcState]
  /\ young \in SUBSET Node /\ hb \in SUBSET Node
  /\ hash \in SUBSET Node /\ flag \in SUBSET Node
  /\ exits \in [Node -> Nat]
  /\ launchQ \in SUBSET Node /\ killQ \in SUBSET Node
  /\ sup \in {"ctor", "up", "stopping", "down"}
  /\ restarts \in 0 .. MaxRestarts
  /\ registry \in SUBSET Node
  /\ launchB \in SUBSET Node /\ killB \in SUBSET Node
  /\ lpc \in ListenerPc /\ cur \in Node \cup {NoNode}
  /\ rpc \in ReaperPc /\ rcur \in Node \cup {NoNode}
  /\ rset \in SUBSET Node /\ inMemory \in SUBSET Node

Init ==
  /\ proc = [n \in Node |-> "none"] /\ young = {} /\ hb = {}
  /\ hash = {} /\ flag = {} /\ exits = [n \in Node |-> 0]
  /\ launchQ = {} /\ killQ = {}
  /\ sup = "up" /\ restarts = 0 /\ registry = {}
  /\ launchB = {} /\ killB = {} /\ lpc = "idle" /\ cur = NoNode
  /\ rpc = "idle" /\ rcur = NoNode /\ rset = {} /\ inMemory = {}

become(n, s) == proc' = [proc EXCEPT ![n] = s]
listen(l, n) == lpc' = l /\ cur' = n
reap(l, n) == rpc' = l /\ rcur' = n

(***************************************************************************)
(* Clients: XADD to the request streams, and kill_all_running, which also  *)
(* sets the kill switch of every node it lists.                            *)
(***************************************************************************)

\* The unique_id is chosen here, although engine.launch does it later.
RequestLaunch(n) ==
  /\ proc[n] = "none" /\ n \notin launchQ \cup launchB
  /\ launchQ' = launchQ \cup {n}
  /\ UNCHANGED <<nodeVars, hash, flag, exits, killQ, supVars, registry,
                 listenerVars, reaperVars>>

\* list_running shows a node by its heartbeat or by its hash.
IsListed(n) == n \in hb \cup hash

RequestKill(n) ==
  /\ IsListed(n)
  /\ killQ' = killQ \cup {n}
  /\ UNCHANGED <<nodeVars, hash, flag, exits, launchQ, supVars, registry,
                 listenerVars, reaperVars>>

SwitchOff(n) ==
  /\ IsListed(n)
  /\ flag' = flag \cup {n}
  /\ UNCHANGED <<nodeVars, hash, exits, launchQ, killQ, supVars, registry,
                 listenerVars, reaperVars>>

(***************************************************************************)
(* The listener thread.                                                    *)
(***************************************************************************)

\* xreadgroup hands over what both streams have; launches come first.
ReadBatch ==
  /\ sup = "up" /\ lpc = "idle"
  /\ launchQ \cup killQ # {}
  /\ launchB' = launchQ /\ killB' = killQ
  /\ launchQ' = {} /\ killQ' = {}
  /\ lpc' = "batch"
  /\ UNCHANGED <<nodeVars, hash, flag, exits, supVars, registry, cur, reaperVars>>

EndBatch ==
  /\ lpc = "batch" /\ launchB \cup killB = {}
  /\ lpc' = "idle"
  /\ UNCHANGED <<nodeVars, hash, flag, exits, launchQ, killQ, supVars, registry,
                 launchB, killB, cur, reaperVars>>

\* launch: Popen, then registry.store.  Popen may fail: the request is spent.
Launch(n) ==
  /\ lpc = "batch" /\ n \in launchB
  /\ launchB' = launchB \ {n}
  /\ \/ /\ become(n, "starting")
        /\ young' = young \cup {n}
        /\ registry' = registry \cup {n}
        /\ listen("hset", n)
     \/ /\ become(n, "failed")
        /\ UNCHANGED <<young, registry, lpc, cur>>
  /\ UNCHANGED <<hb, hash, flag, exits, launchQ, killQ, supVars, killB, reaperVars>>

LaunchHset ==
  /\ lpc = "hset"
  /\ hash' = hash \cup {cur}
  /\ listen("batch", NoNode)
  /\ UNCHANGED <<nodeVars, flag, exits, launchQ, killQ, supVars, registry,
                 launchB, killB, reaperVars>>

\* kill of a node that is not in the registry: it only clears the hash.
KillUnmanaged(n) ==
  /\ lpc = "batch" /\ launchB = {} /\ n \in killB \ registry
  /\ killB' = killB \ {n}
  /\ hash' = IF n \in Misaddressed THEN hash ELSE hash \ {n}
  /\ UNCHANGED <<nodeVars, flag, exits, launchQ, killQ, supVars, registry,
                 launchB, lpc, cur, reaperVars>>

\* Changed form for the checks: the comparison of the endpoints is inverted.
KillManagedInverted(n) ==
  /\ lpc = "batch" /\ launchB = {} /\ n \in killB \cap registry
  /\ killB' = killB \ {n}
  /\ IF n \in Misaddressed THEN listen("flag", n) ELSE UNCHANGED <<lpc, cur>>
  /\ UNCHANGED <<nodeVars, hash, flag, exits, launchQ, killQ, supVars, registry,
                 launchB, reaperVars>>

KillManaged(n) ==
  /\ lpc = "batch" /\ launchB = {} /\ n \in killB \cap registry
  /\ killB' = killB \ {n}
  /\ IF n \in Misaddressed THEN UNCHANGED <<lpc, cur>> ELSE listen("flag", n)
  /\ UNCHANGED <<nodeVars, hash, flag, exits, launchQ, killQ, supVars, registry,
                 launchB, reaperVars>>

KillFlag ==
  /\ lpc = "flag"
  /\ flag' = flag \cup {cur}
  /\ listen("stop", cur)
  /\ UNCHANGED <<nodeVars, hash, exits, launchQ, killQ, supVars, registry,
                 launchB, killB, reaperVars>>

\* registry.stop pops the entry, which the reaper may have popped before.
KillPop ==
  /\ lpc = "stop"
  /\ registry' = registry \ {cur}
  /\ listen(IF cur \in registry THEN "terminate" ELSE "delete", cur)
  /\ UNCHANGED <<nodeVars, hash, flag, exits, launchQ, killQ, supVars,
                 launchB, killB, reaperVars>>

\* terminate or kill, then wait; nothing is sent to a process that has ended.
KillTerminate ==
  /\ lpc = "terminate"
  /\ IF Running(cur) THEN become(cur, "killed") ELSE UNCHANGED proc
  /\ young' = young \ {cur}
  /\ listen("delete", cur)
  /\ UNCHANGED <<hb, hash, flag, exits, launchQ, killQ, supVars, registry,
                 launchB, killB, reaperVars>>

KillDelete ==
  /\ lpc = "delete"
  /\ hash' = hash \ {cur}
  /\ listen("batch", NoNode)
  /\ UNCHANGED <<nodeVars, flag, exits, launchQ, killQ, supVars, registry,
                 launchB, killB, reaperVars>>

\* A Redis error ends the handling of the message, which is acknowledged.
ListenerFails ==
  /\ RedisFails
  /\ \/ lpc \in {"hset", "flag", "delete"} /\ UNCHANGED killB
     \/ /\ lpc = "batch" /\ launchB = {}
        /\ \E n \in killB \ registry : killB' = killB \ {n}
  /\ listen("batch", NoNode)
  /\ UNCHANGED <<nodeVars, hash, flag, exits, launchQ, killQ, supVars, registry,
                 launchB, reaperVars>>

(***************************************************************************)
(* The reaper thread: reap_exits, then reconcile_stale.                    *)
(***************************************************************************)

ReapBegin ==
  /\ sup = "up" /\ rpc = "idle"
  /\ rset' = registry
  /\ rpc' = "exits"
  /\ UNCHANGED <<nodeVars, hash, flag, exits, launchQ, killQ, supVars, registry,
                 listenerVars, rcur, inMemory>>

\* Changed form for the checks: the heartbeat is looked at instead of poll(); the entry is not popped.
ReapEntryByHeartbeat(n) ==
  /\ rpc = "exits" /\ n \in rset
  /\ rset' = rset \ {n}
  /\ IF n \notin hb THEN registry' = registry \ {n} /\ reap("publish", n)
                    ELSE UNCHANGED <<registry, rpc, rcur>>
  /\ UNCHANGED <<nodeVars, hash, flag, exits, launchQ, killQ, supVars,
                 listenerVars, inMemory>>

ReapEntryKept(n) ==
  /\ rpc = "exits" /\ n \in rset
  /\ rset' = rset \ {n}
  /\ IF Dead(n) THEN reap("publish", n) ELSE UNCHANGED <<rpc, rcur>>
  /\ UNCHANGED <<nodeVars, hash, flag, exits, launchQ, killQ, supVars, registry,
                 listenerVars, inMemory>>

\* poll() says how the process of an entry does; a dead one is popped, whoever
\* else has popped it since the snapshot.
ReapEntry(n) ==
  /\ rpc = "exits" /\ n \in rset
  /\ rset' = rset \ {n}
  /\ IF Dead(n) THEN registry' = registry \ {n} /\ reap("publish", n)
                ELSE UNCHANGED <<registry, rpc, rcur>>
  /\ UNCHANGED <<nodeVars, hash, flag, exits, launchQ, killQ, supVars,
                 listenerVars, inMemory>>

\* NODEEXIT is published if the hash still exists.
ReapPublish ==
  /\ rpc = "publish"
  /\ IF rcur \in hash
       THEN exits' = [exits EXCEPT ![rcur] = @ + 1] /\ reap("clear", rcur)
       ELSE UNCHANGED exits /\ reap("exits", NoNode)
  /\ UNCHANGED <<nodeVars, hash, flag, launchQ, killQ, supVars, registry,
                 listenerVars, rset, inMemory>>

ReapClear ==
  /\ rpc = "clear"
  /\ hash' = hash \ {rcur}
  /\ reap("exits", NoNode)
  /\ UNCHANGED <<nodeVars, flag, exits, launchQ, killQ, supVars, registry,
                 listenerVars, rset, inMemory>>

\* Changed form for the checks: the registry is thought to know every node; nothing is reconciled.
ReapDoneNoSweep ==
  /\ rpc = "exits" /\ rset = {}
  /\ rpc' = "idle"
  /\ UNCHANGED <<nodeVars, hash, flag, exits, launchQ, killQ, supVars, registry,
                 listenerVars, rcur, rset, inMemory>>

ReapDone ==
  /\ rpc = "exits" /\ rset = {}
  /\ rpc' = "scan"
  /\ UNCHANGED <<nodeVars, hash, flag, exits, launchQ, killQ, supVars, registry,
                 listenerVars, rcur, rset, inMemory>>

\* reconcile_stale takes the keys first and the ids of the registry after them.
ReconcileKeys ==
  /\ rpc = "scan"
  /\ rset' = hash
  /\ rpc' = "ids"
  /\ UNCHANGED <<nodeVars, hash, flag, exits, launchQ, killQ, supVars, registry,
                 listenerVars, rcur, inMemory>>

ReconcileIds ==
  /\ rpc = "ids"
  /\ inMemory' = registry
  /\ rpc' = "check"
  /\ UNCHANGED <<nodeVars, hash, flag, exits, launchQ, killQ, supVars, registry,
                 listenerVars, rcur, rset>>

PidIsAlive(n) == Running(n)

\* is_reported_node_alive: the heartbeat key, or the pid within the grace time.
IsReportedAlive(n) == n \in hb \/ (n \in young /\ PidIsAlive(n))

\* Changed form for the checks: the registry is not asked.
IsStaleForAll(n) == n \in hash /\ ~ IsReportedAlive(n)

IsStale(n) == n \in hash /\ n \notin inMemory /\ ~ IsReportedAlive(n)

ReconcileCheck(n) ==
  /\ rpc = "check" /\ n \in rset
  /\ rset' = rset \ {n}
  /\ IF IsStale(n) THEN reap("drop", n) ELSE UNCHANGED <<rpc, rcur>>
  /\ UNCHANGED <<nodeVars, hash, flag, exits, launchQ, killQ, supVars, registry,
                 listenerVars, inMemory>>

ReconcileDrop ==
  /\ rpc = "drop"
  /\ hash' = hash \ {rcur}
  /\ reap("check", NoNode)
  /\ UNCHANGED <<nodeVars, flag, exits, launchQ, killQ, supVars, registry,
                 listenerVars, rset, inMemory>>

\* The pass ends; the one of the constructor lets the Supervisor start.
ReconcileDone ==
  /\ rpc = "check" /\ rset = {}
  /\ rpc' = "idle"
  /\ inMemory' = {}
  /\ sup' = IF sup = "ctor" THEN "up" ELSE sup
  /\ UNCHANGED <<nodeVars, hash, flag, exits, launchQ, killQ, restarts, registry,
                 listenerVars, rcur, rset>>

\* Redis errors: an exit that cannot be recorded is only logged, a key that
\* cannot be dropped is left for the next pass.
ReaperFails ==
  /\ RedisFails
  /\ \/ rpc \in {"publish", "clear"} /\ reap("exits", NoNode)
     \/ rpc = "drop" /\ reap("check", NoNode)
  /\ UNCHANGED <<nodeVars, hash, flag, exits, launchQ, killQ, supVars, registry,
                 listenerVars, rset, inMemory>>

\* A scan that fails ends the pass, also that of the constructor.
ScanFails ==
  /\ RedisFails
  /\ rpc = "scan"
  /\ rpc' = "idle"
  /\ sup' = IF sup = "ctor" THEN "up" ELSE sup
  /\ UNCHANGED <<nodeVars, hash, flag, exits, launchQ, killQ, restarts, registry,
                 listenerVars, rcur, rset, inMemory>>

\* A hash that cannot be read is passed over; a heartbeat that cannot be read is
\* taken for none, and only the pid within the grace time still speaks for the node.
CheckFails(n) ==
  /\ RedisFails
  /\ rpc = "check" /\ n \in rset
  /\ rset' = rset \ {n}
  /\ \/ UNCHANGED <<rpc, rcur>>
     \/ n \in hash \ inMemory /\ ~ (n \in young /\ PidIsAlive(n)) /\ reap("drop", n)
  /\ UNCHANGED <<nodeVars, hash, flag, exits, launchQ, killQ, supVars, registry,
                 listenerVars, inMemory>>

(***************************************************************************)
(* The node processes: NodeRuntime around main().                          *)
(***************************************************************************)

outsideNodes == <<hash, flag, exits, launchQ, killQ, supVars, registry,
                  listenerVars, reaperVars>>

\* start() beats once, whatever the kill switch says.
FirstBeat(n) ==
  /\ proc[n] = "starting"
  /\ become(n, "beating")
  /\ hb' = hb \cup {n}
  /\ UNCHANGED <<young, outsideNodes>>

\* _loop: the kill switch is off, so it beats.
Beat(n) ==
  /\ proc[n] = "beating" /\ n \notin flag /\ n \notin hb
  /\ hb' = hb \cup {n}
  /\ UNCHANGED <<proc, young, outsideNodes>>

\* Changed form for the checks: only the switch of all nodes is read, not the one of this node.
MarkStopGlobal(n) ==
  /\ proc[n] = "beating" /\ RedisFails
  /\ become(n, "stopping")
  /\ UNCHANGED <<young, hb, outsideNodes>>

\* _loop: the kill switch is on, or Redis does not answer.
MarkStop(n) ==
  /\ proc[n] = "beating"
  /\ n \in flag \/ RedisFails
  /\ become(n, "stopping")
  /\ UNCHANGED <<young, hb, outsideNodes>>

\* main() returns and stop() deletes the heartbeat, or _loop forces the exit.
Stop(n) ==
  /\ proc[n] = "stopping"
  /\ become(n, "ended")
  /\ young' = young \ {n}
  /\ hb' \in {hb, hb \ {n}}
  /\ UNCHANGED outsideNodes

\* main() returns, raises or is killed by somebody else.
Exit(n) ==
  /\ proc[n] \in {"starting", "beating"}
  /\ become(n, "ended")
  /\ young' = young \ {n}
  /\ hb' \in {hb, hb \ {n}}
  /\ UNCHANGED outsideNodes

\* HEARTBEAT_TTL_SEC pass without a beat.
HeartbeatExpires(n) ==
  /\ n \in hb
  /\ proc[n] # "beating" \/ Stalls
  /\ hb' = hb \ {n}
  /\ UNCHANGED <<proc, young, outsideNodes>>

\* HEARTBEAT_GRACE_SEC after the launch; by then the first beat has come.
GraceEnds(n) ==
  /\ n \in young
  /\ proc[n] # "starting" \/ Stalls
  /\ young' = young \ {n}
  /\ UNCHANGED <<proc, hb, outsideNodes>>

(***************************************************************************)
(* The Supervisor process.                                                 *)
(***************************************************************************)

\* All that a Supervisor keeps in memory, its last batch included, is lost.
Forget ==
  /\ registry' = {}
  /\ launchB' = {} /\ killB' = {} /\ listen("idle", NoNode)
  /\ reap("idle", NoNode) /\ rset' = {} /\ inMemory' = {}

Crash ==
  /\ "crash" \in Faults /\ sup # "down"
  /\ sup' = "down"
  /\ Forget
  /\ UNCHANGED <<nodeVars, hash, flag, exits, launchQ, killQ, restarts>>

Signal ==
  /\ "signal" \in Faults /\ sup = "up"
  /\ sup' = "stopping"
  /\ UNCHANGED <<nodeVars, hash, flag, exits, launchQ, killQ, restarts, registry,
                 listenerVars, reaperVars>>

\* stop() joins both threads, for 3 seconds each; then kill_all terminates the
\* registry and deletes every RUNNINGNODES hash.
Shutdown ==
  /\ sup = "stopping"
  /\ (lpc = "idle" /\ rpc = "idle") \/ Stalls
  /\ sup' = "down"
  /\ proc' = [n \in Node |-> IF n \in registry /\ Running(n) THEN "killed" ELSE proc[n]]
  /\ young' = young \ registry
  /\ hash' = {}
  /\ Forget
  /\ UNCHANGED <<hb, flag, exits, launchQ, killQ, restarts>>

\* The constructor of a new ExecutionEngine runs reconcile_stale first.
Restart ==
  /\ sup = "down" /\ restarts < MaxRestarts
  /\ sup' = "ctor"
  /\ restarts' = restarts + 1
  /\ rpc' = "scan"
  /\ UNCHANGED <<nodeVars, hash, flag, exits, launchQ, killQ, registry,
                 listenerVars, rcur, rset, inMemory>>

-----------------------------------------------------------------------------

Client == \E n \in Node : RequestLaunch(n) \/ RequestKill(n) \/ SwitchOff(n)

Listener ==
  \/ ReadBatch \/ EndBatch
  \/ \E n \in Node : Launch(n) \/ KillUnmanaged(n) \/ KillManaged(n)
  \/ LaunchHset \/ KillFlag \/ KillPop \/ KillTerminate \/ KillDelete
  \/ ListenerFails

Reaper ==
  \/ ReapBegin \/ ReapPublish \/ ReapClear \/ ReapDone
  \/ \E n \in Node : ReapEntry(n) \/ ReconcileCheck(n) \/ CheckFails(n)
  \/ ReconcileKeys \/ ReconcileIds \/ ReconcileDrop \/ ReconcileDone
  \/ ReaperFails \/ ScanFails

\* What the runtime of a node does by itself.
Runtime(n) == FirstBeat(n) \/ Beat(n) \/ MarkStop(n) \/ Stop(n)

Clocks(n) == HeartbeatExpires(n) \/ GraceEnds(n)

Lifecycle == Crash \/ Signal \/ Shutdown \/ Restart

Next ==
  \/ Client \/ Listener \/ Reaper \/ Lifecycle
  \/ \E n \in Node : Runtime(n) \/ Exit(n) \/ Clocks(n)

Spec == Init /\ [][Next]_vars

\* Threads run, a shutdown goes on, the runtime of every node loops, and the
\* key of a node that stopped beating expires.  Nobody has to ask, to fail or
\* to restart the Supervisor.
Fairness ==
  /\ WF_vars(Listener) /\ WF_vars(Reaper) /\ WF_vars(Shutdown)
  /\ \A n \in Node :
       WF_vars(Runtime(n)) /\ WF_vars(HeartbeatExpires(n) /\ ~ Running(n))

FairSpec == Spec /\ Fairness

(***************************************************************************)
(* Properties.                                                             *)
(***************************************************************************)

\* No process escapes: without a crash and a join that times out, every running
\* node is in the registry, or the listener has popped it and is about to
\* terminate it, whichever Redis commands fail and however the two threads
\* that empty the registry interleave.
NoOrphans ==
  \A n \in Node : Running(n) => n \in registry \/ (lpc = "terminate" /\ cur = n)

\* A hash is deleted only when its node is not running, or is no node of this
\* Supervisor: neither the reaper nor reconcile_stale drops a node that the
\* listener has just launched or that is late with its heartbeat, however the
\* snapshots they work on interleave with it.
NeverUnlisted ==
  [][\A n \in registry : n \in hash \ hash' => ~ Running(n)']_vars

\* NODEEXIT is not published for a process that lives, nor twice.
ExitPublishedOnce ==
  \A n \in Node : exits[n] <= 1 /\ (exits[n] = 1 => Dead(n))

\* A dead node disappears from the running list, unless the Supervisor does.
CorpseIsDropped ==
  \A n \in Node : (Dead(n) /\ n \in hash) ~> (n \notin hash \/ sup = "down")

\* The kill of a managed node ends its process.
KillTakesEffect ==
  \A n \in Node \ Misaddressed :
    (n \in killQ \cap registry) ~> (~ Running(n) \/ sup = "down")

\* The kill switch ends a node without any Supervisor.
SwitchedOffStops == \A n \in Node : (n \in flag) ~> ~ Running(n)

(***************************************************************************)
(* What the documentation says, and the code does not do.                  *)
(***************************************************************************)

\* supervisor.md on KILLREQUEST: "Graceful -> force shutdown if still alive".
KillRequestStopsProcess ==
  [][\A n \in Node \ Misaddressed : KillUnmanaged(n) => ~ Running(n)]_vars

\* supervisor.md: "Natural process death publishes NODEEXIT and deletes the
\* hash."  A node that ended by itself and was dropped has its entry.
NaturalDeathIsPublished ==
  \A n \in Node :
    proc[n] = "ended" /\ n \notin registry \cup hash /\ rcur # n /\ cur # n =>
      exits[n] = 1

=============================================================================
