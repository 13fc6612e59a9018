------------------------- MODULE NodeLifecycle_proofs -------------------------
(***************************************************************************)
(* For any set of nodes and any number of restarts: types, no orphans,     *)
(* the completeness of the running list, one exit for each node, and kill  *)
(* requests that are kept.                                                 *)
(***************************************************************************)
EXTENDS NodeLifecycle, TLAPS

(***************************************************************************)
(* Type correctness.                                                       *)
(***************************************************************************)

\* The listener has a node whenever it works on one; so has the reaper.
CurrentOK ==
  /\ lpc \notin {"idle", "batch"} => cur \in Node
  /\ rpc \in {"publish", "clear", "drop"} => rcur \in Node

TypeInv == TypeOK /\ CurrentOK

\* The initial state is well typed.
LEMMA InitType == Init => TypeInv
BY FaultsAssumption DEF Init, TypeInv, CurrentOK, TypeOK, ProcState, ListenerPc, ReaperPc

\* Every step keeps the types.
LEMMA NextType == TypeInv /\ [Next]_vars => TypeInv'
<1> SUFFICES ASSUME TypeInv, [Next]_vars PROVE TypeInv'
  OBVIOUS
<1> USE FaultsAssumption DEF TypeInv, CurrentOK, TypeOK, ProcState, ListenerPc, ReaperPc,
    become, listen, reap, nodeVars, listenerVars, reaperVars, supVars, outsideNodes
<1>1. CASE UNCHANGED vars
  BY <1>1 DEF vars
<1>2. CASE Client
  BY <1>2 DEF Client, RequestLaunch, RequestKill, SwitchOff, IsListed
<1>3. CASE Listener
  <2>1. CASE ReadBatch \/ EndBatch \/ LaunchHset \/ ListenerFails
    BY <2>1 DEF ReadBatch, EndBatch, LaunchHset, ListenerFails
  <2>2. ASSUME NEW n \in Node, Launch(n) \/ KillUnmanaged(n) \/ KillManaged(n)
        PROVE  TypeInv'
    BY <2>2 DEF Launch, KillUnmanaged, KillManaged
  <2>3. CASE KillFlag \/ KillPop \/ KillTerminate \/ KillDelete
    BY <2>3 DEF KillFlag, KillPop, KillTerminate, KillDelete
  <2> QED BY <1>3, <2>1, <2>2, <2>3 DEF Listener
<1>4. CASE Reaper
  <2>1. CASE ReapBegin \/ ReapPublish \/ ReapClear \/ ReapDone
    BY <2>1 DEF ReapBegin, ReapPublish, ReapClear, ReapDone
  <2>2. ASSUME NEW n \in Node, ReapEntry(n) \/ ReconcileCheck(n) \/ CheckFails(n) PROVE TypeInv'
    BY <2>2 DEF ReapEntry, ReconcileCheck, CheckFails
  <2>3. CASE ReconcileKeys \/ ReconcileIds \/ ReconcileDrop \/ ReconcileDone \/ ReaperFails \/ ScanFails
    BY <2>3 DEF ReconcileKeys, ReconcileIds, ReconcileDrop, ReconcileDone, ReaperFails, ScanFails
  <2> QED BY <1>4, <2>1, <2>2, <2>3 DEF Reaper
<1>5. CASE Lifecycle
  <2>1. CASE Crash \/ Signal
    BY <2>1 DEF Crash, Signal, Forget
  <2>2. CASE Shutdown
    BY <2>2 DEF Shutdown, Forget
  <2>3. CASE Restart
    BY <2>3 DEF Restart
  <2> QED BY <1>5, <2>1, <2>2, <2>3 DEF Lifecycle
<1>6. ASSUME NEW n \in Node, Runtime(n) \/ Exit(n) \/ Clocks(n) PROVE TypeInv'
  BY <1>6 DEF Runtime, FirstBeat, Beat, MarkStop, Stop, Exit, Clocks,
    HeartbeatExpires, GraceEnds
<1> QED BY <1>1, <1>2, <1>3, <1>4, <1>5, <1>6 DEF Next

\* Every reachable state is well typed.
THEOREM TypeCorrect == Spec => []TypeOK
<1>1. TypeInv => TypeOK
  BY DEF TypeInv
<1> QED BY <1>1, InitType, NextType, PTL DEF Spec

(***************************************************************************)
(* No orphans.  The invariant is inductive by itself: whoever empties the  *)
(* registry first polls, or terminates right after.                        *)
(***************************************************************************)

Orderly == {"crash", "stall"} \cap Faults = {}

\* The listener keeps every running node in the registry or terminates it.
LEMMA ListenerOrphans ==
  ASSUME TypeInv, NoOrphans, Listener
  PROVE  NoOrphans'
<1> USE DEF TypeInv, TypeOK, CurrentOK, NoOrphans, Running, listen, become, nodeVars
<1>1. CASE ReadBatch \/ EndBatch \/ LaunchHset \/ KillFlag \/ KillDelete \/ ListenerFails
  BY <1>1 DEF ReadBatch, EndBatch, LaunchHset, KillFlag, KillDelete, ListenerFails
<1>2. ASSUME NEW n \in Node, Launch(n) PROVE NoOrphans'
  BY <1>2 DEF Launch
<1>3. ASSUME NEW n \in Node, KillUnmanaged(n) \/ KillManaged(n) PROVE NoOrphans'
  BY <1>3 DEF KillUnmanaged, KillManaged
<1>4. CASE KillPop
  BY <1>4 DEF KillPop
<1>5. CASE KillTerminate
  BY <1>5 DEF KillTerminate
<1> QED BY <1>1, <1>2, <1>3, <1>4, <1>5 DEF Listener

\* The reaper pops only the dead.
LEMMA ReaperOrphans ==
  ASSUME TypeInv, NoOrphans, Reaper
  PROVE  NoOrphans'
<1> USE DEF NoOrphans, Running, Dead, nodeVars, listenerVars
<1>1. CASE ReapBegin \/ ReapPublish \/ ReapClear \/ ReapDone
  BY <1>1 DEF ReapBegin, ReapPublish, ReapClear, ReapDone
<1>2. ASSUME NEW n \in Node, ReapEntry(n) \/ ReconcileCheck(n) \/ CheckFails(n) PROVE NoOrphans'
  BY <1>2 DEF ReapEntry, ReconcileCheck, CheckFails
<1>3. CASE ReconcileKeys \/ ReconcileIds \/ ReconcileDrop \/ ReconcileDone \/ ReaperFails \/ ScanFails
  BY <1>3 DEF ReconcileKeys, ReconcileIds, ReconcileDrop, ReconcileDone, ReaperFails, ScanFails
<1> QED BY <1>1, <1>2, <1>3 DEF Reaper

\* NoOrphans is inductive.
LEMMA NextOrphans == Orderly /\ TypeInv /\ NoOrphans /\ [Next]_vars => NoOrphans'
<1> SUFFICES ASSUME Orderly, TypeInv, NoOrphans, [Next]_vars PROVE NoOrphans'
  OBVIOUS
<1> USE DEF NoOrphans, Running, nodeVars, listenerVars, reaperVars, supVars, outsideNodes
<1>1. CASE UNCHANGED vars
  BY <1>1 DEF vars
<1>2. CASE Client
  BY <1>2 DEF Client, RequestLaunch, RequestKill, SwitchOff
<1>3. CASE Lifecycle
  BY <1>3 DEF Lifecycle, Crash, Signal, Shutdown, Restart, Orderly, Stalls, Forget, listen,
    TypeInv, TypeOK
<1>4. ASSUME NEW n \in Node, Runtime(n) \/ Exit(n) \/ Clocks(n) PROVE NoOrphans'
  BY <1>4 DEF TypeInv, TypeOK, Runtime, FirstBeat, Beat, MarkStop, Stop, Exit, Clocks,
    HeartbeatExpires, GraceEnds, become
<1> QED BY <1>1, <1>2, <1>3, <1>4, ListenerOrphans, ReaperOrphans DEF Next

\* Unless the Supervisor crashes or a join times out, it never loses track of a
\* running node, even when Redis fails.
THEOREM NoOrphansEver ==
  ASSUME Orderly
  PROVE  Spec => []NoOrphans
<1>1. Init => NoOrphans
  BY DEF Init, NoOrphans, Running
<1> QED BY <1>1, InitType, NextType, NextOrphans, PTL DEF Spec

(***************************************************************************)
(* The running list.  No managed node is dropped because the registry is   *)
(* filled before the hash is written, reconcile_stale reads the keys       *)
(* before the registry, and an id that left the registry never comes back. *)
(***************************************************************************)

Known(n) == proc[n] # "none"

\* A request that has not been served is for a node that was never launched.
Fresh ==
  /\ launchQ \cap launchB = {}
  /\ \A n \in launchQ \cup launchB : ~ Known(n)

AllKnown ==
  /\ \A n \in registry \cup hash \cup rset : Known(n)
  /\ lpc \notin {"idle", "batch"} => Known(cur)

\* What the two threads hold in their hands when they delete a hash.
ReadyToDelete ==
  /\ rpc \in {"publish", "clear"} => Dead(rcur)
  /\ lpc \in {"terminate", "delete"} => cur \notin registry
  /\ rpc = "drop" => rcur \notin registry /\ Known(rcur)
  /\ rpc \in {"check", "drop"} => rset \cap registry \subseteq inMemory

DropInv == TypeInv /\ Fresh /\ AllKnown /\ ReadyToDelete

\* Nothing is launched at first.
LEMMA InitDrop == Init => DropInv
BY InitType DEF Init, DropInv, Fresh, AllKnown, ReadyToDelete

\* What the listener deletes it has popped before.
LEMMA ListenerDrop ==
  ASSUME DropInv, Listener
  PROVE  DropInv'
<1> USE DEF DropInv, Fresh, AllKnown, ReadyToDelete, Known, Dead, listen, become,
    nodeVars, reaperVars
<1>1. TypeInv'
  BY NextType DEF Next
<1> USE DEF TypeInv, TypeOK, CurrentOK
<1>2. CASE ReadBatch \/ EndBatch \/ ListenerFails
  BY <1>1, <1>2 DEF ReadBatch, EndBatch, ListenerFails
<1>3. ASSUME NEW n \in Node, Launch(n) PROVE DropInv'
  BY <1>1, <1>3 DEF Launch
<1>4. CASE LaunchHset
  BY <1>1, <1>4 DEF LaunchHset
<1>5. ASSUME NEW n \in Node, KillUnmanaged(n) \/ KillManaged(n) PROVE DropInv'
  BY <1>1, <1>5 DEF KillUnmanaged, KillManaged
<1>6. CASE KillFlag \/ KillDelete
  BY <1>1, <1>6 DEF KillFlag, KillDelete
<1>7. CASE KillPop
  BY <1>1, <1>7 DEF KillPop
<1>8. CASE KillTerminate
  BY <1>1, <1>8 DEF KillTerminate
<1> QED BY <1>2, <1>3, <1>4, <1>5, <1>6, <1>7, <1>8 DEF Listener

\* What the reaper deletes is dead, or was not in the registry.
LEMMA ReaperDrop ==
  ASSUME DropInv, Reaper
  PROVE  DropInv'
<1> USE DEF DropInv, Fresh, AllKnown, ReadyToDelete, Known, Dead, reap, nodeVars,
    listenerVars
<1>1. TypeInv'
  BY NextType DEF Next
<1> USE DEF TypeInv, TypeOK, CurrentOK
<1>2. CASE ReapBegin \/ ReapDone
  BY <1>1, <1>2 DEF ReapBegin, ReapDone
<1>3. ASSUME NEW n \in Node, ReapEntry(n) PROVE DropInv'
  BY <1>1, <1>3 DEF ReapEntry
<1>4. CASE ReapPublish \/ ReapClear
  BY <1>1, <1>4 DEF ReapPublish, ReapClear
<1>5. CASE ReconcileKeys \/ ReconcileIds
  BY <1>1, <1>5 DEF ReconcileKeys, ReconcileIds
<1>6. ASSUME NEW n \in Node, ReconcileCheck(n) \/ CheckFails(n) PROVE DropInv'
  BY <1>1, <1>6 DEF ReconcileCheck, CheckFails, IsStale
<1>7. CASE ReconcileDrop \/ ReconcileDone \/ ReaperFails \/ ScanFails
  BY <1>1, <1>7 DEF ReconcileDrop, ReconcileDone, ReaperFails, ScanFails
<1> QED BY <1>2, <1>3, <1>4, <1>5, <1>6, <1>7 DEF Reaper

\* The steps of a node process change no key and revive nobody.
LEMMA NodeSteps ==
  ASSUME TypeInv, NEW n \in Node, Runtime(n) \/ Exit(n) \/ Clocks(n)
  PROVE  /\ UNCHANGED outsideNodes
         /\ \A m \in Node : /\ Known(m)' <=> Known(m)
                            /\ Running(m)' => Running(m)
                            /\ Dead(m) => Dead(m)'
<1> USE DEF TypeInv, TypeOK, Runtime, FirstBeat, Beat, MarkStop, Stop, Exit, Clocks,
    HeartbeatExpires, GraceEnds, become
<1>1. UNCHANGED outsideNodes
  OBVIOUS
<1>2. \A m \in Node : Known(m)' <=> Known(m)
  BY DEF Known
<1>3. \A m \in Node : Running(m)' => Running(m)
  BY DEF Running
<1>4. \A m \in Node : Dead(m) => Dead(m)'
  BY DEF Dead
<1> QED BY <1>1, <1>2, <1>3, <1>4

\* The invariant is inductive.
LEMMA NextDrop == DropInv /\ [Next]_vars => DropInv'
<1> SUFFICES ASSUME DropInv, [Next]_vars PROVE DropInv'
  OBVIOUS
<1>1. TypeInv'
  BY NextType DEF DropInv
<1>2. ASSUME NEW n \in Node, Runtime(n) \/ Exit(n) \/ Clocks(n) PROVE DropInv'
  BY <1>1, <1>2, NodeSteps DEF DropInv, Fresh, AllKnown, ReadyToDelete, TypeInv, TypeOK,
    CurrentOK, outsideNodes, listenerVars, reaperVars
<1> USE DEF DropInv, Fresh, AllKnown, ReadyToDelete, Known, Running, Dead, nodeVars,
    listenerVars, reaperVars, supVars
<1>3. CASE UNCHANGED vars
  BY <1>1, <1>3 DEF vars
<1>4. CASE Client
  BY <1>1, <1>4 DEF Client, RequestLaunch, RequestKill, SwitchOff
<1>5. CASE Crash \/ Shutdown
  BY <1>1, <1>5 DEF Crash, Shutdown, Forget, listen, reap, TypeInv, TypeOK
<1>6. CASE Signal \/ Restart
  BY <1>1, <1>6 DEF Signal, Restart
<1> QED
  BY <1>2, <1>3, <1>4, <1>5, <1>6, ListenerDrop, ReaperDrop DEF Next, Lifecycle

\* No step drops the hash of a managed node that runs on.
LEMMA StepUnlists ==
  ASSUME DropInv, [Next]_vars, NEW n \in registry, n \in hash \ hash'
  PROVE  ~ Running(n)'
<1> USE DEF DropInv, ReadyToDelete, nodeVars, listenerVars, reaperVars, supVars, vars
<1>1. n \in Node
  BY DEF TypeInv, TypeOK
<1>2. CASE Listener
  BY <1>2 DEF Listener, ReadBatch, EndBatch, Launch, LaunchHset, KillUnmanaged,
    KillManaged, KillFlag, KillPop, KillTerminate, KillDelete, ListenerFails
<1>3. CASE Reaper
  BY <1>3 DEF Reaper, ReapBegin, ReapEntry, ReapPublish, ReapClear, ReapDone,
    ReconcileKeys, ReconcileIds, ReconcileCheck, ReconcileDrop, ReconcileDone,
    ReaperFails, ScanFails, CheckFails, Dead, Running
<1>4. CASE Lifecycle
  BY <1>1, <1>4 DEF Lifecycle, Crash, Signal, Shutdown, Restart, Running, TypeInv, TypeOK
<1>5. CASE Client
  BY <1>5 DEF Client, RequestLaunch, RequestKill, SwitchOff
<1>6. ASSUME NEW m \in Node, Runtime(m) \/ Exit(m) \/ Clocks(m) PROVE FALSE
  BY <1>6, NodeSteps DEF outsideNodes
<1> QED BY <1>2, <1>3, <1>4, <1>5, <1>6 DEF Next

\* Whatever crashes, stalls or fails, no hash of a running node of this
\* Supervisor is ever deleted.
THEOREM NeverUnlistedEver == Spec => NeverUnlisted
<1>1. DropInv /\ [Next]_vars => [\A n \in registry : n \in hash \ hash' => ~ Running(n)']_vars
  BY StepUnlists
<1> QED BY <1>1, InitDrop, NextDrop, PTL DEF Spec, NeverUnlisted

(***************************************************************************)
(* If moreover no HSET fails, the running list is complete.                *)
(***************************************************************************)

\* Every running node of this Supervisor has its hash, or is about to get it.
ManagedIsListed ==
  \A n \in registry : Running(n) => n \in hash \/ (lpc = "hset" /\ cur = n)

\* The registry grows only by the node whose hash is written next.
LEMMA NextListed ==
  ASSUME ~ RedisFails, DropInv, ManagedIsListed, [Next]_vars
  PROVE  ManagedIsListed'
<1> SUFFICES ASSUME NEW n \in registry', Running(n)', n \notin hash'
             PROVE  lpc' = "hset" /\ cur' = n
  BY DEF ManagedIsListed
<1>1. DropInv'
  BY NextDrop
<1>2. n \in Node
  BY <1>1 DEF DropInv, TypeInv, TypeOK
<1>3. CASE n \notin registry
  BY <1>3 DEF Next, vars, nodeVars, listenerVars, reaperVars, supVars, outsideNodes,
    Client, RequestLaunch, RequestKill, SwitchOff,
    Listener, ReadBatch, EndBatch, Launch, LaunchHset, KillUnmanaged, KillManaged,
    KillFlag, KillPop, KillTerminate, KillDelete, ListenerFails, listen,
    Reaper, ReapBegin, ReapEntry, ReapPublish, ReapClear, ReapDone, ReconcileKeys,
    ReconcileIds, ReconcileCheck, ReconcileDrop, ReconcileDone,
    ReaperFails, ScanFails, CheckFails,
    Lifecycle, Crash, Signal, Shutdown, Restart, Forget,
    Runtime, FirstBeat, Beat, MarkStop, Stop, Exit, Clocks, HeartbeatExpires, GraceEnds
<1>4. CASE n \in registry
  <2>1. n \notin hash
    BY <1>4, StepUnlists
  <2>2. Running(n)
    <3>1. CASE Listener
      BY <1>2, <1>4, <3>1 DEF DropInv, TypeInv, TypeOK, Fresh, AllKnown, Running, Known,
        Listener, ReadBatch, EndBatch, Launch, LaunchHset, KillUnmanaged, KillManaged,
        KillFlag, KillPop, KillTerminate, KillDelete, ListenerFails, become, nodeVars
    <3>2. CASE Reaper
      BY <3>2 DEF Running, nodeVars, Reaper, ReapBegin, ReapEntry, ReapPublish, ReapClear,
        ReapDone, ReconcileKeys, ReconcileIds, ReconcileCheck, ReconcileDrop,
        ReconcileDone, ReaperFails, ScanFails, CheckFails
    <3>3. CASE Lifecycle
      BY <1>2, <3>3 DEF Running, nodeVars, Lifecycle, Crash, Signal, Shutdown, Restart
    <3>4. CASE Client \/ UNCHANGED vars
      BY <3>4 DEF Running, nodeVars, Client, RequestLaunch, RequestKill, SwitchOff, vars
    <3>5. ASSUME NEW m \in Node, Runtime(m) \/ Exit(m) \/ Clocks(m) PROVE Running(n)
      BY <1>2, <3>5, NodeSteps DEF DropInv
    <3> QED BY <3>1, <3>2, <3>3, <3>4, <3>5 DEF Next
  <2>3. lpc = "hset" /\ cur = n
    BY <1>4, <2>1, <2>2 DEF ManagedIsListed
  <2> QED
    BY <1>4, <2>1, <2>3 DEF Next, vars, nodeVars, listenerVars, reaperVars, supVars,
      outsideNodes, Client, RequestLaunch, RequestKill, SwitchOff,
      Listener, ReadBatch, EndBatch, Launch, LaunchHset, KillUnmanaged, KillManaged,
      KillFlag, KillPop, KillTerminate, KillDelete, ListenerFails,
      Reaper, ReapBegin, ReapEntry, ReapPublish, ReapClear, ReapDone, ReconcileKeys,
      ReconcileIds, ReconcileCheck, ReconcileDrop, ReconcileDone,
      ReaperFails, ScanFails, CheckFails,
      Lifecycle, Crash, Signal, Shutdown, Restart, Forget,
      Runtime, FirstBeat, Beat, MarkStop, Stop, Exit, Clocks, HeartbeatExpires, GraceEnds
<1> QED BY <1>3, <1>4

\* If no Redis command fails, the running list has every running node of the
\* Supervisor, through crashes, restarts and heartbeats of any lateness.
THEOREM RunningListComplete ==
  ASSUME ~ RedisFails
  PROVE  Spec => []ManagedIsListed
<1>1. Init => ManagedIsListed
  BY DEF Init, ManagedIsListed
<1>2. DropInv /\ ManagedIsListed /\ [Next]_vars => ManagedIsListed'
  BY NextListed
<1> QED BY <1>1, <1>2, InitDrop, NextDrop, PTL DEF Spec

(***************************************************************************)
(* One NODEEXIT.  The reaper publishes what it took out of its snapshot    *)
(* and of the registry, and an id comes into the registry once.            *)
(***************************************************************************)

\* A node whose exit was published is out of the reaper's and the listener's hands.
Parted(n) ==
  /\ n \notin registry
  /\ rpc \in {"exits", "publish", "clear"} => n \notin rset

Reported ==
  /\ exits \in [Node -> {0, 1}]
  /\ \A n \in Node : exits[n] = 1 => Dead(n) /\ Parted(n) /\ (rpc = "publish" => rcur # n)
  /\ rpc = "publish" => Parted(rcur)

\* Every step keeps it, whatever the Supervisor's threads do to one node together.
LEMMA NextReported == DropInv /\ Reported /\ [Next]_vars => Reported'
<1> SUFFICES ASSUME DropInv, Reported, [Next]_vars PROVE Reported'
  OBVIOUS
<1>1. ASSUME NEW n \in Node, Runtime(n) \/ Exit(n) \/ Clocks(n) PROVE Reported'
  BY <1>1, NodeSteps DEF DropInv, Reported, Parted, outsideNodes, listenerVars, reaperVars
<1> USE DEF Reported, Parted, Dead, nodeVars, listenerVars, reaperVars, supVars, listen, reap,
        become, DropInv, TypeInv, TypeOK, CurrentOK
<1>2. CASE UNCHANGED vars \/ Client
  BY <1>2 DEF vars, Client, RequestLaunch, RequestKill, SwitchOff
<1>3. CASE Crash \/ Shutdown
  BY <1>3 DEF Crash, Shutdown, Forget, Running
<1>4. CASE Signal \/ Restart
  BY <1>4 DEF Signal, Restart
<1>5. CASE ReadBatch \/ EndBatch \/ LaunchHset \/ ListenerFails
  BY <1>5 DEF ReadBatch, EndBatch, LaunchHset, ListenerFails
<1>6. ASSUME NEW n \in Node, Launch(n) PROVE Reported'
  BY <1>6 DEF Launch, Fresh, Known, ReadyToDelete
<1>7. ASSUME NEW n \in Node, KillUnmanaged(n) \/ KillManaged(n) PROVE Reported'
  BY <1>7 DEF KillUnmanaged, KillManaged
<1>8. CASE KillFlag \/ KillPop \/ KillTerminate \/ KillDelete
  BY <1>8 DEF KillFlag, KillPop, KillTerminate, KillDelete, Running
<1>9. CASE ReapBegin \/ ReapClear \/ ReapDone
  BY <1>9 DEF ReapBegin, ReapClear, ReapDone
<1>10. ASSUME NEW n \in Node, ReapEntry(n) PROVE Reported'
  BY <1>10 DEF ReapEntry
<1>11. CASE ReapPublish
  BY <1>11 DEF ReapPublish, ReadyToDelete
<1>12. ASSUME NEW n \in Node, ReconcileCheck(n) \/ CheckFails(n) PROVE Reported'
  BY <1>12 DEF ReconcileCheck, CheckFails
<1>13. CASE ReconcileKeys \/ ReconcileIds \/ ReconcileDrop \/ ReconcileDone \/ ReaperFails \/ ScanFails
  BY <1>13 DEF ReconcileKeys, ReconcileIds, ReconcileDrop, ReconcileDone, ReaperFails, ScanFails
<1> QED
  BY <1>1, <1>2, <1>3, <1>4, <1>5, <1>6, <1>7, <1>8, <1>9, <1>10, <1>11, <1>12, <1>13
     DEF Next, Listener, Reaper, Lifecycle

\* No exit is published twice, nor one of a node that lives, whatever the listener
\* pops under the reaper's hands and whatever crashes, stalls or fails.
THEOREM ExitPublishedOnceEver == Spec => []ExitPublishedOnce
<1>1. Init => Reported
  BY DEF Init, Reported
<1>2. Reported => ExitPublishedOnce
  BY DEF Reported, ExitPublishedOnce
<1> QED BY <1>1, <1>2, InitDrop, NextDrop, NextReported, PTL DEF Spec

(***************************************************************************)
(* Kill requests.  A batch is worked off before the next one is read, so   *)
(* that a request waits for a node that is managed until its turn comes.   *)
(***************************************************************************)

\* Between two batches no request is left in the listener's hands.
Drained == lpc = "idle" => launchB \cup killB = {}

\* A managed node whose kill was asked for, at any stage of the listener.
Doomed(n) ==
  \/ n \in registry /\ n \in killQ \cup killB
  \/ n \in registry /\ lpc \in {"flag", "stop"} /\ cur = n
  \/ lpc = "terminate" /\ cur = n

\* The listener goes idle only with its batch done.
LEMMA NextDrained == TypeInv /\ Drained /\ [Next]_vars => Drained'
<1> SUFFICES ASSUME TypeInv, Drained, [Next]_vars PROVE Drained'
  OBVIOUS
<1> USE DEF Drained, listen
<1>1. CASE UNCHANGED <<lpc, launchB, killB>>
  BY <1>1
<1>2. CASE Listener
  BY <1>2 DEF Listener, ReadBatch, EndBatch, Launch, LaunchHset, KillUnmanaged, KillManaged,
    KillFlag, KillPop, KillTerminate, KillDelete, ListenerFails
<1>3. CASE Crash \/ Shutdown
  BY <1>3 DEF Crash, Shutdown, Forget
<1> QED
  BY <1>1, <1>2, <1>3, NodeSteps
     DEF Next, vars, listenerVars, outsideNodes, Client, RequestLaunch, RequestKill, SwitchOff,
         Reaper, ReapBegin, ReapEntry, ReapPublish, ReapClear, ReapDone, ReconcileKeys,
         ReconcileIds, ReconcileCheck, ReconcileDrop, ReconcileDone,
         ReaperFails, ScanFails, CheckFails,
         Lifecycle, Signal, Restart

\* Every step keeps a request in front of the listener or brings it further.
LEMMA StepDooms ==
  ASSUME ~ RedisFails, TypeInv, Drained, [Next]_vars,
         NEW n \in Node \ Misaddressed, Doomed(n)
  PROVE  Doomed(n)' \/ ~ Running(n)' \/ sup' = "down"
<1> USE DEF Doomed, listen
<1>1. CASE ReadBatch \/ EndBatch
  BY <1>1 DEF ReadBatch, EndBatch, Drained
<1>2. ASSUME NEW m \in Node, Launch(m) PROVE Doomed(n)'
  BY <1>2 DEF Launch
<1>3. ASSUME NEW m \in Node, KillUnmanaged(m) \/ KillManaged(m) PROVE Doomed(n)'
  BY <1>3 DEF KillUnmanaged, KillManaged
<1>4. CASE LaunchHset \/ KillFlag \/ KillPop \/ KillDelete
  BY <1>4 DEF LaunchHset, KillFlag, KillPop, KillDelete
<1>5. CASE KillTerminate
  BY <1>5 DEF KillTerminate, become, Running, TypeInv, TypeOK
<1>6. ASSUME NEW m \in Node, ReapEntry(m) PROVE Doomed(n)' \/ ~ Running(n)'
  BY <1>6 DEF ReapEntry, Dead, Running, nodeVars, listenerVars
<1>7. CASE Crash \/ Shutdown
  BY <1>7 DEF Crash, Shutdown
<1>8. CASE UNCHANGED <<registry, killB, lpc, cur>> /\ killQ \subseteq killQ'
  BY <1>8
<1> QED
  BY <1>1, <1>2, <1>3, <1>4, <1>5, <1>6, <1>7, <1>8, NodeSteps
     DEF Next, vars, listenerVars, outsideNodes, Client, RequestLaunch, RequestKill, SwitchOff,
         Listener, ListenerFails,
         Reaper, ReapBegin, ReapPublish, ReapClear, ReapDone, ReconcileKeys,
         ReconcileIds, ReconcileCheck, ReconcileDrop, ReconcileDone,
         ReaperFails, ScanFails, CheckFails,
         Lifecycle, Signal, Restart

\* If no Redis command fails, the request to kill a managed node is never lost: it
\* waits for the listener, is carried out, or ends with the Supervisor, however the
\* reaper and the node itself interleave with it.
THEOREM KillsAreKept ==
  ASSUME ~ RedisFails
  PROVE  Spec => [][\A n \in Node \ Misaddressed :
                      Doomed(n) => Doomed(n)' \/ ~ Running(n)' \/ sup' = "down"]_vars
<1>1. Init => Drained
  BY DEF Init, Drained
<1>2. TypeInv /\ Drained /\ [Next]_vars =>
        [\A n \in Node \ Misaddressed :
           Doomed(n) => Doomed(n)' \/ ~ Running(n)' \/ sup' = "down"]_vars
  BY StepDooms
<1> QED BY <1>1, <1>2, InitType, NextType, NextDrained, PTL DEF Spec
=============================================================================
