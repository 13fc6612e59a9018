---------------------- MODULE SupervisorSingleton_proofs ----------------------
(***************************************************************************)
(* For any set of Supervisor processes: types, and that an orderly         *)
(* shutdown leaves no key, no hash and no node process behind.             *)
(***************************************************************************)
EXTENDS SupervisorSingleton, TLAPS

(***************************************************************************)
(* Type correctness.                                                       *)
(***************************************************************************)

\* The initial state is well typed.
LEMMA InitType == Init => TypeOK
BY DEF Init, TypeOK, MainPc, HbPc

\* Every step keeps the types.
LEMMA NextType == TypeOK /\ [Next]_vars => TypeOK'
<1> SUFFICES ASSUME TypeOK, [Next]_vars PROVE TypeOK'
  OBVIOUS
<1> USE DEF TypeOK, MainPc, HbPc, goto, beat
<1>1. CASE UNCHANGED vars
  BY <1>1 DEF vars
<1>2. ASSUME NEW p \in Proc, Start(p) PROVE TypeOK'
  BY <1>2 DEF Start, CanvasBoot, Flushed, StartByHand
<1>3. ASSUME NEW p \in Proc, MainThread(p) PROVE TypeOK'
  <2>1. CASE CanvasEnsure(p) \/ AcquireNx(p) \/ AcquireCheck(p) \/ Steal(p) \/ ServerStart(p)
    BY <2>1 DEF CanvasEnsure, LooksAlive, AcquireNx, AcquireCheck, Steal, ServerStart
  <2>2. CASE NoticeLoss(p) \/ ClearAlive(p)
    BY <2>2 DEF NoticeLoss, BeginShutdown, ClearAlive
  <2>3. CASE ReleaseGet(p) \/ ReleaseDelete(p)
    BY <2>3 DEF ReleaseGet, ReleaseDelete, AfterRelease
  <2>4. CASE Join(p) \/ KillAll(p)
    BY <2>4 DEF Join, KillAll
  <2> QED BY <1>3, <2>1, <2>2, <2>3, <2>4 DEF MainThread
<1>4. ASSUME NEW p \in Proc, HeartbeatThread(p) PROVE TypeOK'
  BY <1>4 DEF HeartbeatThread, HbLoop, HbMark, HbGet, HbNx, LoseSingleton
<1>5. ASSUME NEW p \in Proc, Environment(p) PROVE TypeOK'
  <2>1. CASE LaunchNode(p) \/ Signal(p) \/ SignalEarly(p) \/ Crash(p)
    BY <2>1 DEF LaunchNode, Signal, SignalEarly, Crash, BeginShutdown
  <2>2. CASE StartFails(p) \/ HbFails(p) \/ CleanupFails(p)
    BY <2>2 DEF StartFails, HbFails, CleanupFails, AfterRelease
  <2> QED BY <1>5, <2>1, <2>2 DEF Environment
<1>6. CASE AliveExpires \/ SingletonExpires
  BY <1>6 DEF AliveExpires, SingletonExpires
<1> QED BY <1>1, <1>2, <1>3, <1>4, <1>5, <1>6 DEF Next

\* Every reachable state is well typed: the keys hold an owner token or
\* nothing, and every thread is at a line of the code.
THEOREM TypeCorrect == Spec => []TypeOK
<1> QED BY InitType, NextType, PTL DEF Spec

(***************************************************************************)
(* Cleanup.  NothingLeftBehind is not inductive: it needs that the         *)
(* heartbeat thread, which writes both keys, runs only until the joins,    *)
(* and that the second clear and release come after them.                  *)
(***************************************************************************)

\* p may still have node processes: it has not yet run kill_all.
Kept(p) ==
  \/ pc[p] \in {"serving", "join", "killAll", "crashed"}
  \/ pc[p] \in {"clear", "release", "delete"} /\ ~ joined[p]

HeartbeatBeforeJoin ==
  \A p \in Proc : hb[p] # "off" =>
    pc[p] \in {"serving", "clear", "release", "delete", "join"} /\ ~ joined[p]

JoinedLate ==
  \A p \in Proc :
    /\ joined[p] =>
         pc[p] \in {"killAll", "clear", "release", "delete", "exited", "crashed"}
    /\ pc[p] = "killAll" => joined[p]

OwnerNotGone == \A p \in Proc : Gone(p) => singleton # p

NodesKept == listed \subseteq nodes /\ \A p \in nodes : Kept(p)

AliveKept == alive => \E p \in Proc : Kept(p) \/ pc[p] = "clear"

CleanupInv ==
  TypeOK /\ HeartbeatBeforeJoin /\ JoinedLate /\ OwnerNotGone /\ NodesKept /\ AliveKept

\* Before any start there is nothing to clean up.
LEMMA InitCleanup == Init => CleanupInv
BY InitType, NoOwnerAssumption DEF Init, CleanupInv, HeartbeatBeforeJoin, JoinedLate, OwnerNotGone,
  NodesKept, AliveKept, Gone, Kept

\* A start touches the keys of other processes only by flushing them.
LEMMA StartCleanup ==
  ASSUME CleanupInv, NEW p \in Proc, Start(p)
  PROVE  CleanupInv'
<1>1. TypeOK'
  BY NextType DEF CleanupInv, Next
<1> QED
  BY <1>1, NoOwnerAssumption DEF CleanupInv, TypeOK, HeartbeatBeforeJoin,
    JoinedLate, OwnerNotGone, NodesKept, AliveKept, Gone, Kept, Start,
    CanvasBoot, Flushed, StartByHand, goto

\* The main thread clears and releases after the joins, if these do not time out.
LEMMA MainThreadCleanup ==
  ASSUME ~ Stalls, ~ RedisFails, CleanupInv, NEW p \in Proc, MainThread(p)
  PROVE  CleanupInv'
<1> USE DEF CleanupInv, TypeOK, HeartbeatBeforeJoin, JoinedLate, OwnerNotGone,
    NodesKept, AliveKept, Gone, Kept, goto, beat
<1>1. TypeOK'
  BY NextType DEF Next
<1>2. CASE CanvasEnsure(p) \/ AcquireCheck(p)
  BY <1>1, <1>2 DEF CanvasEnsure, AcquireCheck, LooksAlive
<1>3. CASE AcquireNx(p) \/ Steal(p)
  BY <1>1, <1>3 DEF AcquireNx, Steal
<1>4. CASE ServerStart(p)
  BY <1>1, <1>4 DEF ServerStart
<1>5. CASE NoticeLoss(p)
  BY <1>1, <1>5 DEF NoticeLoss, BeginShutdown
<1>6. CASE ClearAlive(p)
  BY <1>1, <1>6 DEF ClearAlive
<1>7. CASE ReleaseGet(p)
  BY <1>1, <1>7 DEF ReleaseGet, AfterRelease
<1>8. CASE ReleaseDelete(p)
  BY <1>1, <1>8, NoOwnerAssumption DEF ReleaseDelete, AfterRelease
<1>9. CASE Join(p)
  BY <1>1, <1>9 DEF Join
<1>10. CASE KillAll(p)
  BY <1>1, <1>10 DEF KillAll
<1> QED
  BY <1>2, <1>3, <1>4, <1>5, <1>6, <1>7, <1>8, <1>9, <1>10 DEF MainThread

\* The heartbeat thread writes the keys only before the joins.
LEMMA HeartbeatCleanup ==
  ASSUME CleanupInv, NEW p \in Proc, HeartbeatThread(p)
  PROVE  CleanupInv'
<1> USE DEF CleanupInv, TypeOK, HeartbeatBeforeJoin, JoinedLate, OwnerNotGone,
    NodesKept, AliveKept, Gone, Kept, beat
<1>1. TypeOK'
  BY NextType DEF Next
<1>2. CASE HbLoop(p) \/ HbMark(p)
  BY <1>1, <1>2 DEF HbLoop, HbMark
<1>3. CASE HbGet(p) \/ HbNx(p)
  BY <1>1, <1>3 DEF HbGet, HbNx, LoseSingleton
<1> QED BY <1>2, <1>3 DEF HeartbeatThread

\* Launches happen before kill_all; a signal starts the same shutdown.
LEMMA EnvironmentCleanup ==
  ASSUME ~ Stalls, ~ RedisFails, CleanupInv, NEW p \in Proc, Environment(p)
  PROVE  CleanupInv'
<1> USE DEF CleanupInv, TypeOK, HeartbeatBeforeJoin, JoinedLate, OwnerNotGone,
    NodesKept, AliveKept, Gone, Kept, goto, beat
<1>1. TypeOK'
  BY NextType DEF Next
<1>2. CASE LaunchNode(p)
  BY <1>1, <1>2 DEF LaunchNode
<1>3. CASE Signal(p) \/ SignalEarly(p)
  BY <1>1, <1>3 DEF Signal, SignalEarly, BeginShutdown
<1>4. CASE Crash(p)
  BY <1>1, <1>4 DEF Crash
<1> QED BY <1>2, <1>3, <1>4 DEF Environment, StartFails, HbFails, CleanupFails

\* The invariant is inductive when nothing stalls and Redis answers.
LEMMA NextCleanup == ~ Stalls /\ ~ RedisFails /\ CleanupInv /\ [Next]_vars => CleanupInv'
<1> SUFFICES ASSUME ~ Stalls, ~ RedisFails, CleanupInv, [Next]_vars PROVE CleanupInv'
  OBVIOUS
<1>1. TypeOK'
  BY NextType DEF CleanupInv
<1>2. CASE UNCHANGED vars
  BY <1>1, <1>2 DEF vars, CleanupInv, HeartbeatBeforeJoin, JoinedLate, OwnerNotGone,
    NodesKept, AliveKept, Gone, Kept
<1>3. CASE AliveExpires
  BY <1>1, <1>3 DEF AliveExpires, CleanupInv,
    HeartbeatBeforeJoin, JoinedLate, OwnerNotGone, NodesKept, AliveKept, Gone, Kept
<1>4. CASE SingletonExpires
  BY <1>1, <1>4, NoOwnerAssumption DEF SingletonExpires, CleanupInv,
    HeartbeatBeforeJoin, JoinedLate, OwnerNotGone, NodesKept, AliveKept, Gone, Kept
<1> QED
  BY <1>2, <1>3, <1>4, StartCleanup, MainThreadCleanup, HeartbeatCleanup,
    EnvironmentCleanup DEF Next

\* The invariant implies the property.
LEMMA CleanupSuffices == CleanupInv => NothingLeftBehind
<1> SUFFICES ASSUME CleanupInv PROVE NothingLeftBehind
  OBVIOUS
<1>1. \A p \in Proc : Gone(p) => ~ Kept(p) /\ pc[p] # "clear"
  BY DEF Gone, Kept
<1>2. nodes \subseteq Proc
  BY DEF CleanupInv, TypeOK
<1> QED
  BY <1>1, <1>2 DEF CleanupInv, OwnerNotGone, NodesKept, AliveKept, NothingLeftBehind

\* If no thread outlives its join and no Redis command fails, an orderly shutdown
\* leaves nothing behind, for any number of Supervisors, however they were
\* started, signalled, killed or flushed.
THEOREM CleanShutdown ==
  ASSUME ~ Stalls, ~ RedisFails
  PROVE  Spec => []NothingLeftBehind
<1> QED BY InitCleanup, NextCleanup, CleanupSuffices, PTL DEF Spec

(***************************************************************************)
(* Survival.  Without signals and crashes a Supervisor stops only because  *)
(* another process took the singleton, and whoever has it has not stopped  *)
(* unless it died of a Redis error between taking it and serving.          *)
(***************************************************************************)

Undisturbed == {"crash", "signal"} \cap Faults = {}

Started(p) == ~ Gone(p) \/ pc[p] = "exited"

HeartbeatOnlyServing ==
  \A p \in Proc : hb[p] # "off" => pc[p] = "serving" /\ ~ stop[p]

StopsOnlyOnLoss ==
  \A p \in Proc :
    /\ stop[p] => Started(p) /\ pc[p] # "held"
    /\ Started(p) /\ ~ Active(p) => stop[p] \/ pc[p] = "failed"
    /\ pc[p] \notin {"delete", "crashed"}

OwnerInCharge ==
  \A p \in Proc : singleton = p =>
    (Active(p) \/ pc[p] = "failed") /\ ~ stop[p] /\ hb[p] # "nx"

SurvivorInv ==
  TypeOK /\ HeartbeatOnlyServing /\ StopsOnlyOnLoss /\ OwnerInCharge /\ SurvivorHoldsLock

\* Before any start there is no owner and nobody was told to stop.
LEMMA InitSurvivor == Init => SurvivorInv
BY InitType, NoOwnerAssumption DEF Init, SurvivorInv, HeartbeatOnlyServing,
  StopsOnlyOnLoss, OwnerInCharge, SurvivorHoldsLock, Started, Gone, Active

\* Taking the lock makes its taker the survivor; giving up leaves the owner.
LEMMA ThreadsSurvive ==
  ASSUME SurvivorInv, NEW p \in Proc, MainThread(p) \/ HeartbeatThread(p)
  PROVE  SurvivorInv'
<1> USE NoOwnerAssumption DEF SurvivorInv, HeartbeatOnlyServing, StopsOnlyOnLoss,
    OwnerInCharge, SurvivorHoldsLock, Started, Gone, Active, goto, beat
<1>1. TypeOK'
  BY NextType DEF Next
<1> USE DEF TypeOK
<1>2. CASE CanvasEnsure(p) \/ AcquireCheck(p)
  <2>1. pc[p] \in {"boot", "check"} /\ UNCHANGED <<singleton, stop, hb>>
    BY <1>2 DEF CanvasEnsure, AcquireCheck
  <2>2. \E l \in {"reused", "acquire", "refused", "steal"} :
          pc' = [pc EXCEPT ![p] = l]
    BY <1>2 DEF CanvasEnsure, AcquireCheck
  <2> QED BY <1>1, <2>1, <2>2
<1>3. CASE AcquireNx(p) \/ Steal(p)
  BY <1>1, <1>3 DEF AcquireNx, Steal
<1>4. CASE ServerStart(p)
  BY <1>1, <1>4 DEF ServerStart
<1>5. CASE NoticeLoss(p)
  BY <1>1, <1>5 DEF NoticeLoss, BeginShutdown
<1>6. CASE ClearAlive(p) \/ Join(p) \/ KillAll(p)
  BY <1>1, <1>6 DEF ClearAlive, Join, KillAll
<1>7. CASE ReleaseGet(p) \/ ReleaseDelete(p)
  BY <1>1, <1>7 DEF ReleaseGet, ReleaseDelete, AfterRelease
<1>8. CASE HbLoop(p) \/ HbMark(p)
  BY <1>1, <1>8 DEF HbLoop, HbMark
<1>9. CASE HbGet(p)
  BY <1>1, <1>9 DEF HbGet, LoseSingleton
<1>10. CASE HbNx(p)
  BY <1>1, <1>10 DEF HbNx, LoseSingleton
<1> QED
  BY <1>2, <1>3, <1>4, <1>5, <1>6, <1>7, <1>8, <1>9, <1>10
  DEF MainThread, HeartbeatThread

\* Starts, launches, flushes, failures and expiries take no survivor away.
LEMMA OthersSurvive ==
  ASSUME Undisturbed, SurvivorInv, NEW p \in Proc, Start(p) \/ Environment(p)
  PROVE  SurvivorInv'
<1> USE NoOwnerAssumption DEF SurvivorInv, HeartbeatOnlyServing, StopsOnlyOnLoss,
    OwnerInCharge, SurvivorHoldsLock, Started, Gone, Active, goto, beat
<1>1. TypeOK'
  BY NextType DEF Next
<1> USE DEF TypeOK
<1>2. CASE Start(p)
  BY <1>1, <1>2 DEF Start, CanvasBoot, Flushed, StartByHand
<1>3. CASE LaunchNode(p)
  BY <1>1, <1>3 DEF LaunchNode
<1>4. CASE StartFails(p) \/ HbFails(p)
  BY <1>1, <1>4 DEF StartFails, HbFails
<1>5. CASE CleanupFails(p)
  BY <1>1, <1>5 DEF CleanupFails, AfterRelease
<1> QED
  BY <1>2, <1>3, <1>4, <1>5 DEF Environment, Signal, SignalEarly, Crash, Undisturbed

\* The invariant is inductive without signals and crashes.
LEMMA NextSurvivor == Undisturbed /\ SurvivorInv /\ [Next]_vars => SurvivorInv'
<1> SUFFICES ASSUME Undisturbed, SurvivorInv, [Next]_vars PROVE SurvivorInv'
  OBVIOUS
<1>1. TypeOK'
  BY NextType DEF SurvivorInv
<1>2. CASE UNCHANGED vars \/ AliveExpires
  BY <1>1, <1>2 DEF vars, AliveExpires, SurvivorInv, HeartbeatOnlyServing,
    StopsOnlyOnLoss, OwnerInCharge, SurvivorHoldsLock, Started, Gone, Active
<1>3. CASE SingletonExpires
  BY <1>1, <1>3, NoOwnerAssumption DEF SingletonExpires, SurvivorInv, TypeOK,
    HeartbeatOnlyServing, StopsOnlyOnLoss, OwnerInCharge, SurvivorHoldsLock,
    Started, Gone, Active
<1> QED
  BY <1>2, <1>3, ThreadsSurvive, OthersSurvive DEF Next

\* As long as no Supervisor is signalled or crashes, flushes, steals (also from
\* a live one, after a failed EXISTS), failing commands, stalls and expiries
\* never drive all of them out: one that got past the singleton stays, and the
\* key is its own or free, unless one died of a Redis error while it started
\* with the lock.
THEOREM Survival ==
  ASSUME Undisturbed
  PROVE  Spec => []SurvivorHoldsLock
<1>1. SurvivorInv => SurvivorHoldsLock
  BY DEF SurvivorInv
<1> QED BY <1>1, InitSurvivor, NextSurvivor, PTL DEF Spec

=============================================================================
