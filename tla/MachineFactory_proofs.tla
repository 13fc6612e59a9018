------------------------ MODULE MachineFactory_proofs ------------------------
(***************************************************************************)
(* For any orders, faults and number of mishaps: types, one report for     *)
(* each run, no run forgotten, and the contract of SandboxRun.  The last   *)
(* three are about one order at a time; the invariant says for an order    *)
(* whose cancel did not miss its container what the manager and its        *)
(* sandbox each know of the other's writes.                                *)
(***************************************************************************)
EXTENDS MachineFactory, TLAPS

Resting == {"down", "idle", "orders", "due", "runs", "list", "sidecars"}
Finishing == {"finishSet", "finishAdd", "finishDel"}

\* What teardown is about to write is an outcome.
Settled == \A o \in Order : box[o] \in {"settle", "publish"} => result[o] \in Status

TypeInv == TypeOK /\ Settled

\* At first no order is known to anybody.
LEMMA InitType == Init => TypeInv
BY OrderAssumption, FaultsAssumption
   DEF Init, TypeInv, TypeOK, Settled, HashState, BoxState, ManagerPc, Status

\* Every step of the manager, of a sandbox and of bad luck keeps the types.
LEMMA NextType == TypeInv /\ [Next]_vars => TypeInv'
<1> SUFFICES ASSUME TypeInv, [Next]_vars PROVE TypeInv'
  OBVIOUS
<1> USE OrderAssumption, FaultsAssumption
    DEF TypeInv, TypeOK, Settled, HashState, BoxState, ManagerPc, Status, Parses, WithStatus, Up,
        At, Between, Mishap, boxVars, history, mgrVars
<1>1. CASE UNCHANGED vars
  BY <1>1 DEF vars
<1>2. CASE \E o \in Order : Publish(o)
  BY <1>2 DEF Publish
<1>3. CASE Listen \/ Drain
  BY <1>3 DEF Listen, Drain
<1>4. CASE \E o \in Order : StoreOrder(o) \/ StoreUnusable(o)
  <2>1. ASSUME NEW o \in Order, StoreOrder(o) PROVE TypeInv'
    BY <2>1 DEF StoreOrder
  <2>2. ASSUME NEW o \in Order, StoreUnusable(o) PROVE TypeInv'
    BY <2>2 DEF StoreUnusable
  <2> QED
    BY <1>4, <2>1, <2>2
<1>5. CASE WriteHash \/ StartSidecar \/ StartContainer
  <2>1. CASE WriteHash
    BY <2>1 DEF WriteHash
  <2>2. CASE StartSidecar
    BY <2>2 DEF StartSidecar
  <2>3. CASE StartContainer
    BY <2>3 DEF StartContainer
  <2> QED
    BY <1>5, <2>1, <2>2, <2>3
<1>6. CASE LaunchFails
  BY <1>6 DEF LaunchFails
<1>7. CASE MarkRunning
  BY <1>7 DEF MarkRunning
<1>8. CASE OrdersDone \/ RunsNotDue \/ RunsDue \/ RunsDone \/ SidecarsDone
  BY <1>8 DEF OrdersDone, RunsNotDue, RunsDue, RunsDone, SidecarsDone
<1>9. CASE \E o \in Order : PollRun(o)
  <2> PICK o \in Order : PollRun(o)
    BY <1>9
  <2>1. /\ mishaps' \in 0..MaxMishaps /\ missing' \in [Order -> {"no", "noticed", "due"}]
        /\ pc' \in {"runs", "reap"} /\ cur' \in Order \cup {NoOrder}
        /\ cur' = NoOrder <=> pc' = "runs"
    <3>1. mishaps' \in 0..MaxMishaps
      BY DEF PollRun, SeenRunning, SeenGone
    <3>2. missing' = missing \/ \E age \in {"no", "noticed"} : missing' = [missing EXCEPT ![o] = age]
      BY Zenon DEF PollRun
    <3>3. missing' \in [Order -> {"no", "noticed", "due"}]
      <4>1. missing \in [Order -> {"no", "noticed", "due"}]
        OBVIOUS
      <4> HIDE DEF TypeInv, TypeOK
      <4> QED
        BY <3>2, <4>1
    <3>4. (pc' = "runs" /\ cur' = NoOrder) \/ (pc' = "reap" /\ cur' = o)
      BY DEF PollRun
    <3> QED
      BY <3>1, <3>3, <3>4
  <2> QED
    BY <2>1 DEF PollRun
<1>10. CASE \E o \in Order : GraceEnds(o)
  BY <1>10 DEF GraceEnds
<1>11. CASE Reap
  <2>1. /\ mishaps' \in 0..MaxMishaps /\ sidecar' \subseteq Order
    BY <1>11 DEF Reap, Released
  <2>2. CASE order[cur] = "trimmed"
    BY <1>11, <2>1, <2>2, ZenonT(30) DEF Reap
  <2>3. CASE order[cur] # "trimmed"
    BY <1>11, <2>1, <2>3 DEF Reap
  <2> QED
    BY <2>2, <2>3
<1>12. CASE FinishSet \/ FinishDel
  BY <1>12, ZenonT(30) DEF FinishSet, FinishDel
<1>13. CASE FinishAdd
  BY <1>13 DEF FinishAdd
<1>14. CASE ListSidecars
  BY <1>14 DEF ListSidecars
<1>15. CASE \E o \in Order : PollSidecar(o)
  BY <1>15 DEF PollSidecar, SeenRunning, Released
<1>16. ASSUME NEW o \in Order, CancelStop(o) PROVE TypeInv'
  <2>1. /\ pc' = "cancel" /\ cur' = o /\ sidecar' = sidecar \ {o} /\ mishaps' \in 0..MaxMishaps
        /\ UNCHANGED <<order, hash, finished, result, missing, todo, back>>
    BY <1>16 DEF CancelStop
  <2>2. /\ box' = box \/ box' = [box EXCEPT ![o] = "gone"]
        /\ cut' \in {cut, cut \cup {o}} /\ missed' \in {missed, missed \cup {o}}
    BY <1>16 DEF CancelStop
  <2>3. Settled'
    BY <2>1, <2>2
  <2>4. TypeOK'
    BY <2>1, <2>2
  <2> QED
    BY <2>3, <2>4
<1>17. CASE CancelMark
  BY <1>17 DEF CancelMark
<1>18. CASE RedisFails
  BY <1>18 DEF RedisFails, TakenAreLost
<1>19. CASE ManagerDies
  BY <1>19 DEF ManagerDies, TakenAreLost
<1>20. CASE \E o \in Order : Trim(o)
  BY <1>20 DEF Trim
<1>21. CASE \E o \in Order : BoxStarts(o) \/ BoxSettles(o) \/ BoxDeletes(o) \/ BoxExits(o)
  <2>1. ASSUME NEW o \in Order, BoxStarts(o) PROVE TypeInv'
    <3>1. CASE Startable(o)
      <4>1. /\ hash' = [hash EXCEPT ![o] = "running"] /\ box' = [box EXCEPT ![o] = "work"]
            /\ UNCHANGED <<order, finished, result, sidecar, mgrVars, mishaps, history>>
        BY <2>1, <3>1 DEF BoxStarts
      <4>2. Settled'
        BY <4>1
      <4>3. TypeOK'
        BY <4>1
      <4> QED
        BY <4>2, <4>3
    <3>2. CASE ~ Startable(o)
      <4>1. /\ box' = [box EXCEPT ![o] = "settle"] /\ result' = [result EXCEPT ![o] = "error"]
            /\ UNCHANGED <<order, hash, finished, sidecar, mgrVars, mishaps, history>>
        BY <2>1, <3>2 DEF BoxStarts
      <4>2. Settled'
        BY <4>1
      <4>3. TypeOK'
        BY <4>1
      <4> QED
        BY <4>2, <4>3
    <3> QED
      BY <3>1, <3>2
  <2>2. ASSUME NEW o \in Order, BoxSettles(o) PROVE TypeInv'
    BY <2>2 DEF BoxSettles
  <2>3. ASSUME NEW o \in Order, BoxDeletes(o) PROVE TypeInv'
    BY <2>3 DEF BoxDeletes
  <2>4. ASSUME NEW o \in Order, BoxExits(o) PROVE TypeInv'
    BY <2>4 DEF BoxExits
  <2> QED
    BY <1>21, <2>1, <2>2, <2>3, <2>4
<1>22. CASE \E o \in Order, status \in Status : BoxWorks(o, status)
  BY <1>22 DEF BoxWorks
<1>23. CASE \E o \in Order : BoxPublishes(o)
  BY <1>23 DEF BoxPublishes
<1>24. CASE \E o \in Order : BoxRedisFails(o) \/ BoxDies(o)
  <2>1. ASSUME NEW o \in Order, BoxRedisFails(o) PROVE TypeInv'
    <3>1. CASE box[o] = "boot"
      <4>1. /\ box' = [box EXCEPT ![o] = "settle"] /\ result' = [result EXCEPT ![o] = "error"]
            /\ mishaps' \in 0..MaxMishaps
            /\ UNCHANGED <<order, hash, finished, sidecar, mgrVars, history>>
        BY <2>1, <3>1 DEF BoxRedisFails
      <4>2. Settled'
        BY <4>1
      <4>3. TypeOK'
        BY <4>1
      <4> QED
        BY <4>2, <4>3
    <3>2. CASE box[o] # "boot"
      BY <2>1, <3>2 DEF BoxRedisFails
    <3> QED
      BY <3>1, <3>2
  <2>2. ASSUME NEW o \in Order, BoxDies(o) PROVE TypeInv'
    BY <2>2 DEF BoxDies
  <2> QED
    BY <1>24, <2>1, <2>2
<1> QED
  BY <1>1, <1>2, <1>3, <1>4, <1>5, <1>6, <1>7, <1>8, <1>9, <1>10, <1>11, <1>12, <1>13, <1>14,
     <1>15, <1>16, <1>17, <1>18, <1>19, <1>20, <1>21, <1>22, <1>23, <1>24
     DEF Next, ManagerStep, BoxStep, Mischance

\* Every reachable state of MachineFactory is well typed.
THEOREM TypeCorrect == Spec => []TypeOK
<1>1. TypeInv => TypeOK
  BY DEF TypeInv
<1> QED
  BY <1>1, InitType, NextType, PTL DEF Spec

-----------------------------------------------------------------------------
(***************************************************************************)
(* One run, for as long as no cancel has missed its container.             *)
(***************************************************************************)

\* Nothing exists of a run before its hash is written.
Fresh(o) == hash[o] = "none" /\ box[o] = "none" /\ finished[o] = <<>> /\ missing[o] = "no"

\* The manager launches a run once: its order comes off the subscription once,
\* and until the container is started nobody else knows of it.
Launched(o) ==
  /\ order[o] \notin {"stored", "trimmed"} => Fresh(o) /\ cur # o
  /\ PollingRuns /\ o \in todo => order[o] \in {"stored", "trimmed"}
  /\ cur = o /\ pc = "write" => Fresh(o)
  /\ cur = o /\ pc \in {"sidecar", "container"} =>
       Parses(hash[o]) /\ box[o] = "none" /\ finished[o] = <<>> /\ missing[o] = "no"

\* A sandbox that has not reported has its hash, and one that is about to delete
\* the hash has reported.
Reports(o) ==
  /\ box[o] \in {"boot", "work", "settle", "publish"} => Parses(hash[o]) /\ finished[o] = <<>>
  /\ box[o] = "delete" => finished[o] # <<>>

\* The manager speaks for a run only when its sandbox is not up and its hash is
\* there: what was missing for the time of grace does not come back.
Reaped(o) ==
  /\ missing[o] = "due" => ~ Up(o)
  /\ PollingRuns /\ o \in todo /\ missing[o] = "due" => Parses(hash[o])
  /\ cur = o /\ pc \in {"reap", "cancel"} \cup Finishing => Parses(hash[o]) /\ ~ Up(o)
  /\ cur = o /\ pc = "finishDel" => finished[o] # <<>>

RunInv == \A o \in Order \ missed : Launched(o) /\ Reports(o) /\ Reaped(o)

\* A run whose hash is there was not reported, unless its reporter is about to
\* delete the hash.
Once(o) ==
  /\ Len(finished[o]) <= 1
  /\ Parses(hash[o]) /\ finished[o] # <<>> =>
       box[o] = "delete" \/ (cur = o /\ pc = "finishDel")

OnceInv == \A o \in Order \ (cut \cup missed) : Once(o)

\* An entry on a stream is there to be read.
LEMMA TellIsHeard ==
  ASSUME NEW s \in Seq(Status), NEW status \in Status
  PROVE  Append(s, status) # <<>> /\ Len(Append(s, status)) = Len(s) + 1
<1>1. Append(s, status) \in Seq(Status) /\ Len(Append(s, status)) = Len(s) + 1 /\ Len(s) \in Nat
  OBVIOUS
<1>2. Len(<<>>) = 0
  OBVIOUS
<1> QED
  BY <1>1, <1>2

\* Each step of the manager and of the sandboxes keeps what they know of each other.
LEMMA NextRun == TypeInv /\ RunInv /\ [Next]_vars => RunInv'
<1> SUFFICES ASSUME TypeInv, RunInv, [Next]_vars, NEW o \in Order \ missed'
             PROVE  (Launched(o) /\ Reports(o) /\ Reaped(o))'
  BY DEF RunInv
<1> USE OrderAssumption DEF TypeInv, TypeOK, Settled, Status, Parses, WithStatus, Up, PollingRuns,
        At, Between, Mishap, boxVars, history, mgrVars, Launched, Fresh, Reports, Reaped, Finishing
<1>0. o \in Order /\ o \notin missed /\ Launched(o) /\ Reports(o) /\ Reaped(o)
  <2>1. missed \subseteq missed'
    BY DEF Next, ManagerStep, BoxStep, Mischance, vars, Publish, Listen, Drain, StoreOrder,
       StoreUnusable, WriteHash, StartSidecar, StartContainer, LaunchFails, MarkRunning, Trim,
       OrdersDone, RunsNotDue, RunsDue, PollRun, GraceEnds, Reap, FinishSet, FinishAdd, FinishDel,
       RunsDone, ListSidecars, PollSidecar, SidecarsDone, CancelStop, CancelMark, RedisFails,
       ManagerDies, BoxStarts, BoxWorks, BoxSettles, BoxPublishes, BoxDeletes, BoxExits,
       BoxRedisFails, BoxDies
  <2> QED
    BY <2>1 DEF RunInv
<1>1. CASE UNCHANGED vars
  BY <1>0, <1>1 DEF vars
<1>2. CASE \E p \in Order : Publish(p)
  BY <1>0, <1>2 DEF Publish
<1>3. CASE Listen \/ Drain
  BY <1>0, <1>3 DEF Listen, Drain
<1>4. CASE \E p \in Order : StoreOrder(p) \/ StoreUnusable(p)
  BY <1>0, <1>4 DEF StoreOrder, StoreUnusable
<1>5. CASE WriteHash \/ StartSidecar
  BY <1>0, <1>5 DEF WriteHash, StartSidecar
<1>25. CASE StartContainer
  BY <1>0, <1>25 DEF StartContainer
<1>6. CASE LaunchFails
  BY <1>0, <1>6 DEF LaunchFails
<1>7. CASE MarkRunning
  BY <1>0, <1>7 DEF MarkRunning
<1>8. CASE OrdersDone \/ RunsNotDue \/ RunsDone \/ SidecarsDone
  BY <1>0, <1>8 DEF OrdersDone, RunsNotDue, RunsDone, SidecarsDone
<1>26. CASE RunsDue
  BY <1>0, <1>26 DEF RunsDue
<1>9. CASE \E p \in Order : PollRun(p)
  <2> PICK p \in Order : PollRun(p)
    BY <1>9
  <2>1. CASE pc' = "reap"
    BY <1>0, <2>1 DEF PollRun, SeenGone
  <2>2. CASE pc' = "runs"
    <3>1. missing'[o] = missing[o] \/ missing'[o] \in {"no", "noticed"}
      BY <1>0, <2>2 DEF PollRun
    <3>2. CASE o # p
      BY <1>0, <2>2, <3>1, <3>2 DEF PollRun
    <3>3. CASE o = p
      BY <1>0, <2>2, <3>1, <3>3 DEF PollRun
    <3> QED
      BY <3>2, <3>3
  <2> QED
    BY <2>1, <2>2 DEF PollRun
<1>10. CASE \E p \in Order : GraceEnds(p)
  BY <1>0, <1>10 DEF GraceEnds
<1>11. CASE Reap
  BY <1>0, <1>11 DEF Reap
<1>12. CASE FinishSet \/ FinishDel
  BY <1>0, <1>12 DEF FinishSet, FinishDel
<1>13. CASE FinishAdd
  <2>1. Append(finished[cur], "error") # <<>>
    BY <1>13, TellIsHeard DEF FinishAdd
  <2> QED
    BY <1>0, <1>13, <2>1 DEF FinishAdd
<1>14. CASE ListSidecars
  BY <1>0, <1>14 DEF ListSidecars
<1>15. CASE \E p \in Order : PollSidecar(p)
  BY <1>0, <1>15 DEF PollSidecar
<1>16. CASE \E p \in Order : CancelStop(p)
  BY <1>0, <1>16 DEF CancelStop
<1>17. CASE CancelMark
  BY <1>0, <1>17 DEF CancelMark
<1>18. CASE RedisFails
  BY <1>0, <1>18 DEF RedisFails, TakenAreLost
<1>19. CASE ManagerDies
  BY <1>0, <1>19 DEF ManagerDies, TakenAreLost
<1>20. CASE \E p \in Order : Trim(p)
  BY <1>0, <1>20 DEF Trim
<1>21. CASE \E p \in Order : BoxStarts(p) \/ BoxSettles(p) \/ BoxDeletes(p) \/ BoxExits(p)
  <2>1. ASSUME NEW p \in Order, BoxStarts(p) PROVE (Launched(o) /\ Reports(o) /\ Reaped(o))'
    BY <1>0, <2>1, SMTT(30) DEF BoxStarts, Startable
  <2>2. ASSUME NEW p \in Order, BoxSettles(p) PROVE (Launched(o) /\ Reports(o) /\ Reaped(o))'
    BY <1>0, <2>2 DEF BoxSettles
  <2>3. ASSUME NEW p \in Order, BoxDeletes(p) PROVE (Launched(o) /\ Reports(o) /\ Reaped(o))'
    BY <1>0, <2>3 DEF BoxDeletes
  <2>4. ASSUME NEW p \in Order, BoxExits(p) PROVE (Launched(o) /\ Reports(o) /\ Reaped(o))'
    BY <1>0, <2>4 DEF BoxExits
  <2> QED
    BY <1>21, <2>1, <2>2, <2>3, <2>4
<1>22. CASE \E p \in Order, status \in Status : BoxWorks(p, status)
  BY <1>0, <1>22 DEF BoxWorks
<1>23. CASE \E p \in Order : BoxPublishes(p)
  BY <1>0, <1>23 DEF BoxPublishes
<1>24. CASE \E p \in Order : BoxRedisFails(p) \/ BoxDies(p)
  BY <1>0, <1>24 DEF BoxRedisFails, BoxDies
<1> QED
  BY <1>1, <1>2, <1>3, <1>4, <1>5, <1>6, <1>7, <1>8, <1>9, <1>10, <1>11, <1>12, <1>13, <1>14,
     <1>15, <1>16, <1>17, <1>18, <1>19, <1>20, <1>21, <1>22, <1>23, <1>24, <1>25, <1>26
     DEF Next, ManagerStep, BoxStep, Mischance

-----------------------------------------------------------------------------
(***************************************************************************)
(* One report.                                                             *)
(***************************************************************************)

\* Who is asked to report a run finds its hash, and whoever reported it takes the
\* hash back at once or is among the exceptions.
LEMMA NextOnce == TypeInv /\ RunInv /\ OnceInv /\ [Next]_vars => OnceInv'
<1> SUFFICES ASSUME TypeInv, RunInv, OnceInv, [Next]_vars, NEW o \in Order \ (cut' \cup missed')
             PROVE  Once(o)'
  BY DEF OnceInv
<1> USE OrderAssumption DEF TypeInv, TypeOK, Settled, Status, Parses, WithStatus, Up, At, Between,
        Mishap, boxVars, history, mgrVars, Launched, Fresh, Reports, Reaped, Finishing, Once
<1>0. o \in Order /\ o \notin cut \cup missed /\ Launched(o) /\ Reports(o) /\ Reaped(o) /\ Once(o)
  <2>1. missed \subseteq missed' /\ cut \subseteq cut'
    BY DEF Next, ManagerStep, BoxStep, Mischance, vars, Publish, Listen, Drain, StoreOrder,
       StoreUnusable, WriteHash, StartSidecar, StartContainer, LaunchFails, MarkRunning, Trim,
       OrdersDone, RunsNotDue, RunsDue, PollRun, GraceEnds, Reap, FinishSet, FinishAdd, FinishDel,
       RunsDone, ListSidecars, PollSidecar, SidecarsDone, CancelStop, CancelMark, RedisFails,
       ManagerDies, BoxStarts, BoxWorks, BoxSettles, BoxPublishes, BoxDeletes, BoxExits,
       BoxRedisFails, BoxDies
  <2> QED
    BY <2>1 DEF RunInv, OnceInv
<1>1. CASE UNCHANGED vars \/ Listen \/ Drain \/ \E p \in Order : Publish(p) \/ GraceEnds(p) \/ Trim(p)
  BY <1>0, <1>1 DEF vars, Listen, Drain, Publish, GraceEnds, Trim
<1>2. CASE \E p \in Order : StoreOrder(p) \/ StoreUnusable(p)
  BY <1>0, <1>2 DEF StoreOrder, StoreUnusable
<1>3. CASE WriteHash \/ StartSidecar \/ StartContainer
  BY <1>0, <1>3 DEF WriteHash, StartSidecar, StartContainer
<1>4. CASE LaunchFails \/ MarkRunning \/ CancelMark
  BY <1>0, <1>4 DEF LaunchFails, MarkRunning, CancelMark
<1>5. CASE OrdersDone \/ RunsNotDue \/ RunsDone \/ SidecarsDone \/ RunsDue \/ ListSidecars
  BY <1>0, <1>5 DEF OrdersDone, RunsNotDue, RunsDone, SidecarsDone, RunsDue, ListSidecars
<1>6. CASE \E p \in Order : PollRun(p) \/ PollSidecar(p)
  BY <1>0, <1>6 DEF PollRun, PollSidecar
<1>7. CASE Reap
  BY <1>0, <1>7 DEF Reap
<1>8. CASE FinishSet \/ FinishDel
  BY <1>0, <1>8 DEF FinishSet, FinishDel
<1>9. CASE FinishAdd
  BY <1>0, <1>9, TellIsHeard DEF FinishAdd
<1>10. CASE \E p \in Order : CancelStop(p)
  BY <1>0, <1>10 DEF CancelStop
<1>11. CASE RedisFails \/ ManagerDies
  BY <1>0, <1>11 DEF RedisFails, ManagerDies
<1>12. CASE \E p \in Order : BoxStarts(p)
  BY <1>0, <1>12 DEF BoxStarts, Startable
<1>13. CASE \E p \in Order : BoxSettles(p) \/ BoxExits(p) \/ \E status \in Status : BoxWorks(p, status)
  BY <1>0, <1>13 DEF BoxSettles, BoxExits, BoxWorks
<1>14. CASE \E p \in Order : BoxPublishes(p)
  BY <1>0, <1>14, TellIsHeard DEF BoxPublishes
<1>15. CASE \E p \in Order : BoxDeletes(p)
  BY <1>0, <1>15 DEF BoxDeletes
<1>16. CASE \E p \in Order : BoxRedisFails(p) \/ BoxDies(p)
  BY <1>0, <1>16 DEF BoxRedisFails, BoxDies
<1> QED
  BY <1>1, <1>2, <1>3, <1>4, <1>5, <1>6, <1>7, <1>8, <1>9, <1>10, <1>11, <1>12, <1>13, <1>14,
     <1>15, <1>16 DEF Next, ManagerStep, BoxStep, Mischance

\* At first nobody has written anything.
LEMMA InitRun == Init => RunInv /\ OnceInv
BY OrderAssumption DEF Init, RunInv, OnceInv, Launched, Fresh, Reports, Reaped, Once, Parses, Up,
   PollingRuns, Finishing

\* A run is reported once, by its sandbox or by the manager, unless the reporter
\* was cut off before it took the hash back, or a cancel missed the container.
THEOREM ReportedOnceEver == Spec => []ReportedOnce
<1>1. TypeInv /\ OnceInv => ReportedOnce
  BY DEF TypeInv, TypeOK, OnceInv, Once, ReportedOnce
<1> QED
  BY <1>1, InitType, InitRun, NextType, NextRun, NextOnce, PTL DEF Spec

-----------------------------------------------------------------------------
(***************************************************************************)
(* The contract of SandboxRun.                                             *)
(***************************************************************************)

\* What a step is to the contract.
ContractStep ==
  \A o \in Order : o \in missed \/ [Run(o)!ContractNext]_(Run(o)!contract)

\* Each step is a step of the contract for every such order, or leaves it alone.
LEMMA NextContract == TypeInv /\ RunInv /\ [Next]_vars => ContractStep
<1> SUFFICES ASSUME TypeInv, RunInv, [Next]_vars, NEW o \in Order, o \notin missed
             PROVE  [Run(o)!ContractNext]_(Run(o)!contract)
  BY DEF ContractStep
<1> USE OrderAssumption DEF TypeInv, TypeOK, Settled, Status, Parses, WithStatus, Up, At, Between,
        Mishap, boxVars, history, mgrVars, Launched, Fresh, Reports, Reaped, Finishing,
        Run!ContractNext, Run!contract
<1>0. Launched(o) /\ Reports(o) /\ Reaped(o)
  BY DEF RunInv
<1>1. CASE UNCHANGED vars \/ Listen \/ Drain \/ \E p \in Order : Publish(p) \/ GraceEnds(p) \/ Trim(p)
  BY <1>0, <1>1 DEF vars, Listen, Drain, Publish, GraceEnds, Trim
<1>2. CASE \E p \in Order : StoreOrder(p) \/ StoreUnusable(p) \/ PollRun(p) \/ PollSidecar(p)
  BY <1>0, <1>2 DEF StoreOrder, StoreUnusable, PollRun, PollSidecar
<1>3. CASE WriteHash
  <2>1. CASE cur = o
    <3>1. Run(o)!Register
      BY <1>0, <1>3, <2>1 DEF WriteHash, Run!Register
    <3> QED
      BY <3>1
  <2>2. CASE cur # o
    BY <1>0, <1>3, <2>2 DEF WriteHash
  <2> QED
    BY <2>1, <2>2
<1>4. CASE StartContainer
  <2>1. CASE cur = o
    <3>1. Run(o)!StartUp
      BY <1>0, <1>4, <2>1 DEF StartContainer, Run!StartUp
    <3> QED
      BY <3>1
  <2>2. CASE cur # o
    BY <1>0, <1>4, <2>2 DEF StartContainer
  <2> QED
    BY <2>1, <2>2
<1>5. CASE StartSidecar \/ LaunchFails \/ MarkRunning \/ CancelMark \/ FinishSet
  BY <1>0, <1>5 DEF StartSidecar, LaunchFails, MarkRunning, CancelMark, FinishSet
<1>6. CASE OrdersDone \/ RunsNotDue \/ RunsDone \/ SidecarsDone \/ RunsDue \/ ListSidecars
  BY <1>0, <1>6 DEF OrdersDone, RunsNotDue, RunsDone, SidecarsDone, RunsDue, ListSidecars
<1>7. CASE Reap
  <2>1. CASE cur = o /\ order[o] = "trimmed"
    <3>1. Run(o)!CloseUntold
      BY <1>0, <1>7, <2>1 DEF Reap, Run!CloseUntold
    <3> QED
      BY <3>1
  <2>2. CASE cur # o \/ order[o] # "trimmed"
    BY <1>0, <1>7, <2>2 DEF Reap
  <2> QED
    BY <2>1, <2>2
<1>8. CASE FinishAdd
  <2>1. CASE cur = o
    <3>1. Run(o)!TellForIt
      BY <1>0, <1>8, <2>1 DEF FinishAdd, Run!TellForIt
    <3> QED
      BY <3>1
  <2>2. CASE cur # o
    BY <1>0, <1>8, <2>2 DEF FinishAdd
  <2> QED
    BY <2>1, <2>2
<1>9. CASE FinishDel
  <2>1. CASE cur = o
    <3>1. Run(o)!Close
      BY <1>0, <1>9, <2>1 DEF FinishDel, Run!Close
    <3> QED
      BY <3>1
  <2>2. CASE cur # o
    BY <1>0, <1>9, <2>2 DEF FinishDel
  <2> QED
    BY <2>1, <2>2
<1>10. CASE RedisFails \/ ManagerDies
  BY <1>0, <1>10 DEF RedisFails, ManagerDies
<1>11. CASE \E p \in Order : BoxStarts(p) \/ BoxSettles(p) \/ \E status \in Status : BoxWorks(p, status)
  <2>1. ASSUME NEW p \in Order, BoxStarts(p) PROVE UNCHANGED Run(o)!contract
    BY <1>0, <2>1 DEF BoxStarts, Startable
  <2>2. ASSUME NEW p \in Order, BoxSettles(p) PROVE UNCHANGED Run(o)!contract
    BY <1>0, <2>2 DEF BoxSettles
  <2>3. ASSUME NEW p \in Order, NEW status \in Status, BoxWorks(p, status)
        PROVE  UNCHANGED Run(o)!contract
    BY <1>0, <2>3 DEF BoxWorks
  <2> QED
    BY <1>11, <2>1, <2>2, <2>3
<1>12. CASE \E p \in Order : BoxPublishes(p)
  <2>1. CASE BoxPublishes(o)
    <3>1. Run(o)!Tell(result[o])
      BY <1>0, <2>1 DEF BoxPublishes, Run!Tell
    <3> QED
      BY <2>1, <3>1 DEF BoxPublishes, Run!Outcome
  <2>2. CASE \E p \in Order \ {o} : BoxPublishes(p)
    BY <2>2 DEF BoxPublishes
  <2> QED
    BY <1>12, <2>1, <2>2
<1>13. CASE \E p \in Order : BoxDeletes(p)
  <2>1. CASE BoxDeletes(o) /\ Parses(hash[o])
    <3>1. Run(o)!Close
      BY <1>0, <2>1 DEF BoxDeletes, Run!Close
    <3> QED
      BY <3>1
  <2>2. CASE (BoxDeletes(o) /\ ~ Parses(hash[o])) \/ \E p \in Order \ {o} : BoxDeletes(p)
    BY <2>2 DEF BoxDeletes
  <2> QED
    BY <1>13, <2>1, <2>2
<1>14. CASE \E p \in Order : BoxExits(p) \/ BoxDies(p) \/ BoxRedisFails(p) \/ CancelStop(p)
  <2>1. CASE Up(o) /\ ~ Up(o)'
    <3>1. Run(o)!End
      BY <1>14, <2>1 DEF BoxExits, BoxDies, BoxRedisFails, CancelStop, Run!End
    <3> QED
      BY <3>1
  <2>2. CASE Up(o) <=> Up(o)'
    BY <1>14, <2>2 DEF BoxExits, BoxDies, BoxRedisFails, CancelStop
  <2>3. Up(o)' => Up(o)
    BY <1>14 DEF BoxExits, BoxDies, BoxRedisFails, CancelStop
  <2> QED
    BY <2>1, <2>2, <2>3
<1> QED
  BY <1>1, <1>2, <1>3, <1>4, <1>5, <1>6, <1>7, <1>8, <1>9, <1>10, <1>11, <1>12, <1>13, <1>14
     DEF Next, ManagerStep, BoxStep, Mischance

\* The manager, the sandboxes and all that befalls them implement the contract of
\* one run for every order whose cancel did not miss its container.
THEOREM KeepsContractEver == Spec => KeepsContract
<1>1. Init => \A o \in Order : Run(o)!ContractInit
  BY DEF Init, Run!ContractInit, Parses, Up
<1>2. TypeInv /\ RunInv /\ [Next]_vars => [ContractStep]_<<hash, box, finished>>
  BY NextContract
<1> QED
  BY <1>1, <1>2, InitType, InitRun, NextType, NextRun, PTL
     DEF Spec, KeepsContract, ContractStep

-----------------------------------------------------------------------------
(***************************************************************************)
(* The Redis of a sandbox.                                                 *)
(***************************************************************************)

\* A sandbox has its sidecar from before it starts until after it ended.
Served(o) == Up(o) \/ (cur = o /\ pc = "container") => o \in sidecar

ServedInv == missed = {} /\ \A o \in Order : Served(o)

\* Whoever stops a sidecar knows from docker that its sandbox is gone, or has removed
\* it, or has not started it.
LEMMA NextServed ==
  ASSUME "docker" \notin Faults, TypeInv, RunInv, ServedInv, [Next]_vars
  PROVE  ServedInv'
<1> USE OrderAssumption DEF TypeInv, TypeOK, Up, At, Between, Mishap, boxVars, history, mgrVars, Served
<1>0. missed' = {}
  BY DEF Next, ManagerStep, BoxStep, Mischance, vars, Publish, Listen, Drain, StoreOrder,
     StoreUnusable, WriteHash, StartSidecar, StartContainer, LaunchFails, MarkRunning, Trim,
     OrdersDone, RunsNotDue, RunsDue, PollRun, GraceEnds, Reap, FinishSet, FinishAdd, FinishDel,
     RunsDone, ListSidecars, PollSidecar, SidecarsDone, CancelStop, CancelMark, RedisFails,
     ManagerDies, BoxStarts, BoxWorks, BoxSettles, BoxPublishes, BoxDeletes, BoxExits,
     BoxRedisFails, BoxDies, ServedInv
<1> SUFFICES ASSUME NEW o \in Order PROVE Served(o)'
  BY <1>0 DEF ServedInv
<1>a. Served(o) /\ Launched(o) /\ Reaped(o)
  BY DEF ServedInv, RunInv
<1>1. CASE UNCHANGED vars \/ Listen \/ Drain \/ \E p \in Order : Publish(p) \/ GraceEnds(p) \/ Trim(p)
  BY <1>a, <1>1 DEF vars, Listen, Drain, Publish, GraceEnds, Trim
<1>2. CASE \E p \in Order : StoreOrder(p) \/ StoreUnusable(p) \/ PollRun(p)
  BY <1>a, <1>2 DEF StoreOrder, StoreUnusable, PollRun
<1>3. CASE WriteHash \/ StartSidecar \/ StartContainer \/ MarkRunning \/ CancelMark
  BY <1>a, <1>3 DEF WriteHash, StartSidecar, StartContainer, MarkRunning, CancelMark
<1>4. CASE LaunchFails
  BY <1>a, <1>4 DEF LaunchFails, Launched, Fresh
<1>5. CASE OrdersDone \/ RunsNotDue \/ RunsDone \/ SidecarsDone \/ RunsDue \/ ListSidecars
  BY <1>a, <1>5 DEF OrdersDone, RunsNotDue, RunsDone, SidecarsDone, RunsDue, ListSidecars
<1>6. CASE Reap
  BY <1>a, <1>6 DEF Reap, Released, Reaped
<1>7. CASE \E p \in Order : PollSidecar(p)
  BY <1>a, <1>7 DEF PollSidecar, SeenRunning, Released
<1>8. CASE \E p \in Order : CancelStop(p)
  BY <1>a, <1>8 DEF CancelStop
<1>9. CASE FinishSet \/ FinishAdd \/ FinishDel
  BY <1>a, <1>9 DEF FinishSet, FinishAdd, FinishDel
<1>10. CASE RedisFails \/ ManagerDies
  <2>1. CASE RedisFails /\ pc = "reap"
    BY <1>a, <2>1 DEF RedisFails, Reaped
  <2>2. CASE RedisFails /\ pc # "reap"
    BY <1>a, <2>2 DEF RedisFails
  <2>3. CASE ManagerDies
    BY <1>a, <2>3 DEF ManagerDies
  <2> QED BY <1>10, <2>1, <2>2, <2>3
<1>11. CASE \E p \in Order : BoxStep(p) \/ BoxRedisFails(p) \/ BoxDies(p)
  BY <1>a, <1>11
     DEF BoxStep, BoxStarts, BoxWorks, BoxSettles, BoxPublishes, BoxDeletes, BoxExits, BoxRedisFails, BoxDies
<1> QED
  BY <1>1, <1>2, <1>3, <1>4, <1>5, <1>6, <1>7, <1>8, <1>9, <1>10, <1>11
     DEF Next, ManagerStep, Mischance

\* A sandbox that is up has its Redis, whichever of the two a dying manager, a cancel
\* or the polls stop first, as long as docker answers.
THEOREM SandboxHasRedisEver == ASSUME "docker" \notin Faults PROVE Spec => []SandboxHasRedis
<1>1. Init => ServedInv
  BY DEF Init, ServedInv, Served, Up
<1>2. TypeInv /\ RunInv /\ ServedInv /\ [Next]_vars => ServedInv'
  BY NextServed
<1>3. ServedInv => SandboxHasRedis
  BY DEF ServedInv, Served, SandboxHasRedis
<1> QED
  BY <1>1, <1>2, <1>3, InitType, InitRun, NextType, NextRun, PTL DEF Spec

(***************************************************************************)
(* No run is forgotten.                                                    *)
(***************************************************************************)

\* Whoever is about to delete the hash of a run, its sandbox or the manager, has
\* reported it.
ToldFirst(o) ==
  /\ box[o] = "delete" => finished[o] # <<>>
  /\ cur = o /\ pc = "finishDel" => finished[o] # <<>>

\* A run that can be found in the registry or on the stream, or whose order is gone.
Known(o) == Parses(hash[o]) \/ finished[o] # <<>> \/ order[o] = "trimmed"

\* No step makes a run unknown: not a cancel that missed its container, nor a sandbox
\* and a manager that work on one hash, nor any of the two that stops in between.
LEMMA NextKnown ==
  ASSUME NEW o \in Order, TypeInv, ToldFirst(o), [Next]_vars
  PROVE  ToldFirst(o)' /\ (Known(o) => Known(o)')
<1> USE OrderAssumption DEF TypeInv, TypeOK, Settled, Status, Parses, WithStatus, Up, At, Between, Mishap,
        boxVars, history, mgrVars, ToldFirst, Known
<1>1. CASE UNCHANGED vars \/ Listen \/ Drain
  BY <1>1 DEF vars, Listen, Drain
<1>2. CASE \E p \in Order : Publish(p) \/ GraceEnds(p) \/ Trim(p)
  BY <1>2 DEF Publish, GraceEnds, Trim
<1>3. CASE \E p \in Order : StoreOrder(p) \/ StoreUnusable(p)
  BY <1>3 DEF StoreOrder, StoreUnusable
<1>4. CASE \E p \in Order : PollRun(p) \/ PollSidecar(p)
  BY <1>4 DEF PollRun, PollSidecar
<1>5. CASE WriteHash \/ StartSidecar \/ StartContainer \/ MarkRunning \/ LaunchFails
  BY <1>5 DEF WriteHash, StartSidecar, StartContainer, MarkRunning, LaunchFails
<1>6. CASE OrdersDone \/ RunsNotDue \/ RunsDone \/ SidecarsDone \/ RunsDue \/ ListSidecars
  BY <1>6 DEF OrdersDone, RunsNotDue, RunsDone, SidecarsDone, RunsDue, ListSidecars
<1>7. CASE Reap
  BY <1>7 DEF Reap
<1>8. CASE FinishSet \/ FinishDel
  BY <1>8 DEF FinishSet, FinishDel
<1>9. CASE FinishAdd
  BY <1>9, TellIsHeard DEF FinishAdd
<1>10. CASE \E p \in Order : CancelStop(p)
  BY <1>10 DEF CancelStop
<1>11. CASE CancelMark
  BY <1>11 DEF CancelMark
<1>12. CASE RedisFails \/ ManagerDies
  BY <1>12 DEF RedisFails, ManagerDies, TakenAreLost
<1>13. CASE \E p \in Order : BoxStarts(p) \/ BoxDeletes(p) \/ BoxExits(p) \/ BoxRedisFails(p) \/ BoxDies(p)
  BY <1>13 DEF BoxStarts, BoxDeletes, BoxExits, BoxRedisFails, BoxDies
<1>14. CASE \E p \in Order : BoxSettles(p) \/ \E status \in Status : BoxWorks(p, status)
  BY <1>14 DEF BoxSettles, BoxWorks
<1>15. CASE \E p \in Order : BoxPublishes(p)
  BY <1>15, TellIsHeard DEF BoxPublishes
<1>16. CASE ManagerStep
  BY <1>1, <1>3, <1>4, <1>5, <1>6, <1>7, <1>8, <1>9, <1>11, <1>16 DEF ManagerStep
<1>17. CASE Mischance
  BY <1>2, <1>5, <1>10, <1>12, <1>13, <1>17 DEF Mischance
<1> QED
  BY <1>1, <1>2, <1>13, <1>14, <1>15, <1>16, <1>17 DEF Next, BoxStep

\* A run that was once in the registry stays there until it is reported, for ever,
\* whatever befalls the manager, its sandbox, Redis and docker, unless its order is
\* deleted from the stream.  (That it is reported in the end is EveryRunReported.)
THEOREM NeverForgotten ==
  ASSUME NEW o \in Order
  PROVE  Spec => [](Parses(hash[o]) =>
                      [](Parses(hash[o]) \/ finished[o] # <<>> \/ order[o] = "trimmed"))
<1>1. Init => ToldFirst(o)
  BY DEF Init, ToldFirst
<1>2. Parses(hash[o]) => Known(o)
  BY DEF Known
<1>3. Known(o) => Parses(hash[o]) \/ finished[o] # <<>> \/ order[o] = "trimmed"
  BY DEF Known
<1>4. TypeInv /\ ToldFirst(o) /\ [Next]_vars => ToldFirst(o)' /\ (Known(o) => Known(o)')
  BY NextKnown
<1> QED
  BY <1>1, <1>2, <1>3, <1>4, InitType, NextType, PTL DEF Spec
=============================================================================
