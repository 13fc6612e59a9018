-------------------------- MODULE CloudFactory_proofs --------------------------
(***************************************************************************)
(* For any orders, agents, faults and bounds: types, one run for each      *)
(* order, no order forgotten, and ends that are true.  The entries of an   *)
(* order in the manager's queues are counted apart from everything else,   *)
(* so that each leaf is either about numbers or about the run.             *)
(***************************************************************************)
EXTENDS CloudFactory, TLAPS

WithOrder == {"launch", "startup", "minted", "register", "stop", "report",
              "cancelMark", "cancelReport"}
WithAgent == {"minted", "register", "handoff", "stop", "report", "honorMark", "cancelMark",
              "cancelReport"}
Launching == {"launch", "startup", "minted", "register"}

\* How many entries of an order there are: of those published some are in the
\* subscription, of those drained some are still to do and some kept, and the
\* one that is being launched is neither.
QueueInv ==
  /\ published \in [Order -> 0..MaxPublish]
  /\ inbox \in [Order -> Nat] /\ pending \in [Order -> Nat]
  /\ todo \in [Order -> Nat] /\ kept \in [Order -> Nat]
  /\ \A o \in Order : inbox[o] + pending[o] <= published[o]
  /\ \A o \in Order : todo[o] + kept[o] <= pending[o]
  /\ pc \in Launching => cur \in Order /\ todo[cur] + kept[cur] < pending[cur]

RestType ==
  /\ stored \subseteq Order /\ rows \subseteq Order
  /\ attempts \in [Order -> Nat] /\ blocked \subseteq Order
  /\ pc \in ManagerPc /\ cur \in Order \cup {NoOrder} /\ agent \in Agent \cup {NoAgent}
  /\ polls \subseteq Agent /\ rejects \subseteq Order /\ verdict \in Failure
  /\ reg \in [Agent -> {"none", "running"} \cup Failure]
  /\ handed \subseteq Agent /\ pr \subseteq Agent
  /\ orderOf \in [Agent -> Order \cup {NoOrder}]
  /\ vm \in [Agent -> {"none", "working", "failed", "stopped"}]
  /\ finished \in [Order -> Seq(Failure)]
  /\ recent \subseteq Order
  /\ mishaps \in 0..MaxMishaps /\ hit \subseteq Trace

USE DEF RunStatus

\* The order and the agent that the manager is at work with.  A registered agent
\* was launched for an order and so has a machine.
RunInv ==
  /\ RestType
  /\ pc \in WithOrder => cur \in Order
  /\ pc \in WithAgent => agent \in Agent
  /\ \A a \in Agent : reg[a] # "none" => orderOf[a] \in Order /\ vm[a] # "none"
  /\ \A a \in polls : reg[a] # "none"
  /\ pc \in {"honorMark", "cancelMark"} => reg[agent] # "none"
  /\ pc \in {"minted", "register"} => orderOf[agent] = cur /\ vm[agent] # "none"

\* At first nothing is published.
LEMMA InitQueue == Init => QueueInv
BY FaultsAssumption DEF Init, QueueInv, None, Launching

\* Every step keeps the count of the entries.
LEMMA NextQueue == QueueInv /\ [Next]_vars => QueueInv'
<1> SUFFICES ASSUME QueueInv, [Next]_vars PROVE QueueInv'
  OBVIOUS
<1> USE IdAssumption, FaultsAssumption DEF QueueInv, None, Launching, At, Between, orderVars, queueVars,
    pollVars, pcVars, runVars, vmVars, reportVars, mishapVars
<1>1. CASE UNCHANGED vars
  BY <1>1 DEF vars
<1>2. CASE OrderStep
  <2>1. CASE Listen
    BY <2>1 DEF Listen
  <2>2. CASE Drain
    BY <2>2 DEF Drain
  <2>3. CASE Launch
    BY <2>3 DEF Launch
  <2>4. CASE ReportStartupError
    BY <2>4 DEF ReportStartupError, Report
  <2>5. CASE CheckMinted
    BY <2>5 DEF CheckMinted
  <2>6. CASE DropMinted
    BY <2>6 DEF DropMinted, KeptIf, Mishap, MishapWith
  <2>7. CASE Register
    BY <2>7 DEF Register
  <2>8. CASE OrdersDone
    BY <2>8 DEF OrdersDone
  <2>9. ASSUME NEW o \in Order, SkipOrder(o) PROVE QueueInv'
    BY <2>9 DEF SkipOrder, KeptIf
  <2>10. ASSUME NEW o \in Order, TryOrder(o) PROVE QueueInv'
    BY <2>10 DEF TryOrder
  <2>11. ASSUME NEW retryable \in StartupError, LaunchRefused(retryable) PROVE QueueInv'
    BY <2>11 DEF LaunchRefused, KeptIf, Mishap, MishapWith
  <2> QED
    BY <1>2, <2>1, <2>2, <2>3, <2>4, <2>5, <2>6, <2>7, <2>8, <2>9, <2>10, <2>11 DEF OrderStep
<1>3. CASE RunStep
  <2>1. CASE RunsNotDue
    BY <2>1 DEF RunsNotDue
  <2>2. CASE RunsDue
    BY <2>2 DEF RunsDue, LiveRuns
  <2>3. CASE HonorMark
    BY <2>3 DEF HonorMark
  <2>4. CASE HandOff
    BY <2>4 DEF HandOff, StopVm, Mishap, MishapWith
  <2>5. CASE StopFailed
    BY <2>5 DEF StopFailed, StopVm, Mishap, MishapWith
  <2>6. CASE ReportFailed
    BY <2>6 DEF ReportFailed, Report
  <2>7. CASE RunsDone
    BY <2>7 DEF RunsDone
  <2>8. CASE CancelMark
    BY <2>8 DEF CancelMark
  <2>9. CASE CancelReport
    BY <2>9 DEF CancelReport, Report
  <2>10. ASSUME NEW a \in Agent, HonorReject(a) PROVE QueueInv'
    BY <2>10 DEF HonorReject, Mishap, MishapWith
  <2>11. ASSUME NEW a \in Agent, PollFails(a) PROVE QueueInv'
    BY <2>11 DEF PollFails, Mishap, MishapWith
  <2>12. ASSUME NEW a \in Agent, PollWorking(a) PROVE QueueInv'
    BY <2>12 DEF PollWorking
  <2>13. ASSUME NEW a \in Agent, PollHandsOff(a) PROVE QueueInv'
    BY <2>13 DEF PollHandsOff
  <2>14. ASSUME NEW a \in Agent, PollFailed(a) PROVE QueueInv'
    BY <2>14 DEF PollFailed
  <2> QED
    BY <1>3, <2>1, <2>2, <2>3, <2>4, <2>5, <2>6, <2>7, <2>8, <2>9, <2>10, <2>11, <2>12, <2>13, <2>14 DEF RunStep
<1>4. CASE Environment
  <2>1. CASE RedisFails
    BY <2>1 DEF RedisFails, Mishap, MishapWith
  <2>2. CASE ManagerDies
    BY <2>2 DEF ManagerDies, Mishap, MishapWith
  <2>3. ASSUME NEW o \in Order, Publish(o) PROVE QueueInv'
    BY <2>3 DEF Publish
  <2>4. ASSUME NEW o \in Order, Unblock(o) PROVE QueueInv'
    BY <2>4 DEF Unblock
  <2>5. ASSUME NEW o \in Order, FrontendRejects(o) PROVE QueueInv'
    BY <2>5 DEF FrontendRejects, Report
  <2>6. ASSUME NEW o \in Order, RejectUnlaunched(o) PROVE QueueInv'
    BY <2>6 DEF RejectUnlaunched, Report
  <2>7. ASSUME NEW o \in Order, Flood(o) PROVE QueueInv'
    BY <2>7 DEF Flood, Mishap, MishapWith
  <2>8. ASSUME NEW a \in Agent, RejectLaunched(a) PROVE QueueInv'
    BY <2>8 DEF RejectLaunched
  <2>9. ASSUME NEW a \in Agent, OpenPr(a) PROVE QueueInv'
    BY <2>9 DEF OpenPr
  <2>10. ASSUME NEW a \in Agent, VmEnds(a, "failed") \/ VmEnds(a, "stopped") PROVE QueueInv'
    BY <2>10 DEF VmEnds
  <2>11. CASE FrontendPolls
    BY <2>11 DEF FrontendPolls
  <2> QED
    BY <1>4, <2>1, <2>2, <2>3, <2>4, <2>5, <2>6, <2>7, <2>8, <2>9, <2>10, <2>11 DEF Environment
<1> QED BY <1>1, <1>2, <1>3, <1>4 DEF Next

Counted == \E kind \in Faults, traces \in SUBSET Trace : MishapWith(kind, traces)

\* The count of what went wrong stays within its bound, and so does its history.
LEMMA MishapType ==
  ASSUME mishaps \in 0..MaxMishaps, hit \subseteq Trace, Counted \/ UNCHANGED mishapVars
  PROVE  mishaps' \in 0..MaxMishaps /\ hit' \subseteq Trace
<1> USE FaultsAssumption
<1>1. CASE Counted
  <2>1. mishaps' \in 0..MaxMishaps
    BY <1>1 DEF Counted, MishapWith
  <2>2. hit' \subseteq Trace
    BY <1>1 DEF Counted, MishapWith
  <2> QED BY <2>1, <2>2
<1>2. CASE UNCHANGED mishapVars
  BY <1>2 DEF mishapVars
<1> QED BY <1>1, <1>2

\* What a call of Cursor that fails leaves in the history: nothing, or one agent.
LEMMA RefusalIsCounted ==
  ASSUME Mishap("api") \/ (agent \in Agent /\ MishapWith("api", {<<"uncancelled", agent>>}))
  PROVE  Counted
<1>1. CASE Mishap("api")
  BY <1>1 DEF Mishap, MishapWith, Counted
<1>2. CASE agent \in Agent /\ MishapWith("api", {<<"uncancelled", agent>>})
  <2>1. {<<"uncancelled", agent>>} \in SUBSET Trace
    BY <1>2 DEF Trace
  <2>2. "api" \in Faults
    BY <1>2 DEF MishapWith
  <2> QED BY <1>2, <2>1, <2>2 DEF Counted
<1> QED BY <1>1, <1>2

\* What a lost manager and pushed-out reports leave in the history.
LEMMA LossIsCounted ==
  ASSUME RestType, pc \in WithAgent => agent \in Agent,
         \/ MishapWith("redis", CutOff)
         \/ MishapWith("crash", CutOff \cup {<<"forgotten", o>> : o \in {x \in Order : pending[x] > 0}})
         \/ \E o \in Order : MishapWith("flood", {<<"flooded", o>>})
  PROVE  Counted
<1>1. CutOff \in SUBSET Trace
  BY DEF CutOff, Trace, WithAgent
<1>2. {<<"forgotten", o>> : o \in {x \in Order : pending[x] > 0}} \in SUBSET Trace
  BY DEF Trace
<1>3. CASE MishapWith("redis", CutOff)
  BY <1>1, <1>3 DEF Counted, MishapWith
<1>4. CASE MishapWith("crash", CutOff \cup {<<"forgotten", o>> : o \in {x \in Order : pending[x] > 0}})
  <2>1. CutOff \cup {<<"forgotten", o>> : o \in {x \in Order : pending[x] > 0}} \in SUBSET Trace
    BY <1>1, <1>2
  <2>2. "crash" \in Faults
    BY <1>4 DEF MishapWith
  <2> QED BY <1>4, <2>1, <2>2 DEF Counted
<1>5. ASSUME NEW o \in Order, MishapWith("flood", {<<"flooded", o>>}) PROVE Counted
  <2>1. {<<"flooded", o>>} \in SUBSET Trace
    BY DEF Trace
  <2>2. "flood" \in Faults
    BY <1>5 DEF MishapWith
  <2> QED BY <1>5, <2>1, <2>2 DEF Counted
<1> QED BY <1>3, <1>4, <1>5

\* At first the registry is empty.
LEMMA InitRun == Init => RunInv
BY FaultsAssumption DEF Init, RunInv, RestType, ManagerPc, Failure, None, WithOrder, WithAgent

\* Every step keeps the types of everything else, and what the manager holds.
LEMMA NextRun == RunInv /\ [Next]_vars => RunInv'
<1> SUFFICES ASSUME RunInv, [Next]_vars PROVE RunInv'
  OBVIOUS
<1> USE IdAssumption, FaultsAssumption DEF RunInv, RestType, ManagerPc, Failure, None,
    WithOrder, WithAgent, At, Between, orderVars, queueVars,
    pollVars, pcVars, runVars, vmVars, reportVars, mishapVars
<1>1. CASE UNCHANGED vars
  BY <1>1 DEF vars
<1>2. CASE OrderStep
  <2>1. CASE Listen
    BY <2>1 DEF Listen
  <2>2. CASE Drain
    BY <2>2 DEF Drain
  <2>3. CASE Launch
    BY <2>3 DEF Launch
  <2>4. CASE ReportStartupError
    BY <2>4 DEF ReportStartupError, Report
  <2>5. CASE CheckMinted
    BY <2>5 DEF CheckMinted
  <2>6. CASE DropMinted
    <3>1. vm' \in [Agent -> {"none", "working", "failed", "stopped"}]
      BY <2>6 DEF DropMinted, KeptIf, Mishap, MishapWith
    <3>2. \A b \in Agent : vm[b] # "none" => vm'[b] # "none"
      BY <2>6 DEF DropMinted, KeptIf, Mishap, MishapWith
    <3>3. Counted \/ UNCHANGED mishapVars
      BY <2>6, RefusalIsCounted DEF DropMinted
    <3>4. mishaps' \in 0..MaxMishaps /\ hit' \subseteq Trace
      BY <3>3, MishapType
    <3> QED BY <2>6, <3>1, <3>2, <3>4 DEF DropMinted, KeptIf
  <2>7. CASE Register
    BY <2>7 DEF Register
  <2>8. CASE OrdersDone
    BY <2>8 DEF OrdersDone
  <2>9. ASSUME NEW o \in Order, SkipOrder(o) PROVE RunInv'
    BY <2>9 DEF SkipOrder, KeptIf
  <2>10. ASSUME NEW o \in Order, TryOrder(o) PROVE RunInv'
    BY <2>10 DEF TryOrder
  <2>11. ASSUME NEW retryable \in StartupError, LaunchRefused(retryable) PROVE RunInv'
    BY <2>11 DEF LaunchRefused, KeptIf, Mishap, MishapWith
  <2> QED
    BY <1>2, <2>1, <2>2, <2>3, <2>4, <2>5, <2>6, <2>7, <2>8, <2>9, <2>10, <2>11 DEF OrderStep
<1>3. CASE RunStep
  <2>1. CASE RunsNotDue
    BY <2>1 DEF RunsNotDue
  <2>2. CASE RunsDue
    BY <2>2 DEF RunsDue, LiveRuns
  <2>3. CASE HonorMark
    BY <2>3 DEF HonorMark
  <2>4. CASE HandOff
    <3>1. vm' \in [Agent -> {"none", "working", "failed", "stopped"}]
      BY <2>4 DEF HandOff, StopVm, Mishap, MishapWith
    <3>2. \A b \in Agent : vm[b] # "none" => vm'[b] # "none"
      BY <2>4 DEF HandOff, StopVm, Mishap, MishapWith
    <3>3. Counted \/ UNCHANGED mishapVars
      BY <2>4, RefusalIsCounted DEF HandOff, StopVm
    <3>4. mishaps' \in 0..MaxMishaps /\ hit' \subseteq Trace
      BY <3>3, MishapType
    <3> QED BY <2>4, <3>1, <3>2, <3>4 DEF HandOff, StopVm
  <2>5. CASE StopFailed
    <3>1. vm' \in [Agent -> {"none", "working", "failed", "stopped"}]
      BY <2>5 DEF StopFailed, StopVm, Mishap, MishapWith
    <3>2. \A b \in Agent : vm[b] # "none" => vm'[b] # "none"
      BY <2>5 DEF StopFailed, StopVm, Mishap, MishapWith
    <3>3. Counted \/ UNCHANGED mishapVars
      BY <2>5, RefusalIsCounted DEF StopFailed, StopVm
    <3>4. mishaps' \in 0..MaxMishaps /\ hit' \subseteq Trace
      BY <3>3, MishapType
    <3> QED BY <2>5, <3>1, <3>2, <3>4 DEF StopFailed, StopVm
  <2>6. CASE ReportFailed
    BY <2>6 DEF ReportFailed, Report
  <2>7. CASE RunsDone
    BY <2>7 DEF RunsDone
  <2>8. CASE CancelMark
    BY <2>8 DEF CancelMark
  <2>9. CASE CancelReport
    BY <2>9 DEF CancelReport, Report
  <2>10. ASSUME NEW a \in Agent, HonorReject(a) PROVE RunInv'
    <3>1. vm' \in [Agent -> {"none", "working", "failed", "stopped"}]
      BY <2>10 DEF HonorReject, Mishap, MishapWith
    <3>2. \A b \in Agent : vm[b] # "none" => vm'[b] # "none"
      BY <2>10 DEF HonorReject, Mishap, MishapWith
    <3>3. Counted \/ UNCHANGED mishapVars
      BY <2>10, RefusalIsCounted DEF HonorReject
    <3>4. mishaps' \in 0..MaxMishaps /\ hit' \subseteq Trace
      BY <3>3, MishapType
    <3> QED BY <2>10, <3>1, <3>2, <3>4 DEF HonorReject
  <2>11. ASSUME NEW a \in Agent, PollFails(a) PROVE RunInv'
    BY <2>11 DEF PollFails, Mishap, MishapWith
  <2>12. ASSUME NEW a \in Agent, PollWorking(a) PROVE RunInv'
    BY <2>12 DEF PollWorking
  <2>13. ASSUME NEW a \in Agent, PollHandsOff(a) PROVE RunInv'
    BY <2>13 DEF PollHandsOff
  <2>14. ASSUME NEW a \in Agent, PollFailed(a) PROVE RunInv'
    BY <2>14 DEF PollFailed
  <2> QED
    BY <1>3, <2>1, <2>2, <2>3, <2>4, <2>5, <2>6, <2>7, <2>8, <2>9, <2>10, <2>11, <2>12, <2>13, <2>14 DEF RunStep
<1>4. CASE Environment
  <2>1. CASE RedisFails
    <3>1. mishaps' \in 0..MaxMishaps /\ hit' \subseteq Trace
      BY <2>1, LossIsCounted, MishapType DEF RedisFails
    <3> QED BY <2>1, <3>1 DEF RedisFails
  <2>2. CASE ManagerDies
    <3>1. mishaps' \in 0..MaxMishaps /\ hit' \subseteq Trace
      BY <2>2, LossIsCounted, MishapType DEF ManagerDies
    <3> QED BY <2>2, <3>1 DEF ManagerDies
  <2>3. ASSUME NEW o \in Order, Publish(o) PROVE RunInv'
    BY <2>3 DEF Publish
  <2>4. ASSUME NEW o \in Order, Unblock(o) PROVE RunInv'
    BY <2>4 DEF Unblock
  <2>5. ASSUME NEW o \in Order, FrontendRejects(o) PROVE RunInv'
    BY <2>5 DEF FrontendRejects, Report
  <2>6. ASSUME NEW o \in Order, RejectUnlaunched(o) PROVE RunInv'
    BY <2>6 DEF RejectUnlaunched, Report
  <2>7. ASSUME NEW o \in Order, Flood(o) PROVE RunInv'
    <3>1. mishaps' \in 0..MaxMishaps /\ hit' \subseteq Trace
      BY <2>7, LossIsCounted, MishapType DEF Flood
    <3> QED BY <2>7, <3>1 DEF Flood
  <2>8. ASSUME NEW a \in Agent, RejectLaunched(a) PROVE RunInv'
    BY <2>8 DEF RejectLaunched
  <2>9. ASSUME NEW a \in Agent, OpenPr(a) PROVE RunInv'
    BY <2>9 DEF OpenPr
  <2>10. ASSUME NEW a \in Agent, VmEnds(a, "failed") \/ VmEnds(a, "stopped") PROVE RunInv'
    BY <2>10, ZenonT(30) DEF VmEnds
  <2>11. CASE FrontendPolls
    BY <2>11 DEF FrontendPolls
  <2> QED
    BY <1>4, <2>1, <2>2, <2>3, <2>4, <2>5, <2>6, <2>7, <2>8, <2>9, <2>10, <2>11 DEF Environment
<1> QED BY <1>1, <1>2, <1>3, <1>4 DEF Next

(***************************************************************************)
(* One run for each order.                                                 *)
(***************************************************************************)

\* From the moment that the registry has been asked until the run is in it, the
\* order that is being launched has no other.
Alone ==
  /\ OneRunPerOrder
  /\ pc \in {"launch", "minted", "register"} => RunForOrder(cur) = {}

\* Every step keeps one run for each order: only Register adds a run, and only
\* Launch gives an agent its order, when it is in no registry.
LEMMA NextAlone == RunInv /\ Alone /\ [Next]_vars => Alone'
<1> SUFFICES ASSUME RunInv, Alone, [Next]_vars PROVE Alone'
  OBVIOUS
<1> USE DEF Alone, OneRunPerOrder, RunForOrder, At, Between
<1>1. CASE Launch
  BY <1>1 DEF Launch, RunInv, RestType, WithOrder, runVars, pollVars
<1>2. CASE Register
  BY <1>2 DEF Register, RunInv, RestType, WithOrder, WithAgent, vmVars
<1>3. ASSUME NEW o \in Order, TryOrder(o) PROVE Alone'
  BY <1>3 DEF TryOrder, runVars, vmVars
<1>4. CASE CheckMinted
  BY <1>4 DEF CheckMinted, runVars, vmVars
<1>5. CASE HonorMark \/ CancelMark
  BY <1>5 DEF HonorMark, CancelMark, RunInv, RestType, vmVars
<1>6. ASSUME NEW a \in Agent, PollFailed(a) PROVE Alone'
  BY <1>6 DEF PollFailed, Failure, RunInv, RestType, LiveRuns, vmVars
<1>7. CASE UNCHANGED <<reg, orderOf>> /\ (pc' \notin {"launch", "minted", "register"} \/ UNCHANGED pcVars)
  BY <1>7 DEF pcVars
<1>8. CASE UNCHANGED vars
  BY <1>7, <1>8 DEF vars, runVars, vmVars, pcVars
<1>9. CASE OrderStep
  <2>1. CASE Listen \/ Drain \/ ReportStartupError \/ DropMinted \/ OrdersDone
    BY <1>7, <2>1 DEF Listen, Drain, ReportStartupError, DropMinted, OrdersDone, runVars, vmVars
  <2>2. ASSUME NEW o \in Order, SkipOrder(o) PROVE Alone'
    BY <1>7, <2>2 DEF SkipOrder, runVars, vmVars
  <2>3. ASSUME NEW retryable \in StartupError, LaunchRefused(retryable) PROVE Alone'
    BY <1>7, <2>3 DEF LaunchRefused, runVars, vmVars
  <2> QED BY <1>1, <1>2, <1>3, <1>4, <1>9, <2>1, <2>2, <2>3 DEF OrderStep
<1>10. CASE RunStep
  <2>1. CASE RunsNotDue \/ RunsDue \/ HandOff \/ StopFailed \/ ReportFailed \/ RunsDone
             \/ CancelReport
    BY <1>7, <2>1 DEF RunsNotDue, RunsDue, HandOff, StopFailed, StopVm, ReportFailed, RunsDone,
      CancelReport, runVars, vmVars
  <2>2. ASSUME NEW a \in Agent,
               HonorReject(a) \/ PollFails(a) \/ PollWorking(a) \/ PollHandsOff(a)
        PROVE  Alone'
    BY <1>7, <2>2 DEF HonorReject, PollFails, PollWorking, PollHandsOff, runVars, vmVars, pcVars
  <2> QED BY <1>5, <1>6, <1>10, <2>1, <2>2 DEF RunStep
<1>11. CASE Environment
  <2>1. ASSUME NEW o \in Order,
               Publish(o) \/ Unblock(o) \/ FrontendRejects(o) \/ RejectUnlaunched(o) \/ Flood(o)
        PROVE  Alone'
    BY <1>7, <2>1 DEF Publish, Unblock, FrontendRejects, RejectUnlaunched, Flood, runVars, vmVars
  <2>2. ASSUME NEW a \in Agent,
               RejectLaunched(a) \/ OpenPr(a) \/ VmEnds(a, "failed") \/ VmEnds(a, "stopped")
        PROVE  Alone'
    BY <1>7, <2>2 DEF RejectLaunched, OpenPr, VmEnds, runVars
  <2>3. CASE FrontendPolls \/ RedisFails \/ ManagerDies
    BY <1>7, <2>3 DEF FrontendPolls, RedisFails, ManagerDies, runVars, vmVars
  <2> QED BY <1>11, <2>1, <2>2, <2>3 DEF Environment
<1> QED BY <1>8, <1>9, <1>10, <1>11 DEF Next

\* Every reachable state is well typed.
THEOREM TypeCorrect == Spec => []TypeOK
<1>1. ASSUME QueueInv, RunInv PROVE TypeOK
  <2>1. /\ inbox \in [Order -> 0..MaxPublish] /\ pending \in [Order -> 0..MaxPublish]
        /\ todo \in [Order -> 0..MaxPublish] /\ kept \in [Order -> 0..MaxPublish]
    <3>1. ASSUME NEW o \in Order
          PROVE  /\ inbox[o] \in 0..MaxPublish /\ pending[o] \in 0..MaxPublish
                 /\ todo[o] \in 0..MaxPublish /\ kept[o] \in 0..MaxPublish
      <4>1. /\ published[o] \in 0..MaxPublish
            /\ inbox[o] \in Nat /\ pending[o] \in Nat /\ todo[o] \in Nat /\ kept[o] \in Nat
            /\ inbox[o] + pending[o] <= published[o] /\ todo[o] + kept[o] <= pending[o]
        BY <1>1 DEF QueueInv
      <4> QED BY <4>1, FaultsAssumption
    <3> QED BY <1>1, <3>1 DEF QueueInv
  <2> QED BY <1>1, <2>1 DEF QueueInv, RunInv, RestType, TypeOK
<1> QED BY <1>1, InitQueue, NextQueue, InitRun, NextRun, PTL DEF Spec

\* OneRunPerOrder holds of every reachable state, for any orders, agents, faults
\* and bounds.
THEOREM OneRun == Spec => []OneRunPerOrder
<1>1. Init => Alone
  BY DEF Init, Alone, OneRunPerOrder, RunForOrder
<1>2. Alone => OneRunPerOrder
  BY DEF Alone
<1> QED BY <1>1, <1>2, InitRun, NextRun, NextAlone, PTL DEF Spec

(***************************************************************************)
(* No order is forgotten.                                                  *)
(***************************************************************************)

\* What an order gets, or the end of the manager that held it.
Answered(o) == RunForOrder(o) # {} \/ finished[o] # <<>> \/ <<"forgotten", o>> \in hit

\* In a pass of poll_orders an order of _pending is still to be looked at, or kept, or
\* at hand, or answered; one that waits for its delay is one that is kept; and none is
\* launched before its delay is over.
HeldInv(o) ==
  /\ o \in recent => finished[o] # <<>>
  /\ pc \in {"orders"} \cup Launching /\ pending[o] > 0 =>
       todo[o] + kept[o] > 0 \/ (pc \in Launching /\ cur = o) \/ Answered(o)
  /\ o \in blocked => attempts[o] \in 1..(MAX_LAUNCH_ATTEMPTS - 1) \/ Answered(o)
  /\ pc \in Launching /\ cur = o => o \notin blocked

\* A report is there to be read.
LEMMA ReportIsHeard ==
  ASSUME RunInv, NEW o \in Order, NEW p \in Order, NEW status \in Failure, Report(p, status)
  PROVE  /\ finished'[p] # <<>>
         /\ o # p => finished'[o] = finished[o]
         /\ finished[o] # <<>> => finished'[o] # <<>>
         /\ o \in recent' => o \in recent \/ o = p
<1>1. finished \in [Order -> Seq(Failure)] /\ finished[p] \in Seq(Failure)
  BY DEF RunInv, RestType
<1>2. finished' = [finished EXCEPT ![p] = Append(@, status)] /\ recent' = recent \cup {p}
  BY DEF Report
<1>3. finished'[p] = Append(finished[p], status)
  BY <1>1, <1>2
<1>4. Append(finished[p], status) # <<>>
  <2>1. Len(Append(finished[p], status)) = Len(finished[p]) + 1 /\ Len(finished[p]) \in Nat
    BY <1>1
  <2> QED BY <2>1
<1> QED BY <1>1, <1>2, <1>3, <1>4

\* An answer is not taken back: a hash stays, a report stays.
LEMMA AnsweredStays ==
  ASSUME NEW o \in Order, RunInv, Answered(o), [Next]_vars
  PROVE  Answered(o)'
<1> USE DEF Answered, RunForOrder
<1>1. hit \subseteq hit'
  BY DEF Next, OrderStep, RunStep, Environment, vars, mishapVars, Mishap, MishapWith, Listen, Drain, Launch,
     ReportStartupError, CheckMinted, DropMinted, Register, OrdersDone, SkipOrder, TryOrder, LaunchRefused,
     RunsNotDue, RunsDue, HonorMark, HandOff, StopFailed, StopVm, ReportFailed, RunsDone, CancelMark,
     CancelReport, HonorReject, PollFails, PollWorking, PollHandsOff, PollFailed, Publish, Unblock,
     FrontendRejects, RejectUnlaunched, Flood, RejectLaunched, OpenPr, VmEnds, FrontendPolls, RedisFails,
     ManagerDies
<1>2. finished[o] # <<>> => finished'[o] # <<>>
  <2>1. CASE UNCHANGED finished
    BY <2>1
  <2>2. ASSUME NEW p \in Order, NEW status \in Failure, Report(p, status)
        PROVE  finished[o] # <<>> => finished'[o] # <<>>
    BY <2>2, ReportIsHeard
  <2>3. UNCHANGED finished \/ \E p \in Order, status \in Failure : Report(p, status)
    BY DEF RunInv, RestType, WithOrder, Failure, Next, OrderStep, RunStep, Environment, vars, reportVars,
       Listen, Drain, Launch, ReportStartupError, CheckMinted, DropMinted, Register, OrdersDone, SkipOrder,
       TryOrder, LaunchRefused, RunsNotDue, RunsDue, HonorMark, HandOff, StopFailed, StopVm, ReportFailed,
       RunsDone, CancelMark, CancelReport, HonorReject, PollFails, PollWorking, PollHandsOff, PollFailed,
       Publish, Unblock, FrontendRejects, RejectUnlaunched, Flood, RejectLaunched, OpenPr, VmEnds,
       FrontendPolls, RedisFails, ManagerDies
  <2> QED BY <2>1, <2>2, <2>3
<1>3. RunForOrder(o) # {} => RunForOrder(o)' # {}
  <2>1. CASE Launch
    BY <2>1 DEF Launch, RunInv, RestType, runVars
  <2>2. CASE Register \/ HonorMark \/ CancelMark
    BY <2>2 DEF Register, HonorMark, CancelMark, RunInv, RestType, vmVars
  <2>3. ASSUME NEW a \in Agent, PollFailed(a) PROVE RunForOrder(o) # {} => RunForOrder(o)' # {}
    BY <2>3 DEF PollFailed, Failure, RunInv, RestType, vmVars
  <2>4. CASE UNCHANGED <<reg, orderOf>>
    BY <2>4
  <2> QED
    BY <2>1, <2>2, <2>3, <2>4
       DEF Next, OrderStep, RunStep, Environment, vars, runVars, vmVars, Listen, Drain, ReportStartupError,
       CheckMinted, DropMinted, OrdersDone, SkipOrder, TryOrder, LaunchRefused, RunsNotDue, RunsDue,
       HandOff, StopFailed, StopVm, ReportFailed, RunsDone, CancelReport, HonorReject, PollFails,
       PollWorking, PollHandsOff, Publish, Unblock, FrontendRejects, RejectUnlaunched, Flood,
       RejectLaunched, OpenPr, VmEnds, FrontendPolls, RedisFails, ManagerDies
<1> QED BY <1>1, <1>2, <1>3

\* Every step keeps an order that is pending at hand, until it is answered.
LEMMA NextHeld ==
  ASSUME NEW o \in Order, QueueInv, RunInv, HeldInv(o), [Next]_vars
  PROVE  HeldInv(o)' /\ (pending[o] > 0 => pending'[o] > 0 \/ Answered(o)')
<1> DEFINE Goal == HeldInv(o)' /\ (pending[o] > 0 => pending'[o] > 0 \/ Answered(o)')
<1>0. /\ pending[o] \in Nat /\ todo[o] \in Nat /\ kept[o] \in Nat /\ attempts[o] \in Nat
      /\ MAX_LAUNCH_ATTEMPTS \in Nat \ {0}
  BY FaultsAssumption DEF QueueInv, RunInv, RestType
<1>a. Answered(o) => Answered(o)'
  BY AnsweredStays
<1> USE DEF HeldInv, Launching, At, Between
<1>b. ASSUME UNCHANGED <<queueVars, pc, cur>>, o \in recent' => finished'[o] # <<>> PROVE Goal
  BY <1>a, <1>b DEF queueVars
<1>c. ASSUME UNCHANGED queueVars, UNCHANGED recent, finished[o] # <<>> => finished'[o] # <<>>,
             pc' \notin {"orders"} \cup Launching
      PROVE  Goal
  BY <1>a, <1>c DEF queueVars
<1>d. finished[o] # <<>> => finished'[o] # <<>>
  <2>1. ASSUME NEW p \in Order, NEW status \in Failure, Report(p, status)
        PROVE  finished[o] # <<>> => finished'[o] # <<>>
    BY <2>1, ReportIsHeard
  <2>2. UNCHANGED finished \/ \E p \in Order, status \in Failure : Report(p, status)
    BY DEF RunInv, RestType, WithOrder, Failure, Next, OrderStep, RunStep, Environment, vars, reportVars,
       Listen, Drain, Launch, ReportStartupError, CheckMinted, DropMinted, Register, OrdersDone, SkipOrder,
       TryOrder, LaunchRefused, RunsNotDue, RunsDue, HonorMark, HandOff, StopFailed, StopVm, ReportFailed,
       RunsDone, CancelMark, CancelReport, HonorReject, PollFails, PollWorking, PollHandsOff, PollFailed,
       Publish, Unblock, FrontendRejects, RejectUnlaunched, Flood, RejectLaunched, OpenPr, VmEnds,
       FrontendPolls, RedisFails, ManagerDies
  <2> QED BY <2>1, <2>2
<1>1. CASE UNCHANGED vars
  BY <1>b, <1>1 DEF vars, pcVars, reportVars
<1>2. CASE OrderStep
  <2>1. CASE Listen
    BY <1>c, <1>d, <2>1 DEF Listen, reportVars
  <2>2. CASE Drain
    <3>1. /\ pending' = [p \in Order |-> pending[p] + inbox[p]] /\ todo' = pending'
          /\ kept'[o] = 0 /\ pc' = "orders" /\ inbox[o] \in Nat
          /\ UNCHANGED <<attempts, blocked, recent, finished>>
      BY <2>2 DEF Drain, None, reportVars, QueueInv
    <3>2. todo'[o] = pending'[o] /\ pending'[o] = pending[o] + inbox[o]
      BY <3>1
    <3> QED BY <1>0, <1>a, <3>1, <3>2
  <2>3. CASE Launch
    BY <1>a, <2>3 DEF Launch, queueVars, reportVars
  <2>4. CASE ReportStartupError
    <3>1. cur \in Order
      BY <2>4 DEF ReportStartupError, RunInv, WithOrder
    <3>2. /\ finished'[cur] # <<>> /\ (o # cur => finished'[o] = finished[o])
          /\ (o \in recent' => o \in recent \/ o = cur)
      BY <2>4, <3>1, ReportIsHeard DEF ReportStartupError, Failure
    <3>3. o # cur => attempts'[o] = attempts[o]
      BY <2>4, <3>1 DEF ReportStartupError, RunInv, RestType
    <3>4. o = cur => Answered(o)'
      BY <3>2 DEF Answered
    <3> QED BY <1>a, <2>4, <3>2, <3>3, <3>4 DEF ReportStartupError
  <2>5. CASE CheckMinted
    BY <1>a, <2>5 DEF CheckMinted, queueVars, reportVars
  <2>6. CASE DropMinted
    <3>1. /\ pc' = "orders" /\ UNCHANGED <<pending, todo, attempts, blocked, recent, finished>>
          /\ kept'[o] \in {kept[o], kept[o] + 1} /\ cur \in recent /\ pc = "minted"
      BY <1>0, <2>6 DEF DropMinted, KeptIf, QueueInv, reportVars, Settled
    <3>2. cur = o => Answered(o)
      BY <3>1 DEF Answered
    <3> QED BY <1>0, <1>a, <3>1, <3>2
  <2>7. CASE Register
    <3>1. /\ cur \in Order /\ agent \in Agent /\ orderOf[agent] = cur
      BY <2>7 DEF Register, RunInv, WithOrder, WithAgent
    <3>2. cur = o => Answered(o)'
      BY <2>7, <3>1 DEF Register, Answered, RunForOrder, RunInv, RestType, vmVars
    <3>3. o # cur => attempts'[o] = attempts[o]
      BY <2>7, <3>1 DEF Register, RunInv, RestType
    <3> QED BY <1>a, <2>7, <3>2, <3>3 DEF Register, reportVars
  <2>8. CASE OrdersDone
    <3>1. /\ todo[o] = 0 /\ pending' = kept /\ pc = "orders" /\ pc' = "due"
          /\ UNCHANGED <<attempts, blocked, recent, finished>>
      BY <2>8 DEF OrdersDone, None, reportVars
    <3> QED BY <1>0, <1>a, <3>1
  <2>9. ASSUME NEW p \in Order, SkipOrder(p) PROVE Goal
    <3>1. CASE p = o
      <4>1. /\ pc = "orders" /\ UNCHANGED <<pc, cur, pending, attempts, blocked, recent, finished>>
            /\ todo'[o] = todo[o] - 1 /\ kept'[o] \in {kept[o], kept[o] + 1}
            /\ (attempts[o] \in 1..(MAX_LAUNCH_ATTEMPTS - 1) => kept'[o] = kept[o] + 1)
            /\ (RunForOrder(o) # {} \/ o \in recent \/ o \in blocked)
        BY <2>9, <3>1 DEF SkipOrder, KeptIf, QueueInv, pcVars, reportVars, Settled
      <4>2. Answered(o) \/ kept'[o] = kept[o] + 1
        BY <4>1 DEF Answered
      <4> QED BY <1>0, <1>a, <4>1, <4>2
    <3>2. CASE p # o
      <4>1. /\ pc = "orders" /\ UNCHANGED <<pc, cur, pending, attempts, blocked, recent, finished>>
            /\ todo'[o] = todo[o] /\ kept'[o] = kept[o]
        BY <2>9, <3>2 DEF SkipOrder, KeptIf, QueueInv, pcVars, reportVars
      <4> QED BY <1>0, <1>a, <4>1
    <3> QED BY <3>1, <3>2
  <2>10. ASSUME NEW p \in Order, TryOrder(p) PROVE Goal
    <3>1. /\ pc = "orders" /\ pc' = "launch" /\ cur' = p /\ p \notin blocked
          /\ UNCHANGED <<pending, kept, attempts, blocked, recent, finished>>
          /\ (p # o => todo'[o] = todo[o])
      BY <2>10 DEF TryOrder, QueueInv, reportVars
    <3> QED BY <1>0, <1>a, <3>1
  <2>11. ASSUME NEW retryable \in StartupError, LaunchRefused(retryable) PROVE Goal
    <3> DEFINE tries == attempts[cur] + 1
               again == retryable /\ tries < MAX_LAUNCH_ATTEMPTS
    <3>1. /\ pc = "launch" /\ cur \in Order /\ attempts[cur] \in Nat
          /\ UNCHANGED <<pending, todo, recent, finished>>
          /\ attempts'[cur] = tries /\ (o # cur => attempts'[o] = attempts[o])
      BY <2>11 DEF LaunchRefused, RunInv, RestType, WithOrder, reportVars
    <3>2. CASE again
      <4>1. /\ pc' = "orders" /\ blocked' = blocked \cup {cur}
            /\ tries \in 1..(MAX_LAUNCH_ATTEMPTS - 1)
            /\ kept' = [kept EXCEPT ![cur] = @ + 1]
        BY <1>0, <2>11, <3>1, <3>2 DEF LaunchRefused, KeptIf
      <4>2. kept'[cur] = kept[cur] + 1 /\ (o # cur => kept'[o] = kept[o])
        BY <3>1, <4>1 DEF QueueInv
      <4> HIDE DEF tries
      <4> QED BY <1>0, <1>a, <3>1, <4>1, <4>2
    <3>3. CASE ~ again
      <4>1. pc' = "startup" /\ cur' = cur /\ kept' = kept /\ blocked' = blocked
        BY <2>11, <3>3 DEF LaunchRefused
      <4> HIDE DEF tries
      <4> QED BY <1>0, <1>a, <3>1, <4>1
    <3> QED BY <3>2, <3>3
  <2> QED
    BY <1>2, <2>1, <2>2, <2>3, <2>4, <2>5, <2>6, <2>7, <2>8, <2>9, <2>10, <2>11 DEF OrderStep
<1>3. CASE RunStep
  <2>1. UNCHANGED queueVars /\ pc \notin {"orders"} \cup Launching /\ pc' \notin {"orders"} \cup Launching
    BY <1>3 DEF RunStep, RunsNotDue, RunsDue, HonorMark, HandOff, StopFailed, StopVm, ReportFailed,
       RunsDone, CancelMark, CancelReport, HonorReject, PollFails, PollWorking, PollHandsOff, PollFailed, pcVars
  <2>2. o \in recent' => finished'[o] # <<>>
    <3>1. CASE ReportFailed \/ CancelReport
      <4>1. cur \in Order
        BY <3>1 DEF ReportFailed, CancelReport, RunInv, WithOrder
      <4>2. \E status \in Failure : Report(cur, status)
        BY <3>1 DEF ReportFailed, CancelReport, RunInv, RestType, Failure
      <4> QED BY <1>d, <4>1, <4>2, ReportIsHeard
    <3>2. CASE UNCHANGED reportVars
      BY <3>2 DEF reportVars
    <3> QED
      BY <1>3, <3>1, <3>2 DEF RunStep, RunsNotDue, RunsDue, HonorMark, HandOff, StopFailed, StopVm, RunsDone,
         CancelMark, HonorReject, PollFails, PollWorking, PollHandsOff, PollFailed
  <2> QED BY <1>a, <2>1, <2>2 DEF queueVars
<1>4. CASE Environment
  <2>1. ASSUME NEW p \in Order, Publish(p) PROVE Goal
    BY <1>b, <2>1 DEF Publish, pcVars, reportVars
  <2>2. ASSUME NEW p \in Order, Unblock(p) PROVE Goal
    BY <1>a, <2>2 DEF Unblock, pcVars, reportVars
  <2>3. ASSUME NEW p \in Order, FrontendRejects(p) \/ RejectUnlaunched(p) PROVE Goal
    <3>1. Report(p, "cancelled") /\ UNCHANGED <<queueVars, pc, cur>>
      BY <2>3 DEF FrontendRejects, RejectUnlaunched, pcVars
    <3>2. o \in recent' => finished'[o] # <<>>
      BY <1>d, <3>1, ReportIsHeard DEF Failure
    <3> QED BY <1>b, <3>1, <3>2
  <2>4. ASSUME NEW p \in Order, Flood(p) PROVE Goal
    BY <1>b, <2>4 DEF Flood, pcVars
  <2>5. ASSUME NEW a \in Agent, RejectLaunched(a) PROVE Goal
    BY <1>c, <1>d, <2>5 DEF RejectLaunched, reportVars
  <2>6. ASSUME NEW a \in Agent, OpenPr(a) \/ VmEnds(a, "failed") \/ VmEnds(a, "stopped") PROVE Goal
    BY <1>b, <2>6 DEF OpenPr, VmEnds, pcVars, reportVars
  <2>7. CASE FrontendPolls
    BY <1>b, <2>7 DEF FrontendPolls, pcVars, reportVars
  <2>8. CASE RedisFails
    BY <1>a, <2>8 DEF RedisFails, reportVars
  <2>9. CASE ManagerDies
    <3>1. pending[o] > 0 => <<"forgotten", o>> \in hit'
      BY <2>9 DEF ManagerDies, MishapWith
    <3> QED BY <1>a, <2>9, <3>1 DEF ManagerDies, reportVars, Answered
  <2> QED
    BY <1>4, <2>1, <2>2, <2>3, <2>4, <2>5, <2>6, <2>7, <2>8, <2>9 DEF Environment
<1> QED BY <1>1, <1>2, <1>3, <1>4 DEF Next

\* An order that the manager holds stays with it until it has a run or a report, for
\* ever, however often it is published, refused, delayed or rejected, unless the
\* manager is killed with it.  (That it is answered in the end is OrderAnswered.)
THEOREM OrderNeverForgotten ==
  ASSUME NEW o \in Order
  PROVE  Spec => [](pending[o] > 0 =>
                      [](pending[o] > 0 \/ RunForOrder(o) # {} \/ finished[o] # <<>> \/ <<"forgotten", o>> \in hit))
<1> DEFINE Known == pending[o] > 0 \/ Answered(o)
<1>1. Init => HeldInv(o)
  BY DEF Init, HeldInv, None, Launching
<1>2. QueueInv /\ RunInv /\ HeldInv(o) /\ [Next]_vars => HeldInv(o)' /\ (Known => Known')
  BY NextHeld, AnsweredStays
<1>3. pending[o] > 0 => Known
  OBVIOUS
<1>4. Known => pending[o] > 0 \/ RunForOrder(o) # {} \/ finished[o] # <<>> \/ <<"forgotten", o>> \in hit
  BY DEF Answered
<1> HIDE DEF Known
<1> QED BY <1>1, <1>2, <1>3, <1>4, InitQueue, NextQueue, InitRun, NextRun, PTL DEF Spec

(***************************************************************************)
(* No run ends in silence.                                                 *)
(***************************************************************************)

\* The places between the mark on the hash of the run at hand and the report of it.
Reporting == {"stop", "report", "cancelReport"}

\* A run whose hash says that it is over does no work any more, and is reported, about
\* to be, or was left by a manager that was lost between the mark on this hash and
\* the report.
EndsAreTrue ==
  \A a \in Agent : reg[a] \in Failure =>
    /\ vm[a] # "working"
    /\ \/ finished[orderOf[a]] # <<>>
       \/ pc \in Reporting /\ agent = a
       \/ <<"cutOff", a>> \in hit

\* What the manager knows of a run when it is about to mark it: its machine is stopped,
\* and the operator's report of it is there or the manager has its order at hand.
EndInv ==
  /\ EndsAreTrue
  /\ \A o \in recent \cup rejects : finished[o] # <<>>
  /\ pc \in {"honorMark", "cancelMark"} => vm[agent] # "working"
  /\ pc = "honorMark" => finished[orderOf[agent]] # <<>>
  /\ pc \in {"cancelMark"} \cup Reporting => orderOf[agent] = cur

\* Nobody marks a run as over before its machine is, or without a report to come.
LEMMA NextEnd == RunInv /\ EndInv /\ [Next]_vars => EndInv'
<1> SUFFICES ASSUME RunInv, EndInv, [Next]_vars PROVE EndInv'
  OBVIOUS
<1>0. RestType /\ \A a \in Agent : reg[a] # "none" => orderOf[a] \in Order /\ vm[a] # "none"
  BY DEF RunInv
<1> USE DEF At, Between, Reporting
<1>a. ASSUME UNCHANGED <<reg, orderOf, reportVars, rejects>>,
             \A a \in Agent : vm[a] # "working" => vm'[a] # "working",
             hit \subseteq hit',
             \/ UNCHANGED pcVars
             \/ pc \notin Reporting /\ pc' \notin {"honorMark", "cancelMark"} \cup Reporting
             \/ {pc, pc'} \subseteq Reporting /\ UNCHANGED <<cur, agent>>
             \/ (pc \in Reporting => <<"cutOff", agent>> \in hit') /\ pc' = "down"
      PROVE  EndInv'
  BY <1>a, <1>0 DEF EndInv, EndsAreTrue, RunInv, WithAgent, pcVars, reportVars
<1>b. ASSUME NEW o \in Order, NEW status \in Failure, Report(o, status),
             UNCHANGED <<reg, orderOf, vm, rejects, hit>>,
             \/ UNCHANGED pcVars
             \/ cur = o /\ pc' \notin {"honorMark", "cancelMark"} \cup Reporting
      PROVE  EndInv'
  <2>1. \A x \in Order : finished[x] # <<>> => finished'[x] # <<>>
    BY <1>b, ReportIsHeard
  <2>2. finished'[o] # <<>> /\ recent' = recent \cup {o}
    BY <1>b, ReportIsHeard DEF Report
  <2>3. \A a \in Agent : reg[a] \in Failure => orderOf[a] \in Order
    BY <1>0 DEF Failure
  <2>4. \A x \in recent \cup rejects : x \in Order
    BY <1>0 DEF RestType
  <2>5. EndsAreTrue'
    BY <1>b, <2>1, <2>2, <2>3 DEF EndInv, EndsAreTrue, pcVars
  <2>6. \A x \in recent' \cup rejects' : finished'[x] # <<>>
    BY <1>b, <2>1, <2>2, <2>4 DEF EndInv
  <2>7. pc = "honorMark" => orderOf[agent] \in Order
    BY <1>0 DEF RunInv, WithAgent
  <2> QED BY <1>b, <2>1, <2>5, <2>6, <2>7 DEF EndInv, pcVars
<1>1. CASE UNCHANGED vars
  BY <1>a, <1>1 DEF vars, runVars, vmVars, pollVars, pcVars, mishapVars
<1>2. CASE OrderStep
  <2>1. CASE Launch
    <3>1. /\ orderOf' \in [Agent -> Order \cup {NoOrder}]
          /\ \A a \in Agent : reg[a] # "none" => orderOf'[a] = orderOf[a] /\ vm'[a] = vm[a]
          /\ UNCHANGED <<reg, rejects, recent, finished, hit>> /\ pc = "launch" /\ pc' = "minted"
      BY <1>0, <2>1 DEF Launch, RunInv, WithOrder, RestType, runVars, pollVars, reportVars, mishapVars
    <3> QED BY <3>1 DEF EndInv, EndsAreTrue, Failure
  <2>2. CASE Register
    <3>1. /\ reg' = [reg EXCEPT ![agent] = "running"] /\ pc = "register" /\ pc' = "orders"
          /\ UNCHANGED <<orderOf, vm, rejects, recent, finished, hit>>
      BY <2>2 DEF Register, vmVars, pollVars, reportVars, mishapVars
    <3> QED BY <1>0, <3>1 DEF EndInv, EndsAreTrue, Failure, RestType
  <2>3. CASE ReportStartupError
    BY <1>b, <2>3 DEF ReportStartupError, RunInv, WithOrder, Failure, runVars, vmVars, pollVars, mishapVars
  <2>4. CASE DropMinted
    BY <1>0, <1>a, <2>4 DEF DropMinted, RestType, runVars, pollVars, reportVars, mishapVars, Mishap, MishapWith
  <2>5. CASE Listen \/ Drain \/ CheckMinted \/ OrdersDone
    BY <1>a, <2>5 DEF Listen, Drain, CheckMinted, OrdersDone, runVars, vmVars, pollVars, mishapVars
  <2>6. ASSUME NEW o \in Order, SkipOrder(o) \/ TryOrder(o) PROVE EndInv'
    BY <1>a, <2>6 DEF SkipOrder, TryOrder, runVars, vmVars, pollVars, pcVars, mishapVars
  <2>7. ASSUME NEW retryable \in StartupError, LaunchRefused(retryable) PROVE EndInv'
    BY <1>a, <2>7 DEF LaunchRefused, runVars, vmVars, pollVars, Mishap, MishapWith
  <2> QED BY <1>2, <2>1, <2>2, <2>3, <2>4, <2>5, <2>6, <2>7 DEF OrderStep
<1>3. CASE RunStep
  <2>1. CASE RunsNotDue
    BY <1>a, <2>1 DEF RunsNotDue, runVars, vmVars, pollVars, mishapVars
  <2>2. CASE RunsDue
    <3>1. rejects' \subseteq recent /\ UNCHANGED <<reg, orderOf, vm, recent, finished, hit>>
          /\ pc = "due" /\ pc' = "runs"
      BY <2>2 DEF RunsDue, runVars, vmVars, reportVars, mishapVars
    <3> QED BY <3>1 DEF EndInv, EndsAreTrue
  <2>3. CASE RunsDone
    BY <2>3 DEF RunsDone, runVars, vmVars, reportVars, mishapVars, EndInv, EndsAreTrue
  <2>4. CASE HonorMark
    <3>1. /\ reg' = [reg EXCEPT ![agent] = "cancelled"] /\ pc = "honorMark" /\ pc' = "runs"
          /\ UNCHANGED <<orderOf, vm, rejects, recent, finished, hit>>
      BY <2>4 DEF HonorMark, vmVars, pollVars, reportVars, mishapVars
    <3> QED BY <1>0, <3>1 DEF EndInv, EndsAreTrue, RestType
  <2>5. CASE CancelMark
    <3>1. /\ reg' = [reg EXCEPT ![agent] = "cancelled"] /\ pc = "cancelMark" /\ pc' = "cancelReport"
          /\ UNCHANGED <<cur, agent, orderOf, vm, rejects, recent, finished, hit>>
      BY <2>5 DEF CancelMark, vmVars, pollVars, reportVars, mishapVars
    <3> QED BY <1>0, <3>1 DEF EndInv, EndsAreTrue, RestType
  <2>6. CASE HandOff \/ StopFailed
    BY <1>0, <1>a, <2>6 DEF HandOff, StopFailed, StopVm, RestType, runVars, pollVars, mishapVars, Mishap, MishapWith
  <2>7. CASE ReportFailed \/ CancelReport
    BY <1>0, <1>b, <2>7 DEF ReportFailed, CancelReport, RunInv, WithOrder, RestType, Failure, runVars,
      vmVars, pollVars, mishapVars
  <2>8. ASSUME NEW a \in Agent, HonorReject(a) PROVE EndInv'
    <3>1. /\ \A b \in Agent : vm[b] # "working" => vm'[b] # "working"
          /\ UNCHANGED <<reg, orderOf, rejects, recent, finished>> /\ hit \subseteq hit'
          /\ pc = "runs" /\ orderOf[a] \in rejects
          /\ (pc' = "honorMark" /\ agent' = a /\ vm'[a] # "working") \/ UNCHANGED pcVars
      BY <1>0, <2>8 DEF HonorReject, RestType, runVars, reportVars, mishapVars, Mishap, MishapWith
    <3>2. EndsAreTrue'
      BY <3>1 DEF EndInv, EndsAreTrue, pcVars
    <3> QED BY <3>1, <3>2 DEF EndInv, pcVars
  <2>9. ASSUME NEW a \in Agent, PollFails(a) \/ PollWorking(a) \/ PollHandsOff(a) PROVE EndInv'
    BY <1>a, <2>9 DEF PollFails, PollWorking, PollHandsOff, runVars, vmVars, pcVars, mishapVars, Mishap, MishapWith
  <2>10. ASSUME NEW a \in Agent, PollFailed(a) PROVE EndInv'
    <3>1. /\ pc = "runs" /\ pc' \in {"stop", "report"} /\ cur' = orderOf[a] /\ agent' = a
          /\ vm[a] # "working" /\ (\A b \in Agent \ {a} : reg'[b] = reg[b])
          /\ UNCHANGED <<orderOf, vm, rejects, recent, finished, hit>>
      BY <1>0, <2>10 DEF PollFailed, Polled, Failure, RestType, vmVars, reportVars, mishapVars
    <3> QED BY <3>1 DEF EndInv, EndsAreTrue
  <2> QED
    BY <1>3, <2>1, <2>2, <2>3, <2>4, <2>5, <2>6, <2>7, <2>8, <2>9, <2>10 DEF RunStep
<1>4. CASE Environment
  <2>1. ASSUME NEW o \in Order, Publish(o) \/ Unblock(o) PROVE EndInv'
    BY <1>a, <2>1 DEF Publish, Unblock, runVars, vmVars, pollVars, pcVars, mishapVars
  <2>2. ASSUME NEW o \in Order, FrontendRejects(o) \/ RejectUnlaunched(o) PROVE EndInv'
    BY <1>b, <2>2 DEF FrontendRejects, RejectUnlaunched, Failure, runVars, vmVars, pollVars, mishapVars
  <2>3. ASSUME NEW o \in Order, Flood(o) PROVE EndInv'
    <3>1. /\ recent' \subseteq recent /\ hit \subseteq hit'
          /\ UNCHANGED <<reg, orderOf, vm, rejects, finished, pc, cur, agent>>
      BY <2>3 DEF Flood, Mishap, MishapWith, runVars, vmVars, pollVars, pcVars
    <3> QED BY <3>1 DEF EndInv, EndsAreTrue
  <2>4. ASSUME NEW a \in Agent, RejectLaunched(a) PROVE EndInv'
    <3>1. /\ \A b \in Agent : vm[b] # "working" => vm'[b] # "working"
          /\ UNCHANGED <<reg, orderOf, rejects, recent, finished, hit>>
          /\ pc = "idle" /\ pc' = "cancelMark" /\ cur' = orderOf[a] /\ agent' = a /\ vm'[a] # "working"
      BY <1>0, <2>4 DEF RejectLaunched, RestType, runVars, pollVars, reportVars, mishapVars
    <3> QED BY <3>1 DEF EndInv, EndsAreTrue
  <2>5. ASSUME NEW a \in Agent, OpenPr(a) \/ VmEnds(a, "failed") \/ VmEnds(a, "stopped") PROVE EndInv'
    <3>1. \A b \in Agent : vm[b] # "working" => vm'[b] # "working"
      BY <1>0, <2>5 DEF OpenPr, VmEnds, RestType
    <3> QED BY <1>a, <2>5, <3>1 DEF OpenPr, VmEnds, runVars, pollVars, pcVars, mishapVars
  <2>6. CASE FrontendPolls
    BY <1>a, <2>6 DEF FrontendPolls, runVars, vmVars, pollVars, pcVars, mishapVars
  <2>7. CASE RedisFails \/ ManagerDies
    <3>1. /\ hit \subseteq hit' /\ CutOff \subseteq hit' /\ rejects' = {} /\ pc' = "down"
          /\ UNCHANGED <<reg, orderOf, vm, recent, finished>>
      BY <2>7 DEF RedisFails, ManagerDies, MishapWith, runVars, vmVars, reportVars
    <3>2. pc \in Reporting => <<"cutOff", agent>> \in hit'
      BY <3>1 DEF CutOff
    <3> QED BY <3>1, <3>2 DEF EndInv, EndsAreTrue
  <2> QED BY <1>4, <2>1, <2>2, <2>3, <2>4, <2>5, <2>6, <2>7 DEF Environment
<1> QED BY <1>1, <1>2, <1>3, <1>4 DEF Next

\* A run that the registry shows as over is over, and somebody is told of it, for any
\* orders, agents and bounds: a cancel that Cursor refuses marks nothing, and a run
\* stays unreported only if a manager was lost between the mark on that very run and
\* its report; crashes and Redis errors anywhere else are no excuse.
\* (That the runs get there is RejectedRunStops and EveryRunSettles.)
THEOREM EndsAreTrueEver == Spec => []EndsAreTrue
<1>1. Init => EndInv
  BY DEF Init, EndInv, EndsAreTrue, Failure, Reporting
<1>2. EndInv => EndsAreTrue
  BY DEF EndInv
<1> QED BY <1>1, <1>2, InitRun, NextRun, NextEnd, PTL DEF Spec
=============================================================================
