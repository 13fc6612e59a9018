----------------------------- MODULE CloudFactory -----------------------------
(***************************************************************************)
(* Work orders that become agents on Cursor's machines.  The manager       *)
(* (CloudFactoryManager/manager.py) is one thread: a pass of run_forever   *)
(* launches the orders it has been sent and then asks Cursor, through      *)
(* runtime.py, how the runs in its registry are doing.  The registry, the  *)
(* CLOUDRUN hashes, is on the persistent database, the reports are on the  *)
(* CLOUDFINISHED stream.  Beside the manager the operator rejects orders   *)
(* at any moment, with an entry on CLOUDFINISHED (cloud_factory_frontend/  *)
(* app.py), and an agent works, opens its pull request and ends.           *)
(*                                                                         *)
(* A step is one call of Redis or of Cursor with the local work that       *)
(* follows it.  Reading all the hashes, or all the reports, is one step.   *)
(***************************************************************************)
EXTENDS Naturals, Sequences

CONSTANTS
  Order,        \* order ids that may be published
  Agent,        \* agent ids that Cursor may mint
  NoOrder,
  NoAgent,
  MAX_LAUNCH_ATTEMPTS,
  Faults,       \* what may go wrong
  MaxPublish,   \* bound on how often one order is published
  MaxMishaps    \* bound on how often something goes wrong

ASSUME IdAssumption == NoOrder \notin Order /\ NoAgent \notin Agent

\* "api": a call of Cursor fails, and has had no effect.  "redis": a Redis
\* command fails.  "crash": the manager is killed.  "flood": 200 later reports
\* push those of an order out of the part of CLOUDFINISHED that is read.
ASSUME FaultsAssumption ==
  /\ Faults \subseteq {"api", "redis", "crash", "flood"}
  /\ MaxPublish \in Nat /\ MaxMishaps \in Nat /\ MAX_LAUNCH_ATTEMPTS \in Nat \ {0}

VARIABLES
  published,  \* how often each order has been published
  inbox,      \* how many of its signals the subscription holds
  stored,     \* orders on the CLOUDORDER stream
  rows,       \* orders that the frontend's list, as last read, lets one reject
  pending,    \* manager: entries of _pending, by order
  todo,       \* entries that this poll_orders has yet to look at
  kept,       \* entries it keeps for the next one
  attempts,   \* _attempts, 0 where there is no entry
  blocked,    \* orders whose _blocked_until is in the future
  pc, cur, agent,  \* where the manager is, with which order and agent
  polls,      \* runs that this poll_runs has yet to look at
  rejects,    \* the orders that it read as rejected
  verdict,    \* the status that it is about to report
  reg,        \* status of each CLOUDRUN hash
  handed,     \* runs whose hash has a pr_url
  orderOf,    \* the order an agent was launched for
  vm,         \* what the agent's machine is doing
  pr,         \* agents that have opened a pull request
  finished,   \* reports of each order on CLOUDFINISHED, newest last
  recent,     \* orders with a report among the newest 200
  mishaps,    \* how often something has gone wrong
  hit         \* history: what a mishap has cut off, and how

orderVars == <<published, inbox, stored, rows>>
queueVars == <<pending, todo, kept, attempts, blocked>>
pollVars == <<polls, rejects, verdict>>
pcVars == <<pc, cur, agent>>
runVars == <<reg, handed>>
vmVars == <<orderOf, vm, pr>>
reportVars == <<finished, recent>>
mishapVars == <<mishaps, hit>>
vars == <<orderVars, queueVars, pcVars, pollVars, runVars, vmVars, reportVars, mishapVars>>

Failure == {"error", "cancelled", "startup_error"}
\* What a CLOUDRUN hash says, "none" when there is no hash.  "queued" counts as
\* "running", and a run that "finished" without a pull request is an "error".
RunStatus == {"none", "running"} \cup Failure

\* "forgotten": an order that a killed manager held.  "flooded": an order whose
\* reports are no longer read.  "unregistered": an agent of a manager that was
\* lost before it registered it.  "uncancelled": an agent that was dropped
\* unregistered while Cursor refused its cancel.  "cutOff": an agent of a
\* manager that was lost between the mark on its run and the report of it.
Trace == ({"forgotten", "flooded"} \X Order)
           \cup ({"unregistered", "uncancelled", "cutOff"} \X Agent)

ManagerPc == {"down", "idle", "orders", "launch", "startup", "minted", "register",
              "due", "runs", "handoff", "stop", "report", "honorMark",
              "cancelMark", "cancelReport"}

TypeOK ==
  /\ published \in [Order -> 0..MaxPublish]
  /\ inbox \in [Order -> 0..MaxPublish] /\ stored \subseteq Order /\ rows \subseteq Order
  /\ pending \in [Order -> 0..MaxPublish] /\ todo \in [Order -> 0..MaxPublish]
  /\ kept \in [Order -> 0..MaxPublish]
  /\ \A o \in Order : inbox[o] + pending[o] <= published[o] /\ todo[o] + kept[o] <= pending[o]
  /\ attempts \in [Order -> Nat] /\ blocked \subseteq Order
  /\ pc \in ManagerPc /\ cur \in Order \cup {NoOrder} /\ agent \in Agent \cup {NoAgent}
  /\ polls \subseteq Agent /\ rejects \subseteq Order /\ verdict \in Failure
  /\ reg \in [Agent -> RunStatus]
  /\ handed \subseteq Agent /\ pr \subseteq Agent
  /\ orderOf \in [Agent -> Order \cup {NoOrder}]
  /\ vm \in [Agent -> {"none", "working", "failed", "stopped"}]
  /\ finished \in [Order -> Seq(Failure)]
  /\ recent \subseteq Order
  /\ mishaps \in 0..MaxMishaps /\ hit \subseteq Trace

None == [o \in Order |-> 0]

Init ==
  /\ published = None /\ inbox = None /\ stored = {} /\ rows = {}
  /\ pending = None /\ todo = None /\ kept = None /\ attempts = None /\ blocked = {}
  /\ pc = "down" /\ cur = NoOrder /\ agent = NoAgent
  /\ polls = {} /\ rejects = {} /\ verdict = "error"
  /\ reg = [a \in Agent |-> "none"] /\ handed = {}
  /\ orderOf = [a \in Agent |-> NoOrder] /\ vm = [a \in Agent |-> "none"] /\ pr = {}
  /\ finished = [o \in Order |-> <<>>] /\ recent = {}
  /\ mishaps = 0 /\ hit = {}

MishapWith(kind, traces) ==
  /\ kind \in Faults
  /\ mishaps < MaxMishaps
  /\ mishaps' = mishaps + 1
  /\ hit' = hit \cup traces

Mishap(kind) == MishapWith(kind, {})

At(place, o, a) == pc' = place /\ cur' = o /\ agent' = a
Between(place) == At(place, NoOrder, NoAgent)

RunForOrder(o) == {a \in Agent : reg[a] # "none" /\ orderOf[a] = o}
Settled(o) == o \in recent
Newest(o) == finished[o][Len(finished[o])]

Report(o, status) ==
  /\ finished' = [finished EXCEPT ![o] = Append(@, status)]
  /\ recent' = recent \cup {o}

(***************************************************************************)
(* poll_orders and handle_order.                                           *)
(***************************************************************************)

\* The same order may be published more than once.
Publish(o) ==
  /\ published[o] < MaxPublish
  /\ published' = [published EXCEPT ![o] = @ + 1]
  /\ inbox' = IF pc = "down" THEN inbox ELSE [inbox EXCEPT ![o] = @ + 1]
  /\ UNCHANGED <<stored, rows, queueVars, pcVars, pollVars, runVars, vmVars, reportVars, mishapVars>>

Listen ==
  /\ pc = "down"
  /\ Between("idle")
  /\ UNCHANGED <<orderVars, queueVars, pollVars, runVars, vmVars, reportVars, mishapVars>>

Drain ==
  /\ pc = "idle"
  /\ pending' = [o \in Order |-> pending[o] + inbox[o]]
  /\ todo' = pending' /\ kept' = None
  /\ inbox' = None
  /\ stored' = stored \cup {o \in Order : inbox[o] > 0}
  /\ Between("orders")
  /\ UNCHANGED <<published, rows, attempts, blocked, pollVars, runVars, vmVars, reportVars, mishapVars>>

\* What poll_orders does with an entry that was not launched.
KeptIf(o, tries) ==
  kept' = IF tries \in 1..(MAX_LAUNCH_ATTEMPTS - 1) THEN [kept EXCEPT ![o] = @ + 1] ELSE kept

\* The order has a run, or a report, or Cursor has asked for a delay.
SkipOrder(o) ==
  /\ pc = "orders" /\ todo[o] > 0
  /\ RunForOrder(o) # {} \/ Settled(o) \/ o \in blocked
  /\ todo' = [todo EXCEPT ![o] = @ - 1]
  /\ KeptIf(o, attempts[o])
  /\ UNCHANGED <<orderVars, pending, attempts, blocked, pcVars, pollVars, runVars, vmVars,
                 reportVars, mishapVars>>

\* Changed form for the checks: the registry is not asked.
TryOrderUnasked(o) ==
  /\ pc = "orders" /\ todo[o] > 0
  /\ ~ Settled(o) /\ o \notin blocked
  /\ todo' = [todo EXCEPT ![o] = @ - 1]
  /\ At("launch", o, NoAgent)
  /\ UNCHANGED <<orderVars, pending, kept, attempts, blocked, pollVars, runVars, vmVars,
                 reportVars, mishapVars>>

TryOrder(o) ==
  /\ pc = "orders" /\ todo[o] > 0
  /\ RunForOrder(o) = {} /\ ~ Settled(o) /\ o \notin blocked
  /\ todo' = [todo EXCEPT ![o] = @ - 1]
  /\ At("launch", o, NoAgent)
  /\ UNCHANGED <<orderVars, pending, kept, attempts, blocked, pollVars, runVars, vmVars,
                 reportVars, mishapVars>>

\* Cursor mints an id and the agent accepts its work.  The number of Agents
\* bounds how often this happens; which unused id it is makes no difference.
Launch ==
  LET a == CHOOSE new \in Agent : vm[new] = "none"
  IN  /\ pc = "launch" /\ \E new \in Agent : vm[new] = "none"
      /\ vm' = [vm EXCEPT ![a] = "working"]
      /\ orderOf' = [orderOf EXCEPT ![a] = cur]
      /\ At("minted", cur, a)
      /\ UNCHANGED <<orderVars, queueVars, pollVars, runVars, pr, reportVars, mishapVars>>

\* Changed form for the checks: an order that may be tried again is not kept.
LaunchRefusedForgets(retryable) ==
  LET tries == attempts[cur] + 1
      again == retryable /\ tries < MAX_LAUNCH_ATTEMPTS
  IN  /\ pc = "launch"
      /\ Mishap("api")
      /\ attempts' = [attempts EXCEPT ![cur] = tries]
      /\ blocked' = IF again THEN blocked \cup {cur} ELSE blocked
      /\ IF again THEN Between("orders") ELSE At("startup", cur, NoAgent)
      /\ UNCHANGED <<orderVars, pending, todo, kept, pollVars, runVars, vmVars, reportVars>>

\* Whether Cursor says that trying again is safe.
StartupError == BOOLEAN

\* Cursor refuses.  An agent that was created and would not accept its work has
\* none to do, and is not followed.
LaunchRefused(retryable) ==
  LET tries == attempts[cur] + 1
      again == retryable /\ tries < MAX_LAUNCH_ATTEMPTS
  IN  /\ pc = "launch"
      /\ Mishap("api")
      /\ attempts' = [attempts EXCEPT ![cur] = tries]
      /\ blocked' = IF again THEN blocked \cup {cur} ELSE blocked
      /\ IF again THEN KeptIf(cur, tries) /\ Between("orders")
                  ELSE At("startup", cur, NoAgent) /\ UNCHANGED kept
      /\ UNCHANGED <<orderVars, pending, todo, pollVars, runVars, vmVars, reportVars>>

\* _finish_without_agent
ReportStartupError ==
  /\ pc = "startup"
  /\ Report(cur, "startup_error")
  /\ attempts' = [attempts EXCEPT ![cur] = 0]
  /\ Between("orders")
  /\ UNCHANGED <<orderVars, pending, todo, kept, blocked, pollVars, runVars, vmVars, mishapVars>>

Unblock(o) ==
  /\ o \in blocked
  /\ blocked' = blocked \ {o}
  /\ UNCHANGED <<orderVars, pending, todo, kept, attempts, pcVars, pollVars, runVars,
                 vmVars, reportVars, mishapVars>>

CheckMinted ==
  /\ pc = "minted" /\ ~ Settled(cur)
  /\ At("register", cur, agent)
  /\ UNCHANGED <<orderVars, queueVars, pollVars, runVars, vmVars, reportVars, mishapVars>>

\* Rejected while Cursor was minting the id.  A cancel that fails is logged, and
\* nobody asks again: the agent is in no registry.
DropMinted ==
  /\ pc = "minted" /\ Settled(cur)
  /\ \/ vm' = [vm EXCEPT ![agent] = "stopped"] /\ UNCHANGED mishapVars
     \/ vm' = vm /\ MishapWith("api", {<<"uncancelled", agent>>})
  /\ KeptIf(cur, attempts[cur])
  /\ Between("orders")
  /\ UNCHANGED <<orderVars, pending, todo, attempts, blocked, pollVars, runVars, orderOf, pr,
                 reportVars>>

Register ==
  /\ pc = "register"
  /\ reg' = [reg EXCEPT ![agent] = "running"]
  /\ attempts' = [attempts EXCEPT ![cur] = 0]
  /\ blocked' = blocked \ {cur}
  /\ Between("orders")
  /\ UNCHANGED <<orderVars, pending, todo, kept, pollVars, handed, vmVars, reportVars, mishapVars>>

OrdersDone ==
  /\ pc = "orders" /\ todo = None
  /\ pending' = kept
  /\ kept' = None
  /\ Between("due")
  /\ UNCHANGED <<orderVars, todo, attempts, blocked, pollVars, runVars, vmVars, reportVars, mishapVars>>

(***************************************************************************)
(* poll_runs and _apply_state.                                             *)
(***************************************************************************)

RunsNotDue ==
  /\ pc = "due"
  /\ Between("idle")
  /\ UNCHANGED <<orderVars, queueVars, pollVars, runVars, vmVars, reportVars, mishapVars>>

LiveRuns == {a \in Agent : reg[a] = "running" /\ a \notin handed}

RunsDue ==
  /\ pc = "due"
  /\ rejects' = {o \in recent : Newest(o) = "cancelled"}
  /\ polls' = LiveRuns
  /\ Between("runs")
  /\ UNCHANGED <<orderVars, queueVars, verdict, runVars, vmVars, reportVars, mishapVars>>

\* Changed form for the checks: a run whose cancel failed is marked all the same.
HonorRejectAnyway(a) ==
  /\ pc = "runs" /\ a \in polls /\ orderOf[a] \in rejects
  /\ polls' = polls \ {a}
  /\ \/ vm' = [vm EXCEPT ![a] = IF @ = "working" THEN "stopped" ELSE @] /\ UNCHANGED mishapVars
     \/ Mishap("api") /\ UNCHANGED vm
  /\ At("honorMark", NoOrder, a)
  /\ UNCHANGED <<orderVars, queueVars, rejects, verdict, runVars, orderOf, pr, reportVars>>

\* _honor_reject: a cancel that fails is tried again at the next poll.
HonorReject(a) ==
  /\ pc = "runs" /\ a \in polls /\ orderOf[a] \in rejects
  /\ polls' = polls \ {a}
  /\ \/ /\ vm' = [vm EXCEPT ![a] = IF @ = "working" THEN "stopped" ELSE @]
        /\ At("honorMark", NoOrder, a)
        /\ UNCHANGED mishapVars
     \/ /\ Mishap("api")
        /\ UNCHANGED <<vm, pcVars>>
  /\ UNCHANGED <<orderVars, queueVars, rejects, verdict, runVars, orderOf, pr, reportVars>>

HonorMark ==
  /\ pc = "honorMark"
  /\ reg' = [reg EXCEPT ![agent] = "cancelled"]
  /\ Between("runs")
  /\ UNCHANGED <<orderVars, queueVars, pollVars, handed, vmVars, reportVars, mishapVars>>

PollFails(a) ==
  /\ pc = "runs" /\ a \in polls /\ orderOf[a] \notin rejects
  /\ Mishap("api")
  /\ polls' = polls \ {a}
  /\ UNCHANGED <<orderVars, queueVars, pcVars, rejects, verdict, runVars, vmVars, reportVars>>

\* What poll makes of Cursor's answer: a run that ended without a pull request
\* has failed, and with one it still counts as running.
Polled(a) ==
  IF a \in pr \/ vm[a] = "working" THEN "running"
  ELSE IF vm[a] = "failed" THEN "error" ELSE "cancelled"

\* A run that has neither ended nor opened a pull request stays as it is.
PollWorking(a) ==
  /\ pc = "runs" /\ a \in polls /\ orderOf[a] \notin rejects
  /\ Polled(a) = "running" /\ a \notin pr
  /\ polls' = polls \ {a}
  /\ UNCHANGED <<orderVars, queueVars, pcVars, rejects, verdict, runVars, vmVars, reportVars,
                 mishapVars>>

\* The first pull request: store it, then cancel the machine.
PollHandsOff(a) ==
  /\ pc = "runs" /\ a \in polls /\ orderOf[a] \notin rejects
  /\ a \in pr
  /\ polls' = polls \ {a}
  /\ handed' = handed \cup {a}
  /\ At("handoff", NoOrder, a)
  /\ UNCHANGED <<orderVars, queueVars, rejects, verdict, reg, vmVars, reportVars, mishapVars>>

\* runtime.cancel; the manager goes on to next when it fails, too.
StopVm(next, o) ==
  /\ \/ vm' = [vm EXCEPT ![agent] = IF @ = "working" THEN "stopped" ELSE @] /\ UNCHANGED mishapVars
     \/ vm' = vm /\ Mishap("api")
  /\ At(next, o, IF next = "runs" THEN NoAgent ELSE agent)
  /\ UNCHANGED <<orderVars, queueVars, pollVars, runVars, orderOf, pr, reportVars>>

HandOff == pc = "handoff" /\ StopVm("runs", NoOrder)

\* Changed form for the checks: the run is marked and not reported.
PollFailedSilently(a) ==
  /\ pc = "runs" /\ a \in polls /\ orderOf[a] \notin rejects
  /\ vm[a] \in {"failed", "stopped"} /\ a \notin pr
  /\ polls' = polls \ {a}
  /\ reg' = [reg EXCEPT ![a] = "error"]
  /\ UNCHANGED <<orderVars, queueVars, pcVars, rejects, verdict, handed, vmVars, reportVars,
                 mishapVars>>

\* A failed run is marked, then cancelled, then reported; one that was cancelled
\* at Cursor is marked and reported.
PollFailed(a) ==
  LET status == Polled(a)
  IN  /\ pc = "runs" /\ a \in polls /\ orderOf[a] \notin rejects
      /\ status \in Failure
      /\ polls' = polls \ {a}
      /\ reg' = [reg EXCEPT ![a] = status]
      /\ verdict' = status
      /\ At(IF status = "error" THEN "stop" ELSE "report", orderOf[a], a)
      /\ UNCHANGED <<orderVars, queueVars, rejects, handed, vmVars, reportVars, mishapVars>>

StopFailed == pc = "stop" /\ StopVm("report", cur)

ReportFailed ==
  /\ pc = "report"
  /\ Report(cur, verdict)
  /\ Between("runs")
  /\ UNCHANGED <<orderVars, queueVars, pollVars, runVars, vmVars, mishapVars>>

RunsDone ==
  /\ pc = "runs" /\ polls = {}
  /\ rejects' = {}
  /\ Between("idle")
  /\ UNCHANGED <<orderVars, queueVars, polls, verdict, runVars, vmVars, reportVars, mishapVars>>

(***************************************************************************)
(* Rejecting.                                                              *)
(***************************************************************************)

\* A row shows the status of the run's hash and, without a hash, that of the
\* newest report if it is among the 12 that the frontend reads; a row with a
\* terminal status cannot be rejected.
Rejectable(o, seen) ==
  /\ o \in stored
  /\ IF RunForOrder(o) = {} THEN o \notin seen ELSE \E a \in RunForOrder(o) : reg[a] = "running"

\* The frontend reads the registry, the reports and the orders.
FrontendPolls ==
  /\ \E seen \in SUBSET recent : rows' = {o \in Order : Rejectable(o, seen)}
  /\ UNCHANGED <<published, inbox, stored, queueVars, pcVars, pollVars, runVars, vmVars,
                 reportVars, mishapVars>>

\* The button, on a row that may be stale: the run may have ended since.  The
\* list is read again after it.  That an order is rejected once is a bound.
FrontendRejects(o) ==
  /\ o \in rows
  /\ "cancelled" \notin {finished[o][i] : i \in DOMAIN finished[o]}
  /\ Report(o, "cancelled")
  /\ \E seen \in SUBSET recent' : rows' = {x \in Order : Rejectable(x, seen)}
  /\ UNCHANGED <<published, inbox, stored, queueVars, pcVars, pollVars, runVars, vmVars,
                 mishapVars>>

\* CloudFactoryManager.reject and cancel, called between two passes.
RejectUnlaunched(o) ==
  /\ pc = "idle" /\ published[o] > 0
  /\ ~ Settled(o) /\ RunForOrder(o) = {}
  /\ Report(o, "cancelled")
  /\ UNCHANGED <<orderVars, queueVars, pcVars, pollVars, runVars, vmVars, mishapVars>>

RejectLaunched(a) ==
  /\ pc = "idle" /\ reg[a] # "none" /\ ~ Settled(orderOf[a])
  /\ vm' = [vm EXCEPT ![a] = IF @ = "working" THEN "stopped" ELSE @]
  /\ At("cancelMark", orderOf[a], a)
  /\ UNCHANGED <<orderVars, queueVars, pollVars, runVars, orderOf, pr, reportVars, mishapVars>>

CancelMark ==
  /\ pc = "cancelMark"
  /\ reg' = [reg EXCEPT ![agent] = "cancelled"]
  /\ At("cancelReport", cur, agent)
  /\ UNCHANGED <<orderVars, queueVars, pollVars, handed, vmVars, reportVars, mishapVars>>

CancelReport ==
  /\ pc = "cancelReport"
  /\ Report(cur, "cancelled")
  /\ Between("idle")
  /\ UNCHANGED <<orderVars, queueVars, pollVars, runVars, vmVars, mishapVars>>

(***************************************************************************)
(* What the environment does.                                              *)
(***************************************************************************)

OpenPr(a) ==
  /\ vm[a] = "working"
  /\ pr' = pr \cup {a}
  /\ UNCHANGED <<orderVars, queueVars, pcVars, pollVars, runVars, orderOf, vm, reportVars, mishapVars>>

\* The run fails or ends without a pull request, or is cancelled at Cursor.
VmEnds(a, state) ==
  /\ vm[a] = "working"
  /\ vm' = [vm EXCEPT ![a] = state]
  /\ UNCHANGED <<orderVars, queueVars, pcVars, pollVars, runVars, orderOf, pr, reportVars, mishapVars>>

Flood(o) ==
  /\ o \in recent
  /\ MishapWith("flood", {<<"flooded", o>>})
  /\ recent' = recent \ {o}
  /\ UNCHANGED <<orderVars, queueVars, pcVars, pollVars, runVars, vmVars, finished>>

\* What a manager that is lost here leaves half done.
CutOff ==
  {<<kind, agent>> : kind \in IF pc \in {"minted", "register"} THEN {"unregistered"}
                             ELSE IF pc \in {"stop", "report", "cancelReport"} THEN {"cutOff"}
                             ELSE {}}

\* A Redis error leaves poll_once (one that a caller of cancel gets is not
\* modelled); the subscription is closed and what it held,
\* or had just drained, is lost.  _pending is as it was before the pass.
RedisFails ==
  /\ pc \notin {"down", "launch", "handoff", "stop", "cancelMark", "cancelReport"}
  /\ MishapWith("redis", CutOff)
  /\ inbox' = None
  /\ todo' = None /\ kept' = None
  /\ polls' = {} /\ rejects' = {}
  /\ Between("down")
  /\ UNCHANGED <<published, stored, rows, pending, attempts, blocked, verdict, runVars, vmVars, reportVars>>

ManagerDies ==
  /\ pc # "down"
  /\ MishapWith("crash", CutOff \cup {<<"forgotten", o>> : o \in {x \in Order : pending[x] > 0}})
  /\ inbox' = None /\ pending' = None /\ todo' = None /\ kept' = None
  /\ attempts' = None /\ blocked' = {}
  /\ polls' = {} /\ rejects' = {}
  /\ Between("down")
  /\ UNCHANGED <<published, stored, rows, verdict, runVars, vmVars, reportVars>>

-----------------------------------------------------------------------------
OrderStep ==
  \/ Listen \/ Drain \/ Launch \/ ReportStartupError \/ CheckMinted \/ DropMinted \/ Register \/ OrdersDone
  \/ \E o \in Order : SkipOrder(o) \/ TryOrder(o)
  \/ \E retryable \in StartupError : LaunchRefused(retryable)

RunStep ==
  \/ RunsNotDue \/ RunsDue \/ HonorMark \/ HandOff \/ StopFailed \/ ReportFailed \/ RunsDone
  \/ CancelMark \/ CancelReport
  \/ \E a \in Agent :
       HonorReject(a) \/ PollFails(a) \/ PollWorking(a) \/ PollHandsOff(a) \/ PollFailed(a)

Environment ==
  \/ \E o \in Order :
       Publish(o) \/ Unblock(o) \/ FrontendRejects(o) \/ RejectUnlaunched(o) \/ Flood(o)
  \/ \E a \in Agent :
       RejectLaunched(a) \/ OpenPr(a) \/ VmEnds(a, "failed") \/ VmEnds(a, "stopped")
  \/ FrontendPolls \/ RedisFails \/ ManagerDies

Next == OrderStep \/ RunStep \/ Environment

Spec == Init /\ [][Next]_vars

\* The thread is never left waiting, the 10 seconds between two poll_runs pass,
\* and so does the delay that Cursor asks for.
Fairness ==
  /\ WF_vars(OrderStep) /\ WF_vars(RunStep) /\ SF_vars(RunsDue)
  /\ \A o \in Order : WF_vars(Unblock(o))

FairSpec == Spec /\ Fairness

(***************************************************************************)
(* Properties.                                                             *)
(***************************************************************************)

\* The registry never holds two runs of one order, whatever fails: the manager
\* asks it before every launch, and an order is in it before the next is tried.
OneRunPerOrder ==
  \A o \in Order : \A a, b \in RunForOrder(o) : a = b

\* An order that the manager holds gets a run or a report, unless the manager is
\* killed with it; a crash before it was held, or after, is no excuse.
OrderAnswered ==
  \A o \in Order :
    pending[o] > 0 ~>
      (RunForOrder(o) # {} \/ finished[o] # <<>> \/ <<"forgotten", o>> \in hit)

\* Every agent of an order that was rejected stops working on it, registered or
\* not, although the button only writes a report, unless it was handed off.  The
\* exceptions are named: the report is no longer among those that the manager
\* reads, or nobody has the agent in a registry, because its manager was lost
\* before the registration or dropped it with a cancel that Cursor refused.
RejectedRunStops ==
  \A a \in Agent, o \in Order :
    (orderOf[a] = o /\ Settled(o) /\ Newest(o) = "cancelled") ~>
      \/ vm[a] # "working" \/ a \in handed
      \/ hit \cap {<<"flooded", o>>, <<"unregistered", a>>, <<"uncancelled", a>>} # {}

\* A registered run that has ended or opened a pull request is handed off or
\* reported, whatever fails before or after, unless the manager is lost between
\* the mark on this run's hash and the report of it.
EveryRunSettles ==
  \A a \in Agent, o \in Order :
    (a \in LiveRuns /\ orderOf[a] = o /\ (vm[a] # "working" \/ a \in pr))
      ~> (a \in handed \/ finished[o] # <<>> \/ <<"cutOff", a>> \in hit)

\* Every order is launched at most once, whatever fails.
OneLaunchPerOrder ==
  \A a, b \in Agent : orderOf[a] # NoOrder /\ orderOf[a] = orderOf[b] => a = b
=============================================================================
