------------------------------ MODULE WorkGraph ------------------------------
(***************************************************************************)
(* One run inside its sandbox: AgentHandler.run_graph and the work graph   *)
(* that it compiles from a topology (AgentHandler/graph/build.py) and runs *)
(* node by node (graph/nodes.py), with the kanban board of the massive     *)
(* graph (graph/kanban.py) and the progress it publishes (graph/           *)
(* reporter.py).  LangGraph itself is external: it runs one node, merges   *)
(* what the node returns, and follows the edge that the router names.      *)
(*                                                                         *)
(* A step is one Redis command or one agent turn with the local work       *)
(* around it.  An agent may do anything with the clone; what is kept of a  *)
(* turn is whether it succeeded and which card it was about.               *)
(***************************************************************************)
EXTENDS Integers, Sequences, FiniteSets

CONSTANTS
  MaxCards, MaxId, MaxPriority,  \* bounds on the replies of the dispatcher
  Limit,      \* MASSIVE_RECURSION_LIMIT: node visits of a massive graph
  Faults,     \* what may go wrong
  MaxFaults   \* bound on how often something goes wrong

\* "redis": a Redis command fails.  "raise": a node raises instead of returning
\* an error (a git command times out, the SDK raises what run_agent does not
\* catch, the clone URL is refused).  "kill": the container is stopped.
\* "trim": the order is deleted from the WORKORDER stream.
ASSUME WorkGraphAssumption ==
  /\ MaxCards \in Nat \ {0} /\ MaxId \in Nat /\ MaxPriority \in Nat
  /\ Limit \in Nat \ {0}
  /\ Faults \subseteq {"redis", "raise", "kill", "trim"}
  /\ MaxFaults \in Nat

VARIABLES
  order,     \* the graph that the order on the WORKORDER stream asks for
  spec,      \* the topology that was compiled
  phase,     \* where the process is inside the node
  node,      \* the node that runs, or that the router chose
  visits,    \* nodes that LangGraph has run
  failed,    \* state["failed_node"], with state["error"]
  board,     \* state["kanban"]
  worked,    \* history: cards that an agent was given, in order
  result,    \* the status teardown settled on
  pushed,    \* the branch was pushed and its pull request opened
  shown,     \* GraphReporter._nodes
  run,       \* the GRAPHRUN hash
  events,    \* the GRAPHEVENT entries of this run
  hash,      \* the AGENTHANDLER hash
  reports,   \* the FINISHED entries of this run
  faults,    \* how often something has gone wrong
  lost       \* history: writes of the reporter that failed

graphVars == <<spec, node, visits, failed, board, worked>>
shownVars == <<shown, run, events, lost>>
factoryVars == <<hash, reports>>
vars == <<order, graphVars, phase, result, pushed, shownVars, factoryVars, faults>>

-----------------------------------------------------------------------------
(***************************************************************************)
(* The two topologies.  In both every edge leads to the next node of the   *)
(* list; what is not straight is added by the routers.                     *)
(***************************************************************************)

WorkNodes ==
  <<"startup_node", "pathfinder_node", "workhorse_node", "git_node", "teardown_node">>

MassiveNodes ==
  <<"startup_node", "orchestrator_node", "dispatcher_node", "ralph_node", "test_node",
    "teardown_node">>

Nodes(s) == IF s = "massive" THEN MassiveNodes ELSE WorkNodes
NodeNames(s) == {Nodes(s)[i] : i \in DOMAIN Nodes(s)}
AllNodes == NodeNames("work") \cup NodeNames("massive")
NoNode == "none"

Entry == "startup_node"
Terminal == "teardown_node"

PlaceOf(s, n) == CHOOSE i \in DOMAIN Nodes(s) : Nodes(s)[i] = n
Target(s, n) == Nodes(s)[PlaceOf(s, n) + 1]

-----------------------------------------------------------------------------
(***************************************************************************)
(* The board.  A card is known by the id that the agent gave it, or by its *)
(* place in the reply; the same holds for its priority.                    *)
(***************************************************************************)

\* 0 stands for a field that the reply leaves out.
Item == [id : 0..MaxId, priority : 0..MaxPriority]
Replies == UNION {[1..n -> Item] : n \in 1..MaxCards}

OrIndex(value, i) == IF value = 0 THEN i ELSE value

ParseKanban(items) ==
  [i \in DOMAIN items |-> [id |-> OrIndex(items[i].id, i),
                           priority |-> OrIndex(items[i].priority, i),
                           done |-> FALSE]]

\* The order of rank_cards: lowest priority first, then original order.
Before(cards, i, j) ==
  \/ cards[i].priority < cards[j].priority
  \/ cards[i].priority = cards[j].priority /\ i < j

Todo(cards) == {i \in DOMAIN cards : ~ cards[i].done}

\* Changed form for the checks: the board is worked in the order in which it was written.
NextTodoUnranked(cards) == CHOOSE i \in Todo(cards) : \A j \in Todo(cards) : i <= j

NextTodo(cards) == CHOOSE i \in Todo(cards) : \A j \in Todo(cards) \ {i} : Before(cards, i, j)

\* Every card of that id is done, not only the one that was worked on.
MarkDone(cards, i) ==
  [j \in DOMAIN cards |-> IF cards[j].id = cards[i].id THEN [cards[j] EXCEPT !.done = TRUE]
                                                       ELSE cards[j]]

-----------------------------------------------------------------------------
Outcome == {"finished", "error"}
NodeStatus == {"queued", "running"} \cup Outcome

NoRun == [nodes |-> <<>>, current |-> NoNode, status |-> "none"]

\* After "ended", "raised" and "killed" the process is gone; after "told" the
\* manager has reported in its place.
Gone == {"ended", "raised", "killed", "told"}
NotStarted == {"new", "registered"}
Phase == NotStarted \cup Gone \cup
  {"peek", "announce", "enter", "turn", "mark", "clone",
   "settle", "publish", "delete", "close", "finish", "clear"}

InProgress == phase \notin NotStarted \cup Gone

\* What the reporter can say of the graph s.
Boxes(s) == [NodeNames(s) -> NodeStatus]
Runs(s) == {NoRun} \cup [nodes : Boxes(s), current : AllNodes \cup {NoNode},
                         status : {"running"} \cup Outcome]
NodeEvent == AllNodes \X NodeStatus

Card == [id : Nat \ {0}, priority : Nat \ {0}, done : BOOLEAN]

TypeOK ==
  /\ order \in {"work", "massive", "lost"}
  /\ spec \in {"work", "massive"}
  /\ phase \in Phase
  /\ node \in NodeNames(spec)
  /\ visits \in Nat /\ (spec = "massive" => visits <= Limit)
  /\ failed \in AllNodes \cup {NoNode}
  /\ board \in Seq(Card) /\ Len(board) <= MaxCards
  /\ worked \in Seq(1..MaxCards)
  /\ result \in Outcome \cup {"none"}
  /\ pushed \in BOOLEAN
  /\ shown \in Boxes(spec) /\ run \in Runs(spec) /\ events \in Seq(NodeEvent)
  /\ hash \in {"none", "queued", "running"} \cup Outcome
  /\ reports \in Seq(Outcome)
  /\ faults \in 0..MaxFaults
  /\ lost \subseteq {"hash", "event", "clear", "process"}

Init ==
  /\ order \in {"work", "massive"} /\ spec = "work"
  /\ phase = "new" /\ node = Entry /\ visits = 0
  /\ failed = NoNode /\ board = <<>> /\ worked = <<>>
  /\ result = "none" /\ pushed = FALSE
  /\ shown = [n \in NodeNames("work") |-> "queued"]
  /\ run = NoRun /\ events = <<>>
  /\ hash = "none" /\ reports = <<>>
  /\ faults = 0 /\ lost = {}

Fault(kind) ==
  /\ kind \in Faults
  /\ faults < MaxFaults
  /\ faults' = faults + 1

-----------------------------------------------------------------------------
(***************************************************************************)
(* GraphReporter.  Every write is tried once; one that fails is logged.    *)
(* The hash is written whole, so the next write makes up for a lost one.   *)
(***************************************************************************)

Written(nodes, current, status) == [nodes |-> nodes, current |-> current, status |-> status]

Event(n, status) == <<n, status>>

\* cost: what has gone wrong in the same step already.
Report(nodes, current, status, news, cost) ==
  \E failing \in SUBSET (IF news = <<>> THEN {"hash"} ELSE {"hash", "event"}) :
    /\ failing # {} => "redis" \in Faults
    /\ faults + cost + Cardinality(failing) <= MaxFaults
    /\ faults' = faults + cost + Cardinality(failing)
    /\ shown' = nodes
    /\ run' = IF "hash" \in failing THEN run ELSE Written(nodes, current, status)
    /\ events' = IF "event" \in failing THEN events ELSE events \o news
    /\ lost' = lost \cup failing

-----------------------------------------------------------------------------
(***************************************************************************)
(* Before the graph: the manager registers the run and starts the          *)
(* container; spec_for_order reads which graph the order asks for.         *)
(***************************************************************************)

Register ==
  /\ phase = "new"
  /\ hash' = "queued"
  /\ phase' = "registered"
  /\ UNCHANGED <<order, graphVars, result, pushed, shownVars, reports, faults>>

StartContainer ==
  /\ phase = "registered"
  /\ phase' = "peek"
  /\ UNCHANGED <<order, graphVars, result, pushed, shownVars, factoryVars, faults>>

\* An order that cannot be read gets the default graph.
Peek ==
  /\ phase = "peek"
  /\ spec' = IF order = "massive" THEN "massive" ELSE "work"
  /\ shown' = [n \in NodeNames(spec') |-> "queued"]
  /\ phase' = "announce"
  /\ UNCHANGED <<order, node, visits, failed, board, worked, result, pushed,
                 run, events, lost, factoryVars, faults>>

Announce ==
  /\ phase = "announce"
  /\ Report(shown, NoNode, "running", <<>>, 0)
  /\ phase' = "enter"
  /\ UNCHANGED <<order, graphVars, result, pushed, factoryVars>>

-----------------------------------------------------------------------------
(***************************************************************************)
(* Between the nodes.                                                      *)
(***************************************************************************)

\* _route_on_error, _route_ralph, and the plain edge into the terminal node.
Route(n, isError, cards) ==
  IF isError THEN Terminal
  ELSE IF n = "ralph_node" /\ Todo(cards) # {} THEN n
  ELSE Target(spec, n)

OutOfVisits == spec = "massive" /\ visits = Limit

Enter ==
  /\ phase = "enter" /\ ~ OutOfVisits
  /\ visits' = visits + 1
  /\ phase' = "turn"
  /\ Report([shown EXCEPT ![node] = "running"], node, "running", <<Event(node, "running")>>, 0)
  /\ UNCHANGED <<order, spec, node, failed, board, worked, result, pushed, factoryVars>>

\* GraphRecursionError: nothing runs any more, teardown included.
RecursionError ==
  /\ phase = "enter" /\ OutOfVisits
  /\ phase' = "raised"
  /\ lost' = lost \cup {"process"}
  /\ UNCHANGED <<order, graphVars, result, pushed, shown, run, events, factoryVars, faults>>

\* Changed form for the checks: the timeline is told of every failed node as of a finished one.
LeaveCheerfully(status, isError, cards, cost) ==
  /\ board' = cards
  /\ failed' = IF isError THEN node ELSE failed
  /\ node' = Route(node, isError, cards)
  /\ phase' = "enter"
  /\ Report([shown EXCEPT ![node] = status], NoNode, "running", <<Event(node, "finished")>>, cost)
  /\ UNCHANGED <<order, spec, visits, result, pushed>>

\* A node that is not the last closes itself, with its status for the monitor
\* and its error for the router.
Leave(status, isError, cards, cost) ==
  /\ board' = cards
  /\ failed' = IF isError THEN node ELSE failed
  /\ node' = Route(node, isError, cards)
  /\ phase' = "enter"
  /\ Report([shown EXCEPT ![node] = status], NoNode, "running", <<Event(node, status)>>, cost)
  /\ UNCHANGED <<order, spec, visits, result, pushed>>

Done(cards) == Leave("finished", FALSE, cards, 0)
Fails(cost) == Leave("error", TRUE, board, cost)

-----------------------------------------------------------------------------
(***************************************************************************)
(* startup_node.                                                           *)
(***************************************************************************)

StartupReads ==
  /\ phase = "turn" /\ node = "startup_node"
  /\ hash # "none" /\ order # "lost"
  /\ phase' = "mark"
  /\ UNCHANGED <<order, graphVars, result, pushed, shownVars, factoryVars, faults>>

\* The hash or the order cannot be read, or no clone URL is known.
StartupFails ==
  /\ phase = "turn" /\ node = "startup_node"
  /\ Fails(0) \/ ("redis" \in Faults /\ Fails(1))
  /\ UNCHANGED <<worked, factoryVars>>

StartupMarks ==
  /\ phase = "mark"
  /\ hash' = "running"
  /\ phase' = "clone"
  /\ UNCHANGED <<order, graphVars, result, pushed, shownVars, reports, faults>>

StartupMarkFails ==
  /\ phase = "mark"
  /\ "redis" \in Faults
  /\ Fails(1)
  /\ UNCHANGED <<worked, factoryVars>>

StartupClones ==
  /\ phase = "clone"
  /\ Done(board) \/ Fails(0)
  /\ UNCHANGED <<worked, factoryVars>>

-----------------------------------------------------------------------------
(***************************************************************************)
(* The agent nodes.  A survey or a test that fails is a note; any other    *)
(* agent turn that fails ends the work.                                    *)
(***************************************************************************)

Optional == {"pathfinder_node", "test_node"}
Required == {"workhorse_node", "git_node", "orchestrator_node"}

\* Changed form for the checks: the clean tree that git_node finds is an early return
\* that does not close the node.
AgentTurnUnclosed ==
  /\ phase = "turn" /\ node \in Optional \cup Required
  /\ node' = Target(spec, node) /\ phase' = "enter"
  /\ UNCHANGED <<order, spec, visits, failed, board, result, pushed, shownVars, faults>>
  /\ UNCHANGED <<worked, factoryVars>>

AgentTurn ==
  /\ phase = "turn" /\ node \in Optional \cup Required
  /\ Done(board)
  /\ UNCHANGED <<worked, factoryVars>>

AgentTurnFails ==
  /\ phase = "turn" /\ node \in Required
  /\ Fails(0)
  /\ UNCHANGED <<worked, factoryVars>>

DispatcherTurn(items) ==
  /\ phase = "turn" /\ node = "dispatcher_node"
  /\ Done(ParseKanban(items))
  /\ UNCHANGED <<worked, factoryVars>>

\* The turn fails, or its reply holds no board.
DispatcherFails ==
  /\ phase = "turn" /\ node = "dispatcher_node"
  /\ Fails(0)
  /\ UNCHANGED <<worked, factoryVars>>

\* The router sends a run here only while a card is left.
RalphTurn ==
  /\ phase = "turn" /\ node = "ralph_node"
  /\ worked' = Append(worked, NextTodo(board))
  /\ \/ Done(MarkDone(board, NextTodo(board)))
     \/ Fails(0)
  /\ UNCHANGED factoryVars

-----------------------------------------------------------------------------
(***************************************************************************)
(* teardown_node: push, status, FINISHED, registry, and the monitor last.  *)
(***************************************************************************)

TeardownStep(status, isPushed) ==
  /\ phase = "turn" /\ node = Terminal
  /\ result' = status
  /\ pushed' = isPushed
  /\ phase' = "settle"
  /\ UNCHANGED <<order, graphVars, shownVars, factoryVars, faults>>

\* With auto_pr the outcome is that of the push.
TeardownPush ==
  /\ failed = NoNode
  /\ \E status \in Outcome : TeardownStep(status, status = "finished")

TeardownNoPush ==
  TeardownStep(IF failed = NoNode THEN "finished" ELSE "error", FALSE)

TeardownSettles ==
  /\ phase = "settle"
  /\ phase' = "publish"
  /\ \/ hash' = result /\ faults' = faults
     \/ hash' = hash /\ Fault("redis")
  /\ UNCHANGED <<order, graphVars, result, pushed, shownVars, reports>>

TeardownPublishes ==
  /\ phase = "publish"
  /\ reports' = Append(reports, result)
  /\ phase' = "delete"
  /\ UNCHANGED <<order, graphVars, result, pushed, shownVars, hash, faults>>

TeardownDeletes ==
  /\ phase = "delete"
  /\ hash' = "none"
  /\ phase' = "close"
  /\ UNCHANGED <<order, graphVars, result, pushed, shownVars, reports, faults>>

\* Changed form for the checks: the registry is cleaned up all the same.
PublishFailsAndDeletes ==
  /\ phase \in {"publish", "delete"}
  /\ Fault("redis")
  /\ hash' = "none"
  /\ phase' = "close"
  /\ UNCHANGED <<order, graphVars, result, pushed, shownVars, reports>>

\* publish_finished is left at its first error.
PublishFails ==
  /\ phase \in {"publish", "delete"}
  /\ Fault("redis")
  /\ phase' = "close"
  /\ UNCHANGED <<order, graphVars, result, pushed, shownVars, factoryVars>>

TeardownCloses ==
  /\ phase = "close"
  /\ Report([shown EXCEPT ![node] = "finished"], NoNode, "running",
            <<Event(node, "finished")>>, 0)
  /\ phase' = "finish"
  /\ UNCHANGED <<order, graphVars, result, pushed, factoryVars>>

FinishRun ==
  /\ phase = "finish"
  /\ Report(shown, NoNode, result, <<>>, 0)
  /\ phase' = "clear"
  /\ UNCHANGED <<order, graphVars, result, pushed, factoryVars>>

ClearRun ==
  /\ phase = "clear"
  /\ phase' = "ended"
  /\ \/ run' = NoRun /\ UNCHANGED <<lost, faults>>
     \/ run' = run /\ lost' = lost \cup {"clear"} /\ Fault("redis")
  /\ UNCHANGED <<order, graphVars, result, pushed, shown, events, factoryVars>>

-----------------------------------------------------------------------------
(***************************************************************************)
(* What ends a run early, and the manager that finds it.                   *)
(***************************************************************************)

\* spec_for_order and startup_node do not catch a Redis error of load_workorder.
Raises ==
  /\ \/ phase = "peek" /\ Fault("redis")
     \/ phase = "turn" /\ node = "startup_node" /\ Fault("redis")
     \/ phase = "turn" /\ node # "startup_node" /\ node # Terminal /\ Fault("raise")
     \/ phase = "clone" /\ Fault("raise")
  /\ phase' = "raised"
  /\ lost' = lost \cup {"process"}
  /\ UNCHANGED <<order, graphVars, result, pushed, shown, run, events, factoryVars>>

Kill ==
  /\ InProgress
  /\ Fault("kill")
  /\ phase' = "killed"
  /\ lost' = lost \cup {"process"}
  /\ UNCHANGED <<order, graphVars, result, pushed, shown, run, events, factoryVars>>

Trim ==
  /\ order # "lost"
  /\ Fault("trim")
  /\ order' = "lost"
  /\ UNCHANGED <<graphVars, phase, result, pushed, shownVars, factoryVars>>

\* Changed form for the checks: only a run that was marked as running is looked for.
ReapReportsRunning ==
  /\ phase \in Gone \ {"told"} /\ hash = "running" /\ order # "lost"
  /\ reports' = Append(reports, "error")
  /\ hash' = "error"
  /\ phase' = "told"
  /\ UNCHANGED <<order, graphVars, result, pushed, shownVars, faults>>

\* The manager reports a run whose container is gone and whose hash is not.
ReapReports ==
  /\ phase \in Gone \ {"told"} /\ hash # "none" /\ order # "lost"
  /\ reports' = Append(reports, "error")
  /\ hash' = "error"
  /\ phase' = "told"
  /\ UNCHANGED <<order, graphVars, result, pushed, shownVars, faults>>

ReapDeletes ==
  /\ hash # "none"
  /\ \/ phase = "told"
     \/ phase \in Gone /\ order = "lost"
  /\ hash' = "none"
  /\ UNCHANGED <<order, graphVars, phase, result, pushed, shownVars, reports, faults>>

-----------------------------------------------------------------------------
NodeStep ==
  \/ StartupReads \/ StartupFails \/ StartupMarks \/ StartupMarkFails \/ StartupClones
  \/ AgentTurn \/ AgentTurnFails \/ RalphTurn
  \/ \E items \in Replies : DispatcherTurn(items)
  \/ DispatcherFails

TeardownSteps ==
  \/ TeardownPush \/ TeardownNoPush \/ TeardownSettles \/ TeardownPublishes
  \/ TeardownDeletes \/ PublishFails \/ TeardownCloses \/ FinishRun \/ ClearRun

Step ==
  \/ Register \/ StartContainer \/ Peek \/ Announce \/ Enter \/ RecursionError
  \/ NodeStep \/ TeardownSteps \/ ReapReports \/ ReapDeletes

Next == Step \/ Raises \/ Kill \/ Trim

Spec == Init /\ [][Next]_vars

\* The process runs, an agent turn ends (its SDK call returns or raises), and
\* the manager keeps polling.
FairSpec == Spec /\ WF_vars(Step)

(***************************************************************************)
(* GraphScope, the monitor (graph_scope_frontend/app.py): it reads GRAPHRUN *)
(* and GRAPHEVENT and writes nothing.                                      *)
(***************************************************************************)

\* The row of the run; without one the default graph is drawn, all queued.
Row == IF run = NoRun
       THEN Written([n \in NodeNames("work") |-> "queued"], NoNode, "none")
       ELSE run

\* A box is filled by the status of its node, or as running by its name.
Painted(n) == IF n = Row.current THEN "running" ELSE Row.nodes[n]

\* The timeline's last word on a node.
EventsOf(n) == {i \in DOMAIN events : events[i][1] = n}
LastEvent(n) ==
  IF EventsOf(n) = {} THEN "queued"
  ELSE events[CHOOSE i \in EventsOf(n) : \A j \in EventsOf(n) : j <= i][2]

(***************************************************************************)
(* Properties.                                                             *)
(***************************************************************************)

\* The monitor never lights two boxes, and the one that it lights is the node it
\* names and has the status of a running one: each node of the graph closes itself
\* on every path through it before the next one opens, also when writes of the
\* reporter get lost.
OneNodeLit ==
  LET lit == {n \in DOMAIN Row.nodes : Painted(n) = "running"}
  IN  /\ lit = IF Row.current = NoNode THEN {} ELSE {Row.current}
      /\ \A n \in lit : Row.nodes[n] = "running"

\* The timeline and the boxes tell the same: as long as no write was lost, the
\* last event of a node is its status in GRAPHRUN.
TimelineAgrees ==
  lost = {} /\ run # NoRun => \A n \in NodeNames(spec) : Row.nodes[n] = LastEvent(n)

\* Massive work that is done, by its report or by its pull request.
Delivered == spec = "massive" /\ (pushed \/ "finished" \in {reports[i] : i \in DOMAIN reports})

\* Work that is reported as finished went through the board by rank: agents were
\* given cards of different ids in their order of rank, and a card that no agent
\* was given shares its id with a more urgent one that was.  mark_done ticks those
\* off with it; EveryCardIsWorked, which the docs claim, fails there.
BoardIsWorkedOff ==
  Delivered =>
    /\ \A k, l \in DOMAIN worked : k < l =>
         /\ board[worked[k]].id # board[worked[l]].id
         /\ Before(board, worked[k], worked[l])
    /\ \A i \in DOMAIN board : \E k \in DOMAIN worked :
         \/ worked[k] = i
         \/ board[worked[k]].id = board[i].id /\ Before(board, worked[k], i)

\* What work-graph.md says of ralph_node, that it loops until the board is empty:
\* every card was given to an agent.  The code does not keep it where the
\* dispatcher repeats an id.
EveryCardIsWorked == Delivered => {worked[k] : k \in DOMAIN worked} = DOMAIN board

\* Whatever happens to a run, it ends, and then it is off the registry and on
\* the stream, unless its order is gone: the loop of ralph_node comes to an end,
\* an error of any node leads to teardown, and the manager finds what does not.
EveryRunTold ==
  <>[](phase \in Gone /\ hash = "none" /\ (reports # <<>> \/ order = "lost"))

\* What work-graph.md says of the monitor's hashes, that they are always deleted:
\* once a run has ended, its GRAPHRUN row goes for good.  The code does not keep it
\* where the run ends without its teardown, as at the recursion limit.
RowIsDeleted == <>[](phase \in Gone /\ run = NoRun)

\* The run keeps the contract of the registry.
Sandbox == INSTANCE SandboxRun WITH
  open <- hash # "none", up <- InProgress, reports <- reports
KeepsContract == Sandbox!Contract
=============================================================================
