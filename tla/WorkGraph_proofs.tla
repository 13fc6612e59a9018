-------------------------- MODULE WorkGraph_proofs --------------------------
(***************************************************************************)
(* For any board, any recursion limit and any number of failures: types,   *)
(* the one node that the monitor lights, its timeline, the board that is   *)
(* worked off, no run forgotten, and the refinement of SandboxRun.         *)
(***************************************************************************)
EXTENDS WorkGraph, WellFoundedInduction, FiniteSetTheorems, TLAPS

(***************************************************************************)
(* The topologies.                                                         *)
(***************************************************************************)

Massive == {"startup_node", "orchestrator_node", "dispatcher_node", "ralph_node", "test_node",
            "teardown_node"}
Work == {"startup_node", "pathfinder_node", "workhorse_node", "git_node", "teardown_node"}

\* The nodes of the two graphs.
LEMMA NamesOfGraphs == NodeNames("massive") = Massive /\ NodeNames("work") = Work
<1>1. DOMAIN MassiveNodes = 1..6 /\ DOMAIN WorkNodes = 1..5
  BY DEF MassiveNodes, WorkNodes
<1>2. NodeNames("massive") = {MassiveNodes[i] : i \in 1..6}
  BY <1>1 DEF NodeNames, Nodes
<1>3. NodeNames("work") = {WorkNodes[i] : i \in 1..5}
  BY <1>1 DEF NodeNames, Nodes
<1>4. {MassiveNodes[i] : i \in 1..6} = Massive
  BY DEF MassiveNodes, Massive
<1>5. {WorkNodes[i] : i \in 1..5} = Work
  BY DEF WorkNodes, Work
<1> QED BY <1>2, <1>3, <1>4, <1>5

\* The edges of the massive graph.
LEMMA TargetsOfMassive ==
  /\ Target("massive", "startup_node") = "orchestrator_node"
  /\ Target("massive", "orchestrator_node") = "dispatcher_node"
  /\ Target("massive", "dispatcher_node") = "ralph_node"
  /\ Target("massive", "ralph_node") = "test_node"
  /\ Target("massive", "test_node") = "teardown_node"
<1>1. DOMAIN MassiveNodes = 1..6
  BY DEF MassiveNodes
<1>2. ASSUME NEW k \in 1..6
      PROVE  PlaceOf("massive", MassiveNodes[k]) = k
  <2>1. \A i \in 1..6 : MassiveNodes[i] = MassiveNodes[k] => i = k
    BY DEF MassiveNodes
  <2> QED BY <1>1, <2>1 DEF PlaceOf, Nodes
<1>3. \A k \in 1..5 : Target("massive", MassiveNodes[k]) = MassiveNodes[k + 1]
  BY <1>2 DEF Target, Nodes
<1>4. /\ MassiveNodes[1] = "startup_node" /\ MassiveNodes[2] = "orchestrator_node"
      /\ MassiveNodes[3] = "dispatcher_node" /\ MassiveNodes[4] = "ralph_node"
      /\ MassiveNodes[5] = "test_node" /\ MassiveNodes[6] = "teardown_node"
  BY DEF MassiveNodes
<1> QED BY <1>3, <1>4

\* Every edge of the work graph leads to one of its nodes.
LEMMA TargetsOfWork == \A n \in Work \ {Terminal} : Target("work", n) \in Work
<1>1. DOMAIN WorkNodes = 1..5
  BY DEF WorkNodes
<1>2. ASSUME NEW k \in 1..5
      PROVE  PlaceOf("work", WorkNodes[k]) = k
  <2>1. \A i \in 1..5 : WorkNodes[i] = WorkNodes[k] => i = k
    BY DEF WorkNodes
  <2> QED BY <1>1, <2>1 DEF PlaceOf, Nodes
<1>3. \A k \in 1..4 : Target("work", WorkNodes[k]) = WorkNodes[k + 1]
  BY <1>2 DEF Target, Nodes
<1>4. /\ WorkNodes[1] = "startup_node" /\ WorkNodes[2] = "pathfinder_node"
      /\ WorkNodes[3] = "workhorse_node" /\ WorkNodes[4] = "git_node"
      /\ WorkNodes[5] = "teardown_node"
  BY DEF WorkNodes
<1> QED BY <1>3, <1>4 DEF Work, Terminal

\* No edge and no error leads out of the graph.
LEMMA RouteStays ==
  ASSUME spec \in {"work", "massive"}, NEW n \in NodeNames(spec) \ {Terminal},
         NEW isError \in BOOLEAN, NEW cards
  PROVE  Route(n, isError, cards) \in NodeNames(spec)
<1>1. CASE spec = "massive"
  BY <1>1, NamesOfGraphs, TargetsOfMassive DEF Route, Massive, Terminal
<1>2. CASE spec = "work"
  BY <1>2, NamesOfGraphs, TargetsOfWork DEF Route, Work, Terminal
<1> QED BY <1>1, <1>2

(***************************************************************************)
(* The board.                                                              *)
(***************************************************************************)

\* A non-empty set of natural numbers has a least one.
LEMMA Least == ASSUME NEW T, T \subseteq Nat, T # {} PROVE \E x \in T : \A y \in T : x <= y
<1> DEFINE Less == {ss \in Nat \X Nat : ss[1] < ss[2]}
<1>1. IsWellFoundedOn(Less, Nat)
  BY NatLessThanWellFounded DEF OpToRel
<1>2. \A x, y \in Nat : <<y, x>> \in Less <=> y < x
  OBVIOUS
<1> HIDE DEF Less
<1>3. PICK x \in T : \A y \in T : ~ (<<y, x>> \in Less)
  BY <1>1, WFMin
<1>4. ASSUME NEW y \in T PROVE x <= y
  <2>1. x \in Nat /\ y \in Nat
    OBVIOUS
  <2>2. ~ (y < x)
    BY <1>2, <1>3, <2>1
  <2> QED BY <2>1, <2>2
<1> QED BY <1>4

\* While a card is left, one of those is the next.
LEMMA NextIsTodo ==
  ASSUME NEW cards \in Seq(Card), Todo(cards) # {}
  PROVE  /\ NextTodo(cards) \in Todo(cards)
         /\ \A j \in Todo(cards) \ {NextTodo(cards)} : Before(cards, NextTodo(cards), j)
<1> DEFINE P == {cards[i].priority : i \in Todo(cards)}
<1>1. ASSUME NEW i \in Todo(cards) PROVE i \in Nat /\ cards[i].priority \in Nat
  <2>1. i \in 1..Len(cards)
    BY DEF Todo
  <2>2. cards[i] \in Card
    BY <2>1
  <2> QED BY <2>1, <2>2 DEF Card
<1>2. PICK p \in P : \A q \in P : p <= q
  BY <1>1, Least
<1> DEFINE I == {i \in Todo(cards) : cards[i].priority = p}
<1>3. PICK i \in I : \A j \in I : i <= j
  <2>1. I \subseteq Nat /\ I # {}
    BY <1>1
  <2> HIDE DEF I
  <2> QED BY <2>1, Least
<1>4. i \in Todo(cards) /\ cards[i].priority = p
  BY <1>3
<1>5. ASSUME NEW j \in Todo(cards) \ {i}
      PROVE  Before(cards, i, j)
  <2>1. p <= cards[j].priority
    BY <1>2
  <2>2. cards[j].priority = p => i <= j
    BY <1>3
  <2>3. i \in Nat /\ j \in Nat /\ p \in Nat /\ cards[j].priority \in Nat
    BY <1>1, <1>4
  <2> HIDE DEF P, I
  <2> QED BY <1>4, <2>1, <2>2, <2>3 DEF Before
<1> QED BY <1>4, <1>5 DEF NextTodo

\* A reply of the dispatcher that holds a board leaves all of it to do.
LEMMA ParsedBoard ==
  ASSUME NEW items \in Replies
  PROVE  /\ ParseKanban(items) \in Seq(Card) /\ Len(ParseKanban(items)) <= MaxCards
         /\ Todo(ParseKanban(items)) = DOMAIN ParseKanban(items)
         /\ DOMAIN ParseKanban(items) # {}
<1>1. PICK n \in 1..MaxCards : items \in [1..n -> Item]
  BY DEF Replies
<1>2. n \in Nat \ {0} /\ n <= MaxCards
  BY WorkGraphAssumption
<1>3. DOMAIN ParseKanban(items) = 1..n
  BY <1>1 DEF ParseKanban
<1>4. ASSUME NEW i \in 1..n
      PROVE  ParseKanban(items)[i] \in Card /\ ~ ParseKanban(items)[i].done
  <2>1. items[i].id \in Nat /\ items[i].priority \in Nat
    BY <1>1, WorkGraphAssumption DEF Item
  <2>2. OrIndex(items[i].id, i) \in Nat \ {0} /\ OrIndex(items[i].priority, i) \in Nat \ {0}
    BY <1>2, <2>1 DEF OrIndex
  <2> QED BY <1>1, <2>2 DEF ParseKanban, Card
<1>5. ParseKanban(items) = [i \in 1..n |-> ParseKanban(items)[i]]
  BY <1>1 DEF ParseKanban
<1>6. ParseKanban(items) \in [1..n -> Card]
  BY <1>4, <1>5
<1> HIDE DEF ParseKanban
<1>7. ParseKanban(items) \in Seq(Card) /\ Len(ParseKanban(items)) = n
  BY <1>2, <1>6
<1>8. Todo(ParseKanban(items)) = 1..n
  BY <1>3, <1>4 DEF Todo
<1>9. 1 \in 1..n
  BY <1>2
<1> QED BY <1>2, <1>3, <1>7, <1>8, <1>9

\* Marking changes nothing but what is done.
LEMMA MarkedBoard ==
  ASSUME NEW cards \in Seq(Card), NEW i \in DOMAIN cards
  PROVE  /\ MarkDone(cards, i) \in Seq(Card) /\ Len(MarkDone(cards, i)) = Len(cards)
         /\ DOMAIN MarkDone(cards, i) = DOMAIN cards
         /\ \A j \in DOMAIN cards :
              /\ MarkDone(cards, i)[j].id = cards[j].id
              /\ MarkDone(cards, i)[j].priority = cards[j].priority
              /\ MarkDone(cards, i)[j].done = (cards[j].id = cards[i].id \/ cards[j].done)
<1>1. DOMAIN MarkDone(cards, i) = 1..Len(cards) /\ DOMAIN cards = 1..Len(cards)
  BY DEF MarkDone
<1>2. ASSUME NEW j \in 1..Len(cards)
      PROVE  /\ MarkDone(cards, i)[j] \in Card
             /\ MarkDone(cards, i)[j].id = cards[j].id
             /\ MarkDone(cards, i)[j].priority = cards[j].priority
             /\ MarkDone(cards, i)[j].done = (cards[j].id = cards[i].id \/ cards[j].done)
  <2>1. cards[j] \in Card
    OBVIOUS
  <2>2. CASE cards[j].id = cards[i].id
    <3>1. MarkDone(cards, i)[j] = [cards[j] EXCEPT !.done = TRUE]
      BY <1>1, <2>2, Zenon DEF MarkDone
    <3> QED BY <2>1, <2>2, <3>1 DEF Card
  <2>3. CASE cards[j].id # cards[i].id
    <3>1. MarkDone(cards, i)[j] = cards[j]
      BY <2>3 DEF MarkDone
    <3> QED BY <2>1, <2>3, <3>1 DEF Card
  <2> QED BY <2>2, <2>3
<1>3. MarkDone(cards, i) = [j \in 1..Len(cards) |-> MarkDone(cards, i)[j]]
  BY DEF MarkDone
<1>4. MarkDone(cards, i) \in [1..Len(cards) -> Card]
  BY <1>2, <1>3
<1> HIDE DEF MarkDone
<1>5. MarkDone(cards, i) \in Seq(Card) /\ Len(MarkDone(cards, i)) = Len(cards)
  BY <1>1, <1>4
<1> QED BY <1>1, <1>2, <1>5

(***************************************************************************)
(* Type correctness.                                                       *)
(***************************************************************************)

Early == {"new", "registered", "peek", "announce"}
Late == {"settle", "publish", "delete", "close", "finish", "clear"}

\* Where the process can be inside of which node.
Placed ==
  /\ phase \in Early => node = Entry /\ visits = 0 /\ run = NoRun
  /\ phase \in {"mark", "clone"} => node = Entry
  /\ phase \in Late => node = Terminal /\ result \in Outcome
  /\ phase \in {"enter", "turn"} /\ node = "ralph_node" => Todo(board) # {}

TypeInv == TypeOK /\ Placed

\* The nodes that both graphs have.
LEMMA SharedNodes ==
  ASSUME NEW s \in {"work", "massive"}
  PROVE  Entry \in NodeNames(s) \ {Terminal} /\ Terminal \in NodeNames(s) /\ NodeNames(s) \subseteq AllNodes
BY NamesOfGraphs DEF Massive, Work, Entry, Terminal, AllNodes

\* What the reporter has written is well typed.
WellKept ==
  /\ run' \in Runs(spec)
  /\ events' \in Seq(NodeEvent)
  /\ faults' \in 0..MaxFaults
  /\ lost' \subseteq {"hash", "event", "clear", "process"}

\* A new status of a node, for the boxes and for the timeline.
LEMMA MarkedNode ==
  ASSUME TypeOK, NEW status \in NodeStatus
  PROVE  /\ [shown EXCEPT ![node] = status] \in Boxes(spec)
         /\ <<Event(node, status)>> \in Seq(NodeEvent)
<1>1. node \in AllNodes
  BY SharedNodes DEF TypeOK
<1> QED BY <1>1 DEF TypeOK, Boxes, Event, NodeEvent

\* Whatever the reporter loses, what it keeps is well typed.
LEMMA ReportType ==
  ASSUME TypeOK, NEW nodes \in Boxes(spec),
         NEW current \in AllNodes \cup {NoNode}, NEW status \in {"running"} \cup Outcome,
         NEW news \in Seq(NodeEvent), NEW cost \in Nat,
         Report(nodes, current, status, news, cost)
  PROVE  /\ shown' = nodes /\ WellKept
         /\ run' = run \/ run' = Written(nodes, current, status)
<1>1. PICK failing \in SUBSET (IF news = <<>> THEN {"hash"} ELSE {"hash", "event"}) :
        /\ faults + cost + Cardinality(failing) <= MaxFaults
        /\ faults' = faults + cost + Cardinality(failing)
        /\ shown' = nodes
        /\ run' = IF "hash" \in failing THEN run ELSE Written(nodes, current, status)
        /\ events' = IF "event" \in failing THEN events ELSE events \o news
        /\ lost' = lost \cup failing
  BY DEF Report
<1>2. failing \subseteq {"hash", "event"}
  OBVIOUS
<1>3. Cardinality(failing) \in Nat
  <2>1. IsFiniteSet({"hash", "event"})
    <3>1. IsFiniteSet({} \cup {"hash"})
      BY FS_EmptySet, FS_AddElement
    <3>2. IsFiniteSet(({} \cup {"hash"}) \cup {"event"})
      BY <3>1, FS_AddElement
    <3>3. ({} \cup {"hash"}) \cup {"event"} = {"hash", "event"}
      OBVIOUS
    <3> QED BY <3>2, <3>3
  <2> QED BY <1>2, <2>1, FS_Subset, FS_CardinalityType
<1>4. faults' \in 0..MaxFaults
  BY <1>1, <1>3, WorkGraphAssumption DEF TypeOK
<1>5. events' \in Seq(NodeEvent)
  BY <1>1 DEF TypeOK
<1>6. Written(nodes, current, status) \in Runs(spec)
  BY DEF Written, Runs
<1>7. run' \in Runs(spec)
  BY <1>1, <1>6 DEF TypeOK
<1>8. lost' \subseteq {"hash", "event", "clear", "process"}
  BY <1>1, <1>2 DEF TypeOK
<1> QED BY <1>1, <1>4, <1>5, <1>7, <1>8 DEF WellKept

\* What a node hands on when it closes is well typed, and a run comes to
\* ralph_node only with a card to do.
LEMMA LeaveType ==
  ASSUME TypeInv, node # Terminal, phase \in {"turn", "mark", "clone"},
         NEW status \in NodeStatus, NEW isError \in BOOLEAN,
         NEW cards \in Seq(Card), Len(cards) <= MaxCards, NEW cost \in Nat,
         node = "dispatcher_node" /\ ~ isError => Todo(cards) # {},
         Leave(status, isError, cards, cost),
         worked' \in Seq(1..MaxCards), reports' \in Seq(Outcome),
         hash' \in {"none", "queued", "running"} \cup Outcome
  PROVE  TypeInv'
<1> USE DEF TypeInv
<1>1. node \in NodeNames(spec) \ {Terminal} /\ NodeNames(spec) \subseteq AllNodes
  BY SharedNodes DEF TypeOK
<1>2. /\ board' = cards /\ failed' = (IF isError THEN node ELSE failed)
      /\ node' = Route(node, isError, cards) /\ phase' = "enter"
      /\ UNCHANGED <<order, spec, visits, result, pushed>>
      /\ Report([shown EXCEPT ![node] = status], NoNode, "running", <<Event(node, status)>>, cost)
  BY DEF Leave
<1>3. node' \in NodeNames(spec)
  BY <1>1, <1>2, RouteStays DEF TypeOK
<1>4. shown' \in Boxes(spec) /\ WellKept
  BY <1>2, MarkedNode, ReportType
<1>5. TypeOK'
  BY <1>1, <1>2, <1>3, <1>4 DEF TypeOK, Phase, WellKept
<1>6. ASSUME node' = "ralph_node"
      PROVE  Todo(board') # {}
  <2>1. CASE spec = "massive"
    BY <1>1, <1>2, <1>6, <2>1, NamesOfGraphs, TargetsOfMassive DEF Route, Massive, Terminal
  <2>2. CASE spec = "work"
    BY <1>1, <1>2, <1>6, <2>2, NamesOfGraphs, TargetsOfWork DEF Route, Work, Terminal
  <2> QED BY <2>1, <2>2 DEF TypeOK
<1>7. Todo(cards)' = Todo(cards)
  OBVIOUS
<1>8. Placed'
  BY <1>2, <1>6 DEF Placed, Early, Late
<1> QED BY <1>5, <1>8

\* The initial state is well typed.
LEMMA InitType == Init => TypeInv
<1> SUFFICES ASSUME Init PROVE TypeInv
  OBVIOUS
<1>1. Entry \in NodeNames("work")
  BY SharedNodes
<1>2. shown \in Boxes("work") /\ run \in Runs("work") /\ events \in Seq(NodeEvent)
  BY DEF Init, Boxes, Runs, NodeStatus
<1>3. board \in Seq(Card) /\ Len(board) <= MaxCards /\ worked \in Seq(1..MaxCards)
  BY WorkGraphAssumption DEF Init
<1>4. /\ faults \in 0..MaxFaults /\ visits \in Nat /\ (spec = "massive" => visits <= Limit)
      /\ reports \in Seq(Outcome)
  BY WorkGraphAssumption DEF Init
<1>5. TypeOK
  BY <1>1, <1>2, <1>3, <1>4 DEF Init, TypeOK, Phase, NotStarted
<1> QED BY <1>5 DEF TypeInv, Placed, Early, Late, Init

\* The steps that touch neither the board nor the boxes.
Aside ==
  \/ Register \/ StartContainer \/ RecursionError \/ StartupReads \/ StartupMarks
  \/ TeardownPush \/ TeardownNoPush \/ TeardownSettles \/ TeardownPublishes
  \/ TeardownDeletes \/ PublishFails \/ ClearRun
  \/ ReapReports \/ ReapDeletes \/ Raises \/ Kill \/ Trim

\* They keep the types.
LEMMA AsideType == ASSUME TypeInv, Aside PROVE TypeInv'
<1>0. ASSUME ClearRun PROVE run' \in Runs(spec')
  <2>1. NoRun \in Runs(spec) /\ run \in Runs(spec)
    BY DEF Runs, TypeInv, TypeOK
  <2>2. (run' = NoRun \/ run' = run) /\ spec' = spec
    BY <1>0 DEF ClearRun, graphVars
  <2> QED BY <2>1, <2>2
<1> USE WorkGraphAssumption DEF TypeInv, TypeOK, Placed, Early, Late, Phase, NotStarted, Gone,
    graphVars, shownVars, factoryVars
<1>1. CASE Register
  BY <1>1 DEF Register
<1>2. CASE StartContainer
  BY <1>2 DEF StartContainer
<1>3. CASE StartupReads
  BY <1>3 DEF StartupReads, Entry
<1>4. CASE StartupMarks
  BY <1>4 DEF StartupMarks
<1>5. CASE RecursionError
  BY <1>5 DEF RecursionError
<1>6. CASE TeardownPush
  BY <1>6 DEF TeardownPush, TeardownStep, Outcome
<1>7. CASE TeardownNoPush
  BY <1>7 DEF TeardownNoPush, TeardownStep, Outcome
<1>8. CASE TeardownSettles
  BY <1>8 DEF TeardownSettles, Fault
<1>9. CASE TeardownPublishes
  BY <1>9 DEF TeardownPublishes
<1>10. CASE TeardownDeletes
  BY <1>10 DEF TeardownDeletes
<1>11. CASE PublishFails
  BY <1>11 DEF PublishFails, Fault
<1>12. CASE ClearRun
  <2>1. run' \in Runs(spec')
    BY <1>12, <1>0
  <2>2. faults' \in 0..MaxFaults
    BY <1>12 DEF ClearRun, Fault
  <2>3. lost' \subseteq {"hash", "event", "clear", "process"}
    BY <1>12 DEF ClearRun
  <2> QED BY <1>12, <2>1, <2>2, <2>3 DEF ClearRun
<1>13. CASE ReapReports
  BY <1>13 DEF ReapReports, Outcome
<1>14. CASE ReapDeletes
  BY <1>14 DEF ReapDeletes
<1>15. CASE Raises
  BY <1>15 DEF Raises, Fault
<1>16. CASE Kill
  BY <1>16 DEF Kill, Fault, InProgress
<1>17. CASE Trim
  BY <1>17 DEF Trim, Fault
<1> QED BY <1>1, <1>2, <1>3, <1>4, <1>5, <1>6, <1>7, <1>8, <1>9, <1>10, <1>11, <1>12, <1>13,
  <1>14, <1>15, <1>16, <1>17 DEF Aside

\* So does the choice of the graph.
LEMMA PeekType == ASSUME TypeInv, Peek PROVE TypeInv'
<1>1. spec' \in {"work", "massive"} /\ phase = "peek" /\ phase' = "announce"
  BY DEF Peek
<1>2. node = Entry /\ visits = 0 /\ run = NoRun
  BY <1>1 DEF TypeInv, Placed, Early
<1>3. node' \in NodeNames(spec') /\ shown' \in Boxes(spec') /\ run' \in Runs(spec')
  BY <1>1, <1>2, SharedNodes DEF Peek, NodeStatus, Boxes, Runs
<1>4. TypeOK'
  BY <1>1, <1>2, <1>3, WorkGraphAssumption DEF Peek, TypeInv, TypeOK, Phase, NotStarted, factoryVars
<1>5. Placed'
  BY <1>1, <1>2 DEF Peek, Placed, Early, Late
<1> QED BY <1>4, <1>5 DEF TypeInv

\* So do the reports of the process between its nodes.
LEMMA WriteType == ASSUME TypeInv, Announce \/ Enter \/ TeardownCloses \/ FinishRun PROVE TypeInv'
<1> USE DEF TypeInv, Phase, NotStarted, Placed, Early, Late
<1>1. TypeOK /\ node \in NodeNames(spec) /\ node \in AllNodes /\ shown \in Boxes(spec)
  BY SharedNodes DEF TypeOK
<1>2. <<>> \in Seq(NodeEvent) /\ 0 \in Nat /\ {"running", "finished"} \subseteq NodeStatus
  BY DEF NodeStatus, Outcome
<1>3. CASE Announce
  <2>1. Report(shown, NoNode, "running", <<>>, 0)
    BY <1>3 DEF Announce
  <2>2. shown' = shown /\ WellKept
    BY <1>1, <1>2, <2>1, ReportType
  <2> QED BY <1>3, <2>2 DEF Announce, TypeOK, WellKept, graphVars, factoryVars, Entry
<1>4. CASE Enter
  <2>1. Report([shown EXCEPT ![node] = "running"], node, "running", <<Event(node, "running")>>, 0)
    BY <1>4 DEF Enter
  <2>2. shown' \in Boxes(spec) /\ WellKept
    BY <1>1, <1>2, <2>1, MarkedNode, ReportType
  <2>3. spec = "massive" => visits + 1 <= Limit
    BY <1>4, WorkGraphAssumption DEF Enter, OutOfVisits, TypeOK
  <2> QED BY <1>4, <2>2, <2>3 DEF Enter, TypeOK, WellKept, factoryVars
<1>5. CASE TeardownCloses
  <2>1. Report([shown EXCEPT ![node] = "finished"], NoNode, "running",
               <<Event(node, "finished")>>, 0)
    BY <1>5 DEF TeardownCloses
  <2>2. shown' \in Boxes(spec) /\ WellKept
    BY <1>1, <1>2, <2>1, MarkedNode, ReportType
  <2> QED BY <1>5, <2>2 DEF TeardownCloses, TypeOK, WellKept, graphVars, factoryVars
<1>6. CASE FinishRun
  <2>1. Report(shown, NoNode, result, <<>>, 0) /\ result \in Outcome
    BY <1>6 DEF FinishRun
  <2>2. shown' = shown /\ WellKept
    BY <1>1, <1>2, <2>1, ReportType
  <2> QED BY <1>6, <2>2 DEF FinishRun, TypeOK, WellKept, graphVars, factoryVars
<1> QED BY <1>3, <1>4, <1>5, <1>6

\* So does every way to leave a node.
NodeLeaves ==
  \/ StartupFails \/ StartupMarkFails \/ StartupClones \/ AgentTurn \/ AgentTurnFails
  \/ RalphTurn \/ DispatcherFails \/ \E items \in Replies : DispatcherTurn(items)

\* A node that leaves keeps the types, whatever it put on the board or reported.
LEMMA NodeType == ASSUME TypeInv, NodeLeaves PROVE TypeInv'
<1>1. /\ board \in Seq(Card) /\ Len(board) <= MaxCards /\ worked \in Seq(1..MaxCards)
      /\ reports \in Seq(Outcome) /\ hash \in {"none", "queued", "running"} \cup Outcome
      /\ "finished" \in NodeStatus /\ "error" \in NodeStatus
  BY DEF TypeInv, TypeOK, NodeStatus, Outcome
<1>2. ASSUME NEW cost \in {0, 1}, node # Terminal, phase \in {"turn", "mark", "clone"},
             Fails(cost), worked' \in Seq(1..MaxCards), UNCHANGED factoryVars
      PROVE  TypeInv'
  <2>1. Leave("error", TRUE, board, cost)
    BY <1>2 DEF Fails
  <2>2. cost \in Nat /\ hash' = hash /\ reports' = reports
    BY <1>2 DEF factoryVars
  <2> QED BY <1>1, <1>2, <2>1, <2>2, LeaveType
<1>3. ASSUME NEW cards \in Seq(Card), Len(cards) <= MaxCards,
             node = "dispatcher_node" => Todo(cards) # {},
             node # Terminal, phase \in {"turn", "mark", "clone"},
             Done(cards), worked' \in Seq(1..MaxCards), UNCHANGED factoryVars
      PROVE  TypeInv'
  <2>1. Leave("finished", FALSE, cards, 0)
    BY <1>3 DEF Done
  <2>2. 0 \in Nat /\ hash' = hash /\ reports' = reports
    BY <1>3 DEF factoryVars
  <2> QED BY <1>1, <1>3, <2>1, <2>2, LeaveType
<1>4. CASE StartupFails \/ StartupMarkFails \/ DispatcherFails \/ AgentTurnFails
  <2>1. /\ node # Terminal /\ phase \in {"turn", "mark", "clone"} /\ worked' = worked
        /\ UNCHANGED factoryVars /\ \E cost \in {0, 1} : Fails(cost)
    BY <1>4 DEF StartupFails, StartupMarkFails, DispatcherFails, AgentTurnFails, Required, Terminal,
      TypeInv, Placed, Entry
  <2> QED BY <1>1, <1>2, <2>1
<1>5. CASE StartupClones
  <2>1. node = "startup_node" /\ node # Terminal /\ phase = "clone" /\ worked' = worked
        /\ UNCHANGED factoryVars /\ (Done(board) \/ Fails(0))
    BY <1>5 DEF StartupClones, Terminal, TypeInv, Placed, Entry
  <2> QED BY <1>1, <1>2, <1>3, <2>1
<1>6. CASE AgentTurn
  <2>1. node # "dispatcher_node" /\ node # Terminal /\ phase = "turn" /\ worked' = worked
        /\ UNCHANGED factoryVars /\ Done(board)
    BY <1>6 DEF AgentTurn, Terminal, Optional, Required
  <2> QED BY <1>1, <1>3, <2>1
<1>7. CASE RalphTurn
  <2>1. node = "ralph_node" /\ node # Terminal /\ phase = "turn" /\ UNCHANGED factoryVars
        /\ worked' = Append(worked, NextTodo(board))
        /\ (Done(MarkDone(board, NextTodo(board))) \/ Fails(0))
    BY <1>7 DEF RalphTurn, Terminal
  <2>2. NextTodo(board) \in DOMAIN board
    BY <1>1, <2>1, NextIsTodo DEF TypeInv, Placed, Todo
  <2>3. NextTodo(board) \in 1..MaxCards
    BY <1>1, <2>2, WorkGraphAssumption
  <2>4. worked' \in Seq(1..MaxCards)
    BY <1>1, <2>1, <2>3
  <2>5. /\ MarkDone(board, NextTodo(board)) \in Seq(Card)
        /\ Len(MarkDone(board, NextTodo(board))) <= MaxCards
    BY <1>1, <2>2, MarkedBoard
  <2> QED BY <1>2, <1>3, <2>1, <2>4, <2>5
<1>8. ASSUME NEW items \in Replies, DispatcherTurn(items)
      PROVE  TypeInv'
  <2>1. node # Terminal /\ phase = "turn" /\ worked' = worked
        /\ UNCHANGED factoryVars /\ Done(ParseKanban(items))
    BY <1>8 DEF DispatcherTurn, Terminal
  <2> QED BY <1>1, <1>3, <2>1, ParsedBoard
<1> QED BY <1>4, <1>5, <1>6, <1>7, <1>8 DEF NodeLeaves

\* What a step of the system is.
LEMMA Steps == Next => Aside \/ Peek \/ Announce \/ Enter \/ TeardownCloses \/ FinishRun \/ NodeLeaves
BY DEF Next, Step, NodeStep, TeardownSteps, Aside, NodeLeaves

\* Every step keeps the types.
LEMMA NextType == TypeInv /\ [Next]_vars => TypeInv'
<1> SUFFICES ASSUME TypeInv, [Next]_vars PROVE TypeInv'
  OBVIOUS
<1>1. CASE UNCHANGED vars
  BY <1>1 DEF vars, graphVars, shownVars, factoryVars, TypeInv, TypeOK, Placed
<1> QED BY <1>1, Steps, AsideType, PeekType, WriteType, NodeType

\* Every reachable state is well typed: the nodes that run are those of the graph
\* that was compiled, a massive graph never runs more of them than its limit, and
\* ralph_node always finds a card.
THEOREM TypeCorrect == Spec => []TypeOK
<1>1. TypeInv => TypeOK
  BY DEF TypeInv
<1> QED BY <1>1, InitType, NextType, PTL DEF Spec

(***************************************************************************)
(* One box.  The boxes of the reporter show at most the node that runs;    *)
(* what it has written is one of its states, an old one when writes were   *)
(* lost.                                                                   *)
(***************************************************************************)

\* Nothing but n is shown as running.
Lights(boxes, n) == \A m \in DOMAIN boxes : boxes[m] = "running" <=> m = n

Inside == {"turn", "mark", "clone", "settle", "publish", "delete", "close"}

\* The reporter has the node that runs, or none, as running.
ShownLit ==
  /\ phase \in Inside => Lights(shown, node)
  /\ phase \notin Inside \cup Gone => \A m \in DOMAIN shown : shown[m] # "running"

\* The hash has the node that it names, or none, as running.
RunLit ==
  run # NoRun =>
    \/ run.current \in DOMAIN run.nodes /\ Lights(run.nodes, run.current)
    \/ run.current = NoNode /\ \A m \in DOMAIN run.nodes : run.nodes[m] # "running"

LitInv == ShownLit /\ RunLit

\* A node of a graph is not the name that stands for none.
LEMMA NodesAreNamed == ASSUME NEW s \in {"work", "massive"} PROVE NoNode \notin NodeNames(s)
BY NamesOfGraphs DEF NoNode, Massive, Work

\* What the monitor paints is what the hash says.
LEMMA LitImplies == TypeInv /\ LitInv => OneNodeLit
<1> SUFFICES ASSUME TypeInv, LitInv PROVE OneNodeLit
  OBVIOUS
<1> DEFINE lit == {n \in DOMAIN Row.nodes : Painted(n) = "running"}
<1>1. CASE run = NoRun
  <2>1. Row.nodes = [n \in NodeNames("work") |-> "queued"] /\ Row.current = NoNode
    BY <1>1 DEF Row, Written
  <2>2. lit = {}
    BY <2>1, NodesAreNamed DEF Painted
  <2> QED BY <2>1, <2>2 DEF OneNodeLit
<1>2. CASE run # NoRun
  <2>1. Row = run /\ DOMAIN run.nodes = NodeNames(spec) /\ spec \in {"work", "massive"}
    BY <1>2 DEF Row, TypeInv, TypeOK, Runs, Boxes
  <2>2. NoNode \notin DOMAIN run.nodes
    BY <2>1, NodesAreNamed
  <2>3. CASE run.current \in DOMAIN run.nodes /\ Lights(run.nodes, run.current)
    <3>1. lit = {run.current} /\ run.nodes[run.current] = "running"
      BY <2>1, <2>3 DEF Painted, Lights
    <3> QED BY <2>1, <2>2, <2>3, <3>1 DEF OneNodeLit
  <2>4. CASE run.current = NoNode /\ \A m \in DOMAIN run.nodes : run.nodes[m] # "running"
    <3>1. lit = {}
      BY <2>1, <2>2, <2>4 DEF Painted
    <3> QED BY <2>1, <2>4, <3>1 DEF OneNodeLit
  <2> QED BY <1>2, <2>3, <2>4 DEF LitInv, RunLit
<1> QED BY <1>1, <1>2

\* A report that lights the node that it names keeps the hash lit alike.
LEMMA ReportLit ==
  ASSUME TypeInv, RunLit, NEW nodes \in Boxes(spec),
         NEW current \in AllNodes \cup {NoNode}, NEW status \in {"running"} \cup Outcome,
         NEW news \in Seq(NodeEvent), NEW cost \in Nat,
         Report(nodes, current, status, news, cost),
         \/ current \in NodeNames(spec) /\ Lights(nodes, current)
         \/ current = NoNode /\ \A m \in DOMAIN nodes : nodes[m] # "running"
  PROVE  shown' = nodes /\ RunLit'
<1>1. shown' = nodes /\ (run' = run \/ run' = Written(nodes, current, status))
  BY ReportType DEF TypeInv
<1>2. CASE run' = run
  BY <1>1, <1>2 DEF RunLit
<1>3. CASE run' = Written(nodes, current, status)
  <2>1. run'.nodes = nodes /\ run'.current = current
    BY <1>3 DEF Written
  <2> QED BY <1>1, <2>1 DEF RunLit, Boxes
<1> QED BY <1>1, <1>2, <1>3

\* A node that closes itself was the one that was lit.
LEMMA LeaveLit ==
  ASSUME TypeInv, LitInv, phase \in Inside,
         NEW status \in {"finished", "error"}, NEW isError, NEW cards, NEW cost \in Nat,
         Leave(status, isError, cards, cost)
  PROVE  LitInv'
<1> DEFINE boxes == [shown EXCEPT ![node] = status]
<1>1. Report(boxes, NoNode, "running", <<Event(node, status)>>, cost) /\ phase' = "enter"
  BY DEF Leave
<1>2. boxes \in Boxes(spec) /\ <<Event(node, status)>> \in Seq(NodeEvent)
  BY MarkedNode DEF TypeInv, NodeStatus, Outcome
<1>3. \A m \in DOMAIN boxes : boxes[m] # "running"
  BY DEF LitInv, ShownLit, Lights, TypeInv, TypeOK, Boxes
<1> HIDE DEF boxes
<1>4. shown' = boxes /\ RunLit'
  BY <1>1, <1>2, <1>3, ReportLit DEF LitInv
<1> QED BY <1>1, <1>3, <1>4 DEF LitInv, ShownLit, Inside, Gone

\* Every step keeps one box lit.
LEMMA NextLit == TypeInv /\ LitInv /\ [Next]_vars => LitInv'
<1> SUFFICES ASSUME TypeInv, LitInv, [Next]_vars PROVE LitInv'
  OBVIOUS
<1>1. 0 \in Nat /\ <<>> \in Seq(NodeEvent) /\ shown \in Boxes(spec) /\ node \in NodeNames(spec)
      /\ node \in AllNodes
  BY SharedNodes DEF TypeInv, TypeOK
<1>2. CASE UNCHANGED vars
  BY <1>2 DEF vars, graphVars, shownVars, LitInv, ShownLit, RunLit, Lights
<1>3. CASE Aside
  <2> USE DEF LitInv, ShownLit, RunLit, Lights, Inside, Gone, graphVars, shownVars
  <2>1. CASE Register \/ StartContainer \/ StartupReads \/ StartupMarks
    BY <1>3, <2>1 DEF Register, StartContainer, StartupReads, StartupMarks
  <2>2. CASE TeardownPush \/ TeardownNoPush
    BY <2>2 DEF TeardownPush, TeardownNoPush, TeardownStep
  <2>3. CASE TeardownSettles \/ TeardownPublishes \/ TeardownDeletes \/ PublishFails
    BY <2>3 DEF TeardownSettles, TeardownPublishes, TeardownDeletes, PublishFails
  <2>4. CASE ClearRun \/ ReapReports \/ ReapDeletes
    BY <2>4 DEF ClearRun, ReapReports, ReapDeletes
  <2>5. CASE RecursionError \/ Raises \/ Kill \/ Trim
    BY <2>5 DEF RecursionError, Raises, Kill, Trim
  <2> QED BY <1>3, <2>1, <2>2, <2>3, <2>4, <2>5 DEF Aside
<1>4. CASE Peek
  <2>1. run' = NoRun /\ shown' = [n \in NodeNames(spec') |-> "queued"] /\ phase' = "announce"
    BY <1>4 DEF Peek, TypeInv, Placed, Early
  <2> QED BY <2>1 DEF LitInv, ShownLit, RunLit, Inside
<1>5. CASE Announce
  <2>1. /\ Report(shown, NoNode, "running", <<>>, 0) /\ phase' = "enter"
        /\ \A m \in DOMAIN shown : shown[m] # "running"
    BY <1>5 DEF Announce, LitInv, ShownLit, Inside, Gone
  <2>2. shown' = shown /\ RunLit'
    BY <1>1, <2>1, ReportLit DEF LitInv
  <2> QED BY <2>1, <2>2 DEF LitInv, ShownLit, Inside
<1>6. CASE FinishRun
  <2>1. /\ Report(shown, NoNode, result, <<>>, 0) /\ phase' = "clear" /\ result \in Outcome
        /\ \A m \in DOMAIN shown : shown[m] # "running"
    BY <1>6 DEF FinishRun, LitInv, ShownLit, Inside, Gone, TypeInv, Placed, Late
  <2>2. shown' = shown /\ RunLit'
    BY <1>1, <2>1, ReportLit DEF LitInv
  <2> QED BY <2>1, <2>2 DEF LitInv, ShownLit, Inside
<1>7. CASE Enter
  <2> DEFINE boxes == [shown EXCEPT ![node] = "running"]
  <2>1. Report(boxes, node, "running", <<Event(node, "running")>>, 0) /\ phase' = "turn" /\ node' = node
    BY <1>7 DEF Enter
  <2>2. boxes \in Boxes(spec) /\ <<Event(node, "running")>> \in Seq(NodeEvent)
    BY MarkedNode DEF TypeInv, NodeStatus
  <2>3. Lights(boxes, node)
    BY <1>1, <1>7 DEF Enter, LitInv, ShownLit, Lights, Inside, Gone, Boxes
  <2> HIDE DEF boxes
  <2>4. shown' = boxes /\ RunLit'
    BY <1>1, <2>1, <2>2, <2>3, ReportLit DEF LitInv
  <2> QED BY <2>1, <2>3, <2>4 DEF LitInv, ShownLit, Lights, Inside
<1>8. CASE TeardownCloses
  <2> DEFINE boxes == [shown EXCEPT ![node] = "finished"]
  <2>1. Report(boxes, NoNode, "running", <<Event(node, "finished")>>, 0) /\ phase' = "finish"
    BY <1>8 DEF TeardownCloses
  <2>2. boxes \in Boxes(spec) /\ <<Event(node, "finished")>> \in Seq(NodeEvent)
    BY MarkedNode DEF TypeInv, NodeStatus, Outcome
  <2>3. \A m \in DOMAIN boxes : boxes[m] # "running"
    BY <1>1, <1>8 DEF TeardownCloses, LitInv, ShownLit, Lights, Inside, Boxes
  <2> HIDE DEF boxes
  <2>4. shown' = boxes /\ RunLit'
    BY <1>1, <2>1, <2>2, <2>3, ReportLit DEF LitInv
  <2> QED BY <2>1, <2>3, <2>4 DEF LitInv, ShownLit, Inside
<1>9. CASE NodeLeaves
  <2>1. phase \in Inside
    BY <1>9 DEF NodeLeaves, StartupFails, StartupMarkFails, StartupClones, AgentTurn, AgentTurnFails,
      RalphTurn, DispatcherFails, DispatcherTurn, Inside
  <2>2. \E cost \in {0, 1} : \E cards : Fails(cost) \/ Done(cards)
    BY <1>9 DEF NodeLeaves, StartupFails, StartupMarkFails, StartupClones, AgentTurn, AgentTurnFails,
      RalphTurn, DispatcherFails, DispatcherTurn
  <2> QED BY <2>1, <2>2, LeaveLit DEF Fails, Done
<1> QED BY <1>2, <1>3, <1>4, <1>5, <1>6, <1>7, <1>8, <1>9, Steps

\* The monitor never lights two boxes, whatever the nodes do and whichever
\* writes of the reporter get lost.
THEOREM OneNodeLitEver == Spec => []OneNodeLit
<1>1. Init => LitInv
  BY DEF Init, LitInv, ShownLit, RunLit, Inside
<1> QED BY <1>1, InitType, NextType, NextLit, LitImplies, PTL DEF Spec

(***************************************************************************)
(* The timeline.  As long as no write was lost, the stream and the hash    *)
(* say what the boxes of the reporter say.                                 *)
(***************************************************************************)

\* A non-empty set of numbers up to n has a greatest one.
LEMMA Greatest ==
  ASSUME NEW n \in Nat, NEW S, S \subseteq 1..n, S # {}
  PROVE  \E x \in S : \A y \in S : y <= x
<1> DEFINE T == {n - x : x \in S}
<1>0. \A x \in S : x \in Nat /\ n - x \in Nat
  OBVIOUS
<1>1. T \subseteq Nat /\ T # {}
  BY <1>0
<1>2. PICK t \in T : \A u \in T : t <= u
  <2> HIDE DEF T
  <2> QED BY <1>1, Least
<1>3. PICK x \in S : t = n - x
  BY <1>2
<1>4. ASSUME NEW y \in S PROVE y <= x
  <2>1. n - x <= n - y
    BY <1>2, <1>3
  <2>2. x \in Nat /\ y \in Nat
    OBVIOUS
  <2> QED BY <2>1, <2>2
<1> QED BY <1>4

\* A new event is the last word on its node, and on no other.
LEMMA NewEvent ==
  ASSUME events \in Seq(NodeEvent), NEW m \in AllNodes, NEW status \in NodeStatus,
         events' = events \o <<Event(m, status)>>
  PROVE  /\ LastEvent(m)' = status
         /\ \A n : n # m => LastEvent(n)' = LastEvent(n)
<1> DEFINE k == Len(events) + 1
<1>1. /\ Len(events) \in Nat /\ DOMAIN events = 1..Len(events) /\ DOMAIN events' = 1..k
      /\ \A i \in 1..Len(events) : events'[i] = events[i]
      /\ events'[k] = Event(m, status)
  BY DEF Event, NodeEvent
<1>2. events'[k][1] = m /\ events'[k][2] = status
  BY <1>1 DEF Event
<1>3. EventsOf(m)' = EventsOf(m) \cup {k} /\ EventsOf(m) \subseteq 1..Len(events)
  BY <1>1, <1>2 DEF EventsOf
<1>4. (CHOOSE i \in EventsOf(m)' : \A j \in EventsOf(m)' : j <= i) = k
  <2>1. \A i \in EventsOf(m)' : (\A j \in EventsOf(m)' : j <= i) <=> i = k
    BY <1>1, <1>3
  <2>2. k \in EventsOf(m)'
    BY <1>3
  <2> QED BY <2>1, <2>2
<1>5. LastEvent(m)' = status
  BY <1>2, <1>3, <1>4 DEF LastEvent
<1>6. ASSUME NEW n, n # m PROVE LastEvent(n)' = LastEvent(n)
  <2>1. EventsOf(n)' = EventsOf(n) /\ EventsOf(n) \subseteq 1..Len(events)
    BY <1>1, <1>2, <1>6 DEF EventsOf
  <2>2. CASE EventsOf(n) = {}
    BY <2>1, <2>2 DEF LastEvent
  <2>3. CASE EventsOf(n) # {}
    <3> DEFINE last == CHOOSE i \in EventsOf(n) : \A j \in EventsOf(n) : j <= i
    <3>1. last \in EventsOf(n)
      BY <1>1, <2>1, <2>3, Greatest
    <3>2. events'[last] = events[last]
      BY <1>1, <2>1, <3>1
    <3>3. LastEvent(n) = events[last][2] /\ LastEvent(n)' = events'[last][2]
      BY <2>1, <2>3 DEF LastEvent
    <3> QED BY <3>2, <3>3
  <2> QED BY <2>2, <2>3
<1> QED BY <1>5, <1>6

\* The boxes and the timeline agree on every node, and so does the hash if there is one.
Agreed ==
  /\ \A n \in NodeNames(spec) : shown[n] = LastEvent(n)
  /\ run # NoRun => run.nodes = shown

TimelineInv ==
  /\ phase \in Early => events = <<>> /\ \A n \in NodeNames(spec) : shown[n] = "queued"
  /\ lost = {} => Agreed

\* The row that the monitor reads is the hash.
LEMMA TimelineImplies == TimelineInv => TimelineAgrees
BY DEF TimelineInv, Agreed, TimelineAgrees, Row

\* A report that lost nothing has put its news on the stream and its boxes in the hash.
LEMMA ReportKept ==
  ASSUME NEW nodes, NEW current, NEW status, NEW news, NEW cost,
         Report(nodes, current, status, news, cost), lost' = {}
  PROVE  /\ lost = {} /\ shown' = nodes /\ run'.nodes = nodes
         /\ events' = events \o news
<1>1. /\ lost = {} /\ shown' = nodes /\ events' = events \o news
      /\ run' = Written(nodes, current, status)
  BY DEF Report
<1> QED BY <1>1 DEF Written

\* A node that changes its box tells the timeline the same.
LEMMA MarkAgreed ==
  ASSUME TypeInv, TimelineInv, NEW status \in NodeStatus, NEW current, NEW cost,
         Report([shown EXCEPT ![node] = status], current, "running", <<Event(node, status)>>, cost),
         spec' = spec, lost' = {}
  PROVE  Agreed'
<1>1. /\ lost = {} /\ shown' = [shown EXCEPT ![node] = status] /\ run'.nodes = shown'
      /\ events' = events \o <<Event(node, status)>>
  BY ReportKept
<1>2. node \in NodeNames(spec) /\ node \in AllNodes /\ events \in Seq(NodeEvent)
  BY SharedNodes DEF TypeInv, TypeOK
<1> PICK m \in AllNodes : m = node
  BY <1>2
<1>3. LastEvent(m)' = status /\ \A n : n # m => LastEvent(n)' = LastEvent(n)
  BY <1>1, <1>2, NewEvent
<1>4. DOMAIN shown = NodeNames(spec) /\ \A n \in NodeNames(spec) : shown[n] = LastEvent(n)
  BY <1>1 DEF TypeInv, TypeOK, Boxes, TimelineInv, Agreed
<1>5. \A n \in NodeNames(spec) : shown'[n] = LastEvent(n)'
  BY <1>1, <1>2, <1>3, <1>4
<1>6. NodeNames(spec)' = NodeNames(spec)
  OBVIOUS
<1> QED BY <1>1, <1>5, <1>6 DEF Agreed

\* A report without news repeats the boxes.
LEMMA RepeatAgreed ==
  ASSUME TypeInv, TimelineInv, NEW current, NEW status, NEW cost,
         Report(shown, current, status, <<>>, cost), spec' = spec, lost' = {}
  PROVE  Agreed'
<1>1. lost = {} /\ shown' = shown /\ run'.nodes = shown /\ events' = events \o <<>>
  BY ReportKept
<1>2. events' = events
  BY <1>1 DEF TypeInv, TypeOK
<1>3. \A n : LastEvent(n)' = LastEvent(n)
  BY <1>2 DEF LastEvent, EventsOf
<1> QED BY <1>1, <1>3 DEF Agreed, TimelineInv

\* Every step keeps the timeline.
LEMMA NextTimeline == TypeInv /\ TimelineInv /\ [Next]_vars => TimelineInv'
<1> SUFFICES ASSUME TypeInv, TimelineInv, [Next]_vars PROVE TimelineInv'
  OBVIOUS
<1>1. ASSUME spec' = spec, shown' = shown, events' = events, run' = run \/ run' = NoRun,
             lost' = {} => lost = {}, phase' \in Early => phase \in Early
      PROVE  TimelineInv'
  <2>1. \A n : LastEvent(n)' = LastEvent(n)
    BY <1>1 DEF LastEvent, EventsOf
  <2>2. NodeNames(spec)' = NodeNames(spec) /\ NoRun' = NoRun
    BY <1>1 DEF NoRun
  <2> QED BY <1>1, <2>1, <2>2 DEF TimelineInv, Agreed
<1>2. CASE UNCHANGED vars
  BY <1>1, <1>2 DEF vars, graphVars, shownVars
<1>3. CASE Aside
  <2> USE DEF graphVars, shownVars, Early
  <2>1. CASE Register \/ StartContainer \/ StartupReads \/ StartupMarks
    BY <1>1, <2>1 DEF Register, StartContainer, StartupReads, StartupMarks
  <2>2. CASE TeardownPush \/ TeardownNoPush
    BY <1>1, <2>2 DEF TeardownPush, TeardownNoPush, TeardownStep
  <2>3. CASE TeardownSettles \/ TeardownPublishes \/ TeardownDeletes \/ PublishFails
    BY <1>1, <2>3 DEF TeardownSettles, TeardownPublishes, TeardownDeletes, PublishFails
  <2>4. CASE ClearRun \/ ReapReports \/ ReapDeletes
    BY <1>1, <2>4 DEF ClearRun, ReapReports, ReapDeletes
  <2>5. CASE RecursionError \/ Raises \/ Kill \/ Trim
    BY <1>1, <2>5 DEF RecursionError, Raises, Kill, Trim
  <2> QED BY <1>3, <2>1, <2>2, <2>3, <2>4, <2>5 DEF Aside
<1>4. CASE Peek
  <2>1. /\ run' = NoRun /\ shown' = [n \in NodeNames(spec') |-> "queued"]
        /\ events' = <<>> /\ lost' = lost
    BY <1>4 DEF Peek, TypeInv, Placed, Early, TimelineInv
  <2>2. \A n : LastEvent(n)' = "queued"
    BY <2>1 DEF LastEvent, EventsOf
  <2>3. NodeNames(spec)' = NodeNames(spec') /\ NoRun' = NoRun
    BY DEF NoRun
  <2> QED BY <2>1, <2>2, <2>3 DEF TimelineInv, Agreed
<1>5. CASE Announce \/ FinishRun
  <2>1. phase' \notin Early /\ spec' = spec
    BY <1>5 DEF Announce, FinishRun, Early, graphVars
  <2>2. \E current, status : Report(shown, current, status, <<>>, 0)
    BY <1>5 DEF Announce, FinishRun
  <2> QED BY <2>1, <2>2, RepeatAgreed DEF TimelineInv
<1>6. CASE Enter \/ TeardownCloses
  <2>1. phase' \notin Early /\ spec' = spec
    BY <1>6 DEF Enter, TeardownCloses, Early, graphVars
  <2>2. \E current : \E status \in {"running", "finished"} :
          Report([shown EXCEPT ![node] = status], current, "running", <<Event(node, status)>>, 0)
    BY <1>6 DEF Enter, TeardownCloses
  <2>3. {"running", "finished"} \subseteq NodeStatus
    BY DEF NodeStatus, Outcome
  <2> QED BY <2>1, <2>2, <2>3, MarkAgreed DEF TimelineInv
<1>7. CASE NodeLeaves
  <2>1. \E cost \in {0, 1} : \E cards : Fails(cost) \/ Done(cards)
    BY <1>7 DEF NodeLeaves, StartupFails, StartupMarkFails, StartupClones, AgentTurn, AgentTurnFails,
      RalphTurn, DispatcherFails, DispatcherTurn
  <2>2. PICK status \in {"finished", "error"} : \E isError, cards, cost : Leave(status, isError, cards, cost)
    BY <2>1 DEF Fails, Done
  <2>3. PICK isError, cards, cost : Leave(status, isError, cards, cost)
    BY <2>2
  <2>4. /\ phase' \notin Early /\ spec' = spec
        /\ Report([shown EXCEPT ![node] = status], NoNode, "running", <<Event(node, status)>>, cost)
    BY <2>3 DEF Leave, Early
  <2>5. status \in NodeStatus
    BY DEF NodeStatus, Outcome
  <2> QED BY <2>4, <2>5, MarkAgreed DEF TimelineInv
<1> QED BY <1>2, <1>3, <1>4, <1>5, <1>6, <1>7, Steps

\* The timeline and the boxes of the monitor never contradict each other, unless a
\* write was lost: for boards of any size, any limit and any way the nodes end.
THEOREM TimelineAgreesEver == Spec => []TimelineAgrees
<1>1. Init => TimelineInv
  <2>1. ASSUME Init PROVE \A n : LastEvent(n) = "queued"
    BY <2>1 DEF Init, LastEvent, EventsOf
  <2> QED BY <2>1 DEF Init, TimelineInv, Agreed
<1> QED BY <1>1, InitType, NextType, NextTimeline, TimelineImplies, PTL DEF Spec

(***************************************************************************)
(* The contract of the registry.                                           *)
(***************************************************************************)

\* What has been told, and whether the run is in the registry, by phase.
Told ==
  /\ phase = "new" => hash = "none" /\ reports = <<>>
  /\ phase \in {"registered"} \cup {"peek", "announce", "enter", "turn", "mark", "clone",
                                    "settle", "publish"} =>
       hash # "none" /\ reports = <<>>
  /\ phase = "delete" => hash # "none" /\ reports # <<>>
  /\ phase = "told" => reports # <<>>

\* Every step is one of the contract or changes nothing of it.
ContractStep == [Sandbox!ContractNext]_(Sandbox!contract)

\* The reports that are appended are there.
LEMMA Appended == ASSUME NEW r PROVE Append(<<>>, r) = <<r>> /\ \A s \in Seq(Outcome) : Append(s, r) # <<>>
BY SMTT(30)

\* The step to the end of the process.
LEMMA EndsContract ==
  ASSUME InProgress, ~ InProgress', UNCHANGED <<hash, reports>>
  PROVE  ContractStep
BY DEF ContractStep, Sandbox!ContractNext, Sandbox!End

\* A step that the contract does not see.
LEMMA StuttersContract ==
  ASSUME InProgress' = InProgress, (hash' # "none") = (hash # "none"), reports' = reports
  PROVE  ContractStep
BY DEF ContractStep, Sandbox!contract

\* Every step keeps Told and is one of the contract.
LEMMA NextTold == TypeInv /\ Told /\ [Next]_vars => Told' /\ ContractStep
<1> SUFFICES ASSUME TypeInv, Told, [Next]_vars PROVE Told' /\ ContractStep
  OBVIOUS
<1> USE DEF InProgress, NotStarted, Gone
<1>1. CASE UNCHANGED vars
  BY <1>1, StuttersContract DEF vars, factoryVars, Told
<1>2. CASE Aside
  <2>1. CASE Register
    <3>1. Told' /\ hash = "none" /\ hash' # "none" /\ reports = <<>> /\ reports' = reports
      BY <2>1 DEF Register, Told
    <3> QED BY <2>1, <3>1 DEF Register, ContractStep, Sandbox!ContractNext, Sandbox!Register
  <2>2. CASE StartContainer
    BY <2>2 DEF StartContainer, factoryVars, Told, ContractStep, Sandbox!ContractNext, Sandbox!StartUp
  <2>3. CASE StartupReads \/ StartupMarks \/ TeardownPush \/ TeardownNoPush
    BY <2>3, StuttersContract DEF StartupReads, StartupMarks, TeardownPush, TeardownNoPush,
      TeardownStep, factoryVars, Told
  <2>4. CASE TeardownSettles
    <3>1. result # "none"
      BY <2>4 DEF TeardownSettles, TypeInv, Placed, Late, Outcome
    <3> QED BY <2>4, <3>1, StuttersContract DEF TeardownSettles, Told
  <2>5. CASE TeardownPublishes
    <3>1. reports = <<>> /\ reports' = <<result>> /\ result \in Outcome
      BY <2>5, Appended DEF TeardownPublishes, Told, TypeInv, Placed, Late
    <3>2. Sandbox!Tell(result)
      BY <2>5, <3>1 DEF TeardownPublishes, Sandbox!Tell
    <3>3. Told'
      BY <2>5, <3>1 DEF TeardownPublishes, Told
    <3>4. result \in Sandbox!Outcome
      BY <3>1 DEF Outcome, Sandbox!Outcome
    <3> QED BY <3>2, <3>3, <3>4 DEF ContractStep, Sandbox!ContractNext
  <2>6. CASE TeardownDeletes
    BY <2>6 DEF TeardownDeletes, Told, ContractStep, Sandbox!ContractNext, Sandbox!Close
  <2>7. CASE PublishFails
    BY <2>7, StuttersContract DEF PublishFails, factoryVars, Told
  <2>8. CASE ClearRun
    BY <2>8, EndsContract DEF ClearRun, factoryVars, Told
  <2>9. CASE ReapReports
    <3>1. reports' = Append(reports, "error") /\ reports' # <<>>
      BY <2>9, Appended DEF ReapReports, TypeInv, TypeOK
    <3> QED BY <2>9, <3>1 DEF ReapReports, Told, ContractStep, Sandbox!ContractNext, Sandbox!TellForIt
  <2>10. CASE ReapDeletes
    BY <2>10 DEF ReapDeletes, Told, ContractStep, Sandbox!ContractNext, Sandbox!Close,
      Sandbox!CloseUntold
  <2>11. CASE RecursionError \/ Raises \/ Kill
    BY <2>11, EndsContract DEF RecursionError, Raises, Kill, factoryVars, Told
  <2>12. CASE Trim
    BY <2>12, StuttersContract DEF Trim, factoryVars, Told
  <2> QED BY <1>2, <2>1, <2>2, <2>3, <2>4, <2>5, <2>6, <2>7, <2>8, <2>9, <2>10, <2>11, <2>12 DEF Aside
<1>3. CASE Peek \/ Announce \/ Enter \/ TeardownCloses \/ FinishRun
  BY <1>3, StuttersContract DEF Peek, Announce, Enter, TeardownCloses, FinishRun, factoryVars, Told
<1>4. CASE NodeLeaves
  <2>1. phase \in {"turn", "mark", "clone"} /\ UNCHANGED factoryVars
    BY <1>4 DEF NodeLeaves, StartupFails, StartupMarkFails, StartupClones, AgentTurn, AgentTurnFails,
      RalphTurn, DispatcherFails, DispatcherTurn
  <2>2. phase' = "enter"
    BY <1>4 DEF NodeLeaves, StartupFails, StartupMarkFails, StartupClones, AgentTurn, AgentTurnFails,
      RalphTurn, DispatcherFails, DispatcherTurn, Fails, Done, Leave
  <2> QED BY <2>1, <2>2, StuttersContract DEF factoryVars, Told
<1> QED BY <1>1, <1>2, <1>3, <1>4, Steps

\* The run implements the contract of SandboxRun: the stream tells of it before
\* its hash goes, it reports itself at most once, and the manager speaks for it
\* only after its end.
THEOREM KeepsContractEver == Spec => KeepsContract
<1>1. Init => Told /\ Sandbox!ContractInit
  BY DEF Init, Told, Sandbox!ContractInit, InProgress, NotStarted
<1> QED BY <1>1, InitType, NextType, NextTold, PTL DEF Spec, KeepsContract, Sandbox!Contract, ContractStep

\* A run that was in the registry and is not any more is on the stream, unless
\* its order is gone.
Accounted == phase # "new" /\ hash = "none" => reports # <<>> \/ order = "lost"

\* Every step keeps it: the sandbox deletes its hash when it has reported, and the
\* manager when it has or when there is no order.
LEMMA NextAccounted == TypeInv /\ Told /\ Accounted /\ [Next]_vars => Accounted'
<1> SUFFICES ASSUME TypeInv, Told, Accounted, [Next]_vars PROVE Accounted'
  OBVIOUS
<1> USE DEF Accounted
<1>1. CASE UNCHANGED vars
  BY <1>1 DEF vars, factoryVars
<1>2. CASE Aside
  <2>1. CASE Register \/ TeardownSettles
    BY <2>1 DEF Register, TeardownSettles, TypeInv, Placed, Late, Outcome
  <2>2. CASE StartContainer \/ RecursionError \/ StartupReads \/ StartupMarks \/ PublishFails
             \/ ClearRun \/ Raises \/ Kill
    BY <2>2 DEF StartContainer, RecursionError, StartupReads, StartupMarks, PublishFails,
      ClearRun, Raises, Kill, factoryVars, InProgress, NotStarted
  <2>3. CASE TeardownPush \/ TeardownNoPush
    BY <2>3 DEF TeardownPush, TeardownNoPush, TeardownStep, factoryVars
  <2>4. CASE TeardownPublishes \/ ReapReports
    BY <2>4, Appended DEF TeardownPublishes, ReapReports, TypeInv, TypeOK
  <2>5. CASE TeardownDeletes \/ ReapDeletes
    BY <2>5 DEF TeardownDeletes, ReapDeletes, Told
  <2>6. CASE Trim
    BY <2>6 DEF Trim, factoryVars
  <2> QED BY <1>2, <2>1, <2>2, <2>3, <2>4, <2>5, <2>6 DEF Aside
<1>3. CASE Peek \/ Announce \/ Enter \/ TeardownCloses \/ FinishRun
  BY <1>3 DEF Peek, Announce, Enter, TeardownCloses, FinishRun, factoryVars
<1>4. CASE NodeLeaves
  <2>1. phase \in {"turn", "mark", "clone"} /\ UNCHANGED factoryVars
    BY <1>4 DEF NodeLeaves, StartupFails, StartupMarkFails, StartupClones, AgentTurn, AgentTurnFails,
      RalphTurn, DispatcherFails, DispatcherTurn
  <2>2. hash # "none"
    BY <2>1 DEF Told
  <2> QED BY <2>1, <2>2 DEF factoryVars
<1> QED BY <1>1, <1>2, <1>3, <1>4, Steps

\* No run disappears untold: whatever kills the process, fails or gets lost, when
\* its hash is gone the stream has a report, unless the order was trimmed.
THEOREM NoRunForgotten == Spec => []Accounted
<1>1. Init => Told /\ Accounted
  BY DEF Init, Told, Accounted
<1> QED BY <1>1, InitType, NextType, NextTold, NextAccounted, PTL DEF Spec

(***************************************************************************)
(* The board.  While nothing has failed, the cards that were worked on are *)
(* done, and they stand for all that is done; they were taken in the order *)
(* of rank, and each of them before every card that is left.               *)
(***************************************************************************)

\* A card is worked on, or ticked off with one of its id that goes before it.
StandsFor(cards, i, j) == i = j \/ (cards[i].id = cards[j].id /\ Before(cards, i, j))

Progress(cards, taken) ==
  /\ \A k \in DOMAIN taken : taken[k] \in DOMAIN cards /\ cards[taken[k]].done
  /\ \A j \in DOMAIN cards :
       cards[j].done => \E k \in DOMAIN taken : StandsFor(cards, taken[k], j)
  /\ \A k, l \in DOMAIN taken : k < l =>
       cards[taken[k]].id # cards[taken[l]].id /\ Before(cards, taken[k], taken[l])
  /\ \A k \in DOMAIN taken : \A j \in Todo(cards) :
       cards[taken[k]].id # cards[j].id /\ Before(cards, taken[k], j)

BeforeRalph == {"startup_node", "orchestrator_node", "dispatcher_node"}
AfterRalph == {"test_node", "teardown_node"}

BoardInv ==
  /\ phase \in Early => worked = <<>> /\ board = <<>> /\ ~ pushed /\ result = "none" /\ reports = <<>>
  /\ spec = "massive" /\ failed = NoNode =>
       /\ Progress(board, worked)
       /\ node \in BeforeRalph => worked = <<>>
       /\ node \in AfterRalph => Todo(board) = {}
  /\ pushed \/ result = "finished" => failed = NoNode /\ node = Terminal
  /\ \A i \in DOMAIN reports : reports[i] = "finished" => result = "finished"

\* A board that is worked off is what BoardIsWorkedOff asks for.
LEMMA BoardImplies == TypeInv /\ BoardInv => BoardIsWorkedOff
<1> SUFFICES ASSUME TypeInv, BoardInv, Delivered
             PROVE  /\ \A k, l \in DOMAIN worked : k < l =>
                         /\ board[worked[k]].id # board[worked[l]].id
                         /\ Before(board, worked[k], worked[l])
                    /\ \A i \in DOMAIN board : \E k \in DOMAIN worked :
                         \/ worked[k] = i
                         \/ board[worked[k]].id = board[i].id /\ Before(board, worked[k], i)
  BY DEF BoardIsWorkedOff
<1>1. spec = "massive" /\ (pushed \/ result = "finished")
  BY DEF BoardInv, Delivered
<1>2. Progress(board, worked) /\ Todo(board) = {}
  BY <1>1 DEF BoardInv, AfterRalph, Terminal
<1>3. ASSUME NEW i \in DOMAIN board
      PROVE  \E k \in DOMAIN worked :
               \/ worked[k] = i
               \/ board[worked[k]].id = board[i].id /\ Before(board, worked[k], i)
  <2>1. board[i].done
    BY <1>2 DEF Todo
  <2> QED BY <1>2, <2>1 DEF Progress, StandsFor
<1> QED BY <1>2, <1>3 DEF Progress

\* A new board: nothing is done, and nothing was taken.
LEMMA FreshProgress ==
  ASSUME NEW cards, Todo(cards) = DOMAIN cards
  PROVE  Progress(cards, <<>>)
BY DEF Progress, Todo

\* One more card is worked off.
LEMMA MoreProgress ==
  ASSUME NEW cards \in Seq(Card), NEW taken \in Seq(1..MaxCards), Progress(cards, taken),
         Todo(cards) # {}
  PROVE  Progress(MarkDone(cards, NextTodo(cards)), Append(taken, NextTodo(cards)))
<1> DEFINE i == NextTodo(cards)
           after == MarkDone(cards, i)
           more == Append(taken, i)
<1>1. i \in Todo(cards) /\ \A j \in Todo(cards) \ {i} : Before(cards, i, j)
  BY NextIsTodo
<1>2. i \in DOMAIN cards /\ ~ cards[i].done
  BY <1>1 DEF Todo
<1>3. /\ DOMAIN after = DOMAIN cards
      /\ \A j \in DOMAIN cards :
           /\ after[j].id = cards[j].id
           /\ after[j].priority = cards[j].priority
           /\ after[j].done = (cards[j].id = cards[i].id \/ cards[j].done)
  BY <1>2, MarkedBoard
<1>4. /\ DOMAIN taken = 1..Len(taken) /\ Len(taken) \in Nat
      /\ DOMAIN more = 1..(Len(taken) + 1)
      /\ \A k \in DOMAIN taken : more[k] = taken[k]
      /\ more[Len(taken) + 1] = i
  OBVIOUS
<1> HIDE DEF i, after, more
<1>5. \A j, k \in DOMAIN cards : Before(after, j, k) <=> Before(cards, j, k)
  BY <1>3 DEF Before
<1>6. \A j \in Todo(after) : j \in Todo(cards) /\ j # i /\ cards[j].id # cards[i].id
  BY <1>2, <1>3 DEF Todo
<1>7. \A k \in DOMAIN taken : taken[k] \in DOMAIN cards /\ cards[taken[k]].done
  BY DEF Progress
<1>8. \A k \in DOMAIN taken : cards[taken[k]].id # cards[i].id /\ Before(cards, taken[k], i)
  BY <1>1 DEF Progress
<1>9. ASSUME NEW k \in DOMAIN more
      PROVE  /\ more[k] \in DOMAIN after /\ after[more[k]].done
             /\ k \in DOMAIN taken \/ (k = Len(taken) + 1 /\ more[k] = i)
  <2>1. k \in DOMAIN taken \/ (k = Len(taken) + 1 /\ more[k] = i)
    BY <1>4
  <2>2. CASE k \in DOMAIN taken
    BY <1>3, <1>4, <1>7, <2>2
  <2>3. CASE k = Len(taken) + 1 /\ more[k] = i
    BY <1>2, <1>3, <2>3
  <2> QED BY <2>1, <2>2, <2>3
<1>10. ASSUME NEW j \in DOMAIN after, after[j].done
       PROVE  \E k \in DOMAIN more : StandsFor(after, more[k], j)
  <2>1. CASE ~ cards[j].done
    <3>1. cards[j].id = cards[i].id /\ j \in DOMAIN cards /\ j \in Todo(cards)
      BY <1>3, <1>10, <2>1 DEF Todo
    <3>2. j = i \/ Before(cards, i, j)
      BY <1>1, <3>1
    <3>3. StandsFor(after, i, j)
      BY <1>2, <1>3, <1>5, <3>1, <3>2 DEF StandsFor
    <3>4. Len(taken) + 1 \in DOMAIN more
      BY <1>4
    <3> QED BY <1>4, <3>3, <3>4
  <2>2. CASE cards[j].done
    <3>1. j \in DOMAIN cards
      BY <1>3
    <3>2. PICK k \in DOMAIN taken : StandsFor(cards, taken[k], j)
      BY <2>2, <3>1 DEF Progress
    <3>3. k \in DOMAIN more /\ more[k] = taken[k] /\ taken[k] \in DOMAIN cards
      BY <1>4, <1>7
    <3>4. StandsFor(after, taken[k], j)
      BY <1>3, <1>5, <3>1, <3>2, <3>3 DEF StandsFor
    <3> QED BY <3>3, <3>4
  <2> QED BY <2>1, <2>2
<1>11. ASSUME NEW k \in DOMAIN more, NEW l \in DOMAIN more, k < l
       PROVE  after[more[k]].id # after[more[l]].id /\ Before(after, more[k], more[l])
  <2>1. k \in DOMAIN taken /\ more[k] = taken[k] /\ taken[k] \in DOMAIN cards
    BY <1>4, <1>7, <1>11
  <2>2. CASE l \in DOMAIN taken
    <3>1. more[l] = taken[l] /\ taken[l] \in DOMAIN cards
      BY <1>4, <1>7, <2>2
    <3>2. cards[taken[k]].id # cards[taken[l]].id /\ Before(cards, taken[k], taken[l])
      BY <1>11, <2>1, <2>2 DEF Progress
    <3> QED BY <1>3, <1>5, <2>1, <3>1, <3>2
  <2>3. CASE l = Len(taken) + 1 /\ more[l] = i
    BY <1>2, <1>3, <1>5, <1>8, <2>1, <2>3
  <2> QED BY <1>9, <2>2, <2>3
<1>12. ASSUME NEW k \in DOMAIN more, NEW j \in Todo(after)
       PROVE  after[more[k]].id # after[j].id /\ Before(after, more[k], j)
  <2>1. j \in Todo(cards) /\ j # i /\ cards[j].id # cards[i].id /\ j \in DOMAIN cards
    BY <1>6 DEF Todo
  <2>2. CASE k \in DOMAIN taken
    <3>1. cards[taken[k]].id # cards[j].id /\ Before(cards, taken[k], j)
      BY <2>1, <2>2 DEF Progress
    <3> QED BY <1>3, <1>4, <1>5, <1>7, <2>1, <2>2, <3>1
  <2>3. CASE k = Len(taken) + 1 /\ more[k] = i
    BY <1>1, <1>2, <1>3, <1>5, <2>1, <2>3
  <2> QED BY <1>9, <2>2, <2>3
<1>13. Progress(after, more)
  BY <1>9, <1>10, <1>11, <1>12 DEF Progress
<1> QED BY <1>13 DEF i, after, more

\* A node that fails leads to teardown with its name.
LEMMA FailsBoard ==
  ASSUME TypeInv, BoardInv, phase \in {"turn", "mark", "clone"}, node # Terminal,
         NEW cost, Fails(cost), reports' = reports
  PROVE  BoardInv'
<1>1. failed' = node /\ phase' = "enter" /\ UNCHANGED <<spec, result, pushed>>
  BY DEF Fails, Leave
<1>2. node # NoNode
  BY NodesAreNamed DEF TypeInv, TypeOK
<1>3. ~ pushed /\ result # "finished"
  BY DEF BoardInv
<1> QED BY <1>1, <1>2, <1>3 DEF BoardInv, Early

\* A node that is done hands on a board with the progress that it has made.
LEMMA DoneBoard ==
  ASSUME TypeInv, BoardInv, phase \in {"turn", "mark", "clone"}, node # Terminal,
         NEW cards, Done(cards), reports' = reports,
         spec = "massive" /\ failed = NoNode =>
           /\ Progress(cards, worked')
           /\ node \in {"startup_node", "orchestrator_node"} => worked' = <<>>
           /\ node = "test_node" => Todo(cards) = {}
  PROVE  BoardInv'
<1>1. /\ failed' = failed /\ phase' = "enter" /\ UNCHANGED <<spec, result, pushed>>
      /\ board' = cards /\ node' = Route(node, FALSE, cards)
  BY DEF Done, Leave
<1>2. ~ pushed /\ result # "finished"
  BY DEF BoardInv
<1>3. ASSUME spec = "massive", failed = NoNode
      PROVE  /\ Progress(board', worked')
             /\ node' \in BeforeRalph => worked' = <<>>
             /\ node' \in AfterRalph => Todo(board') = {}
  <2>1. node \in Massive \ {Terminal}
    BY <1>3, NamesOfGraphs DEF TypeInv, TypeOK
  <2>2. node' \in BeforeRalph => node \in {"startup_node", "orchestrator_node"}
    BY <1>1, <1>3, <2>1, TargetsOfMassive DEF Route, Massive, BeforeRalph, Terminal
  <2>3. node' \in AfterRalph => node = "test_node" \/ (node = "ralph_node" /\ Todo(cards) = {})
    BY <1>1, <1>3, <2>1, TargetsOfMassive DEF Route, Massive, AfterRalph, Terminal
  <2> QED BY <1>1, <1>3, <2>2, <2>3
<1> QED BY <1>1, <1>2, <1>3 DEF BoardInv, Early

\* Every step keeps the progress.
LEMMA NextBoard == TypeInv /\ Told /\ BoardInv /\ [Next]_vars => BoardInv'
<1> SUFFICES ASSUME TypeInv, Told, BoardInv, [Next]_vars PROVE BoardInv'
  OBVIOUS
<1>1. CASE UNCHANGED vars
  BY <1>1 DEF vars, graphVars, factoryVars, BoardInv
<1>2. CASE Aside
  <2>1. CASE Register \/ StartContainer \/ StartupReads \/ StartupMarks
    BY <2>1 DEF Register, StartContainer, StartupReads, StartupMarks, graphVars, factoryVars,
      BoardInv, Early
  <2>2. CASE TeardownPush \/ TeardownNoPush
    <3>1. /\ node = Terminal /\ phase' = "settle" /\ reports' = reports
          /\ UNCHANGED <<spec, node, failed, board, worked>>
      BY <2>2 DEF TeardownPush, TeardownNoPush, TeardownStep, graphVars, factoryVars
    <3>2. pushed' \/ result' = "finished" => failed = NoNode
      BY <2>2 DEF TeardownPush, TeardownNoPush, TeardownStep
    <3>3. \A i \in DOMAIN reports : reports[i] # "finished"
      <4>1. phase = "turn"
        BY <2>2 DEF TeardownPush, TeardownNoPush, TeardownStep
      <4> QED BY <4>1 DEF Told
    <3> QED BY <3>1, <3>2, <3>3 DEF BoardInv, Early
  <2>3. CASE TeardownSettles \/ TeardownDeletes \/ PublishFails \/ ClearRun \/ ReapDeletes
    BY <2>3 DEF TeardownSettles, TeardownDeletes, PublishFails, ClearRun, ReapDeletes, graphVars,
      factoryVars, BoardInv, Early, Gone
  <2>4. CASE TeardownPublishes
    <3>1. /\ reports \in Seq(Outcome) /\ reports' = Append(reports, result) /\ phase' = "delete"
          /\ UNCHANGED <<spec, node, failed, board, worked, result, pushed>>
      BY <2>4 DEF TeardownPublishes, graphVars, TypeInv, TypeOK
    <3>2. \A i \in DOMAIN reports' : reports'[i] = "finished" => result' = "finished"
      BY <3>1 DEF BoardInv
    <3> QED BY <3>1, <3>2 DEF BoardInv, Early
  <2>5. CASE ReapReports
    <3>1. /\ reports \in Seq(Outcome) /\ reports' = Append(reports, "error") /\ phase' = "told"
          /\ UNCHANGED <<spec, node, failed, board, worked, result, pushed>>
      BY <2>5 DEF ReapReports, graphVars, TypeInv, TypeOK
    <3>2. \A i \in DOMAIN reports' : reports'[i] = "finished" => result' = "finished"
      BY <3>1 DEF BoardInv
    <3> QED BY <3>1, <3>2 DEF BoardInv, Early
  <2>6. CASE RecursionError \/ Raises \/ Kill \/ Trim
    BY <2>6 DEF RecursionError, Raises, Kill, Trim, graphVars, factoryVars, BoardInv, Early
  <2> QED BY <1>2, <2>1, <2>2, <2>3, <2>4, <2>5, <2>6 DEF Aside
<1>3. CASE Peek
  <2>1. /\ worked = <<>> /\ board = <<>> /\ ~ pushed /\ result = "none" /\ reports = <<>>
        /\ UNCHANGED <<worked, board, pushed, result, reports, node, failed>>
        /\ node = Entry
    BY <1>3 DEF Peek, BoardInv, Early, factoryVars, TypeInv, Placed
  <2>2. Progress(board, worked)
    BY <2>1, FreshProgress DEF Todo
  <2> QED BY <2>1, <2>2 DEF BoardInv, AfterRalph, Entry
<1>4. CASE Announce \/ Enter \/ TeardownCloses \/ FinishRun
  BY <1>4 DEF Announce, Enter, TeardownCloses, FinishRun, graphVars, factoryVars, BoardInv, Early
<1>5. CASE NodeLeaves
  <2>1. /\ phase \in {"turn", "mark", "clone"} /\ reports' = reports /\ node # Terminal
    BY <1>5 DEF NodeLeaves, StartupFails, StartupMarkFails, StartupClones, AgentTurn, AgentTurnFails,
      RalphTurn, DispatcherFails, DispatcherTurn, factoryVars, Terminal, Optional, Required, TypeInv,
      Placed, Entry
  <2>2. CASE \E cost \in {0, 1} : Fails(cost)
    BY <2>1, <2>2, FailsBoard
  <2>3. CASE AgentTurn \/ (StartupClones /\ Done(board))
    <3>1. Done(board) /\ worked' = worked /\ node \notin {"ralph_node", "dispatcher_node"}
      BY <2>3 DEF AgentTurn, StartupClones, Optional, Required, TypeInv, Placed, Entry
    <3>2. spec = "massive" /\ failed = NoNode =>
            /\ Progress(board, worked')
            /\ node \in {"startup_node", "orchestrator_node"} => worked' = <<>>
            /\ node = "test_node" => Todo(board) = {}
      BY <3>1 DEF BoardInv, BeforeRalph, AfterRalph
    <3> QED BY <2>1, <3>1, <3>2, DoneBoard
  <2>4. ASSUME NEW items \in Replies, DispatcherTurn(items) PROVE BoardInv'
    <3>1. Done(ParseKanban(items)) /\ worked' = worked /\ node = "dispatcher_node"
      BY <2>4 DEF DispatcherTurn
    <3>2. spec = "massive" /\ failed = NoNode => Progress(ParseKanban(items), worked')
      BY <3>1, ParsedBoard, FreshProgress DEF BoardInv, BeforeRalph
    <3> QED BY <2>1, <3>1, <3>2, DoneBoard
  <2>5. CASE RalphTurn /\ Done(MarkDone(board, NextTodo(board)))
    <3>1. /\ node = "ralph_node" /\ worked' = Append(worked, NextTodo(board)) /\ Todo(board) # {}
          /\ board \in Seq(Card) /\ worked \in Seq(1..MaxCards)
      BY <2>5 DEF RalphTurn, TypeInv, TypeOK, Placed
    <3>2. spec = "massive" /\ failed = NoNode =>
            Progress(MarkDone(board, NextTodo(board)), worked')
      BY <3>1, MoreProgress DEF BoardInv
    <3> QED BY <2>1, <2>5, <3>1, <3>2, DoneBoard
  <2>6. CASE StartupFails \/ StartupMarkFails \/ AgentTurnFails \/ DispatcherFails
    BY <2>2, <2>6 DEF StartupFails, StartupMarkFails, AgentTurnFails, DispatcherFails
  <2>7. CASE StartupClones
    BY <2>2, <2>3, <2>7 DEF StartupClones
  <2>8. CASE RalphTurn
    BY <2>2, <2>5, <2>8 DEF RalphTurn
  <2>9. CASE \E items \in Replies : DispatcherTurn(items)
    BY <2>4, <2>9
  <2>10. CASE AgentTurn
    BY <2>3, <2>10
  <2> QED BY <1>5, <2>6, <2>7, <2>8, <2>9, <2>10, Zenon DEF NodeLeaves
<1> QED BY <1>1, <1>2, <1>3, <1>4, <1>5, Steps

\* A run that is reported as finished, or that opened its pull request, went
\* through its whole board in the order of rank: no agent got a card of an id
\* that was done, and a card that no agent got shares its id with a more urgent
\* one that an agent did, for boards of any size.
THEOREM BoardIsWorkedOffEver == Spec => []BoardIsWorkedOff
<1>1. Init => BoardInv /\ Told
  <2>1. \A cards : cards = <<>> => Todo(cards) = DOMAIN cards
    BY DEF Todo
  <2>2. Init => Progress(board, worked)
    BY <2>1, FreshProgress DEF Init
  <2>3. Init => BoardInv
    BY <2>2 DEF Init, BoardInv, AfterRalph, Entry
  <2> QED BY <2>3 DEF Init, Told
<1> QED BY <1>1, InitType, NextType, NextTold, NextBoard, BoardImplies, PTL DEF Spec
=============================================================================
