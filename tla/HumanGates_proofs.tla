-------------------------- MODULE HumanGates_proofs --------------------------
(***************************************************************************)
(* For any repositories and numbers, and however often people, GitHub and  *)
(* gh interfere: types, that a ticket that is marked as taken was sent,    *)
(* and that no conflict is sent twice.                                     *)
(***************************************************************************)
EXTENDS HumanGates, TLAPS

(***************************************************************************)
(* Type correctness.                                                       *)
(***************************************************************************)

\* What keeps the types: who may append, and whose actions the relabels and
\* the draft are.
Bounds ==
  /\ poll # None => Len(queue) < MaxLists
  /\ Len(jobs) <= changes /\ epoch <= changes
  /\ \A i \in Item : spell[i] <= changes
  /\ kind # "dispatcher" => (\A s \in Senders : relabels[s] = None) /\ draft.rows = NoRows

TypeInv == TypeOK /\ Bounds

\* The sets of the types, which only some steps need to see.
LEMMA NoRowsType == NoRows \in Board
BY DEF NoRows, Board

\* The list of a repository is a board of rows.
LEMMA ListedType ==
  ASSUME TypeInv, NEW r \in Repo, NEW g, NEW e \in 0..MaxChanges
  PROVE  Listed(r, g, e) \in Board
BY DEF TypeInv, TypeOK, Listed, Board, Rows, Item

\* The initial state is well typed.
LEMMA InitType == Init => TypeInv
<1> SUFFICES ASSUME Init PROVE TypeInv
  OBVIOUS
<1> USE HumanGatesAssumption DEF Init
<1>1. tags \in [Item -> SUBSET TagsOf(kind)]
  BY DEF GivenTags
<1>2. target \in TagsOf(kind) /\ kind \in Kinds
  BY DEF FirstTarget, TagsOf, AgentReady
<1>3. relabels \in [Senders -> [item : Item, remove : TagsOf(kind)] \cup {None}]
  OBVIOUS
<1>4. draft \in [rows : Board, chosen : Number \cup {None}, label : {AgentReady, Docs}]
  BY NoRowsType
<1>5. clones \in [Number -> Item \cup {None}] /\ shown \subseteq NumbersIn(rows)
  BY DEF NoRows
<1>6. TypeOK
  BY <1>1, <1>2, <1>3, <1>4, <1>5, NoRowsType DEF TypeOK
<1>7. Bounds
  BY DEF Bounds
<1> QED BY <1>6, <1>7 DEF TypeInv

\* Every step keeps the types.
LEMMA NextType == TypeInv /\ [Next]_vars => TypeInv'
<1> SUFFICES ASSUME TypeInv, [Next]_vars PROVE TypeInv'
  OBVIOUS
<1> USE HumanGatesAssumption
<1> USE DEF TypeInv, TypeOK, Bounds, github, board
<1>t. CASE \E i \in Item : TagsChange(i)
  <2> PICK i \in Item : TagsChange(i)
    BY <1>t
  <2>1. tags' \in [Item -> SUBSET TagsOf(kind')]
    BY DEF TagsChange, GivenTags
  <2>2. spell' \in [Item -> 0..MaxChanges] /\ \A j \in Item : spell'[j] <= changes'
    BY DEF TagsChange, Change, May
  <2> QED
    BY <2>1, <2>2, SMTT(30) DEF TagsChange, Change, May, Polls
<1>u. CASE \E r \in Repo \cup {NoRepo} : ChangeUrl(r)
  BY <1>u, SMTT(30) DEF ChangeUrl, Change, May, Polls
<1>l. CASE \E g \in {AgentReady, Docs} : ChangeLabel(g)
  BY <1>l, NoRowsType DEF ChangeLabel, Change, May, Polls, TagsOf, NoRows, NumbersIn
<1>r. CASE Rehost
  BY <1>r, NoRowsType DEF Rehost, Change, May, Polls, NoRows, NumbersIn
<1>p1. CASE PollReads
  BY <1>p1 DEF PollReads, Polls
<1>p2. CASE PollFetches
  BY <1>p2, ListedType, SMTT(30) DEF PollFetches, Polls, Messages
<1>p3. CASE PullStarts
  BY <1>p3, SMTT(30) DEF PullStarts, Polls, Board, Rows, Item, NumberOf
<1>p4. CASE PullEnds
  BY <1>p4 DEF PullEnds, Polls, Messages
<1>p5. CASE PollFails
  BY <1>p5 DEF PollFails, Change, May
<1>a1. CASE ApplyList
  <2> DEFINE list == Head(queue).list
  <2>1. list \in Board
    BY <1>a1 DEF ApplyList, Messages
  <2>2. queue' \in Seq(Messages) /\ Len(queue') <= Len(queue)
    BY <1>a1 DEF ApplyList
  <2>3. /\ rows' \in Board /\ shown' \subseteq NumbersIn(rows')
        /\ hidden' \subseteq Number /\ sequence' \subseteq Number
        /\ clones' \in [Number -> Item \cup {None}]
    <3>1. CASE kind = "dispatcher"
      <4>1. SyncTickets(list)
        BY <1>a1, <3>1 DEF ApplyList
      <4>2. NumbersIn(list) \subseteq Number /\ rows' = list
        BY <4>1 DEF SyncTickets, NumbersIn
      <4>3. shown \ (NumbersIn(rows) \ NumbersIn(list)) \subseteq NumbersIn(list)
        BY DEF NumbersIn
      <4> QED
        BY <2>1, <4>1, <4>2, <4>3 DEF SyncTickets, TicketRows
    <3>2. CASE kind # "dispatcher"
      <4>1. SyncRows(list)
        BY <1>a1, <3>2 DEF ApplyList
      <4>2. rows' \in Board
        BY <2>1, <4>1 DEF SyncRows, Board
      <4>3. shown' \subseteq NumbersIn(rows')
        BY <4>1 DEF SyncRows, NumbersIn
      <4>4. \A n \in Number : CloneOf(n) \in Item \cup {None}
        BY DEF CloneOf
      <4>5. clones' \in [Number -> Item \cup {None}]
        BY <4>1, <4>4 DEF SyncRows
      <4> QED
        BY <4>1, <4>2, <4>3, <4>5 DEF SyncRows
    <3> QED BY <3>1, <3>2
  <2> QED
    BY <1>a1, <2>2, <2>3 DEF ApplyList, Polls
<1>a2. CASE ApplyPulled
  BY <1>a2 DEF ApplyPulled, Messages, Polls
<1>a3. CASE \E s \in Senders : Relabel(s)
  <2> PICK s \in Senders : Relabel(s)
    BY <1>a3
  <2>0. relabels[s] \in [item : Item, remove : TagsOf(kind)] /\ kind' = kind /\ kind = "dispatcher"
    BY SMTT(30) DEF Relabel
  <2>1. relabels' \in [Senders -> [item : Item, remove : TagsOf(kind)] \cup {None}]
    BY DEF Relabel
  <2>2. tags' \in [Item -> SUBSET TagsOf(kind)]
    BY <2>0 DEF Relabel, Relabelled, TagsOf
  <2>3. /\ rows' \in Board /\ shown' \subseteq NumbersIn(rows')
        /\ hidden' \subseteq Number /\ sequence' \subseteq Number
        /\ clones' \in [Number -> Item \cup {None}]
    BY <2>0, ZenonT(30) DEF Relabel, RemoveTicket, NumbersIn, Board
  <2>4. changes' \in 0..MaxChanges /\ changes <= changes'
    BY DEF Relabel, Change, May
  <2> QED
    BY <2>0, <2>1, <2>2, <2>3, <2>4 DEF Relabel, Polls
<1>a4. CASE Release
  BY <1>a4 DEF Release, PlacedInSequence, Polls
<1>k1. CASE \E n \in Number : PressTicket(n)
  <2> PICK n \in Number : PressTicket(n)
    BY <1>k1
  <2>1. rows[n] \in Rows /\ kind' = kind /\ kind = "dispatcher"
    BY DEF PressTicket, Clickable, Board
  <2>2. rows[n].item \in Item /\ RepoOf(rows[n].item) \in Repo
    BY <2>1 DEF Rows, RepoOf, Item
  <2>3. orders' \in Seq(Orders) /\ Len(orders') <= MaxOrders
    BY <2>1, <2>2 DEF PressTicket, Order, Orders
  <2>4. relabels' \in [Senders -> [item : Item, remove : TagsOf(kind)] \cup {None}]
    BY <2>1, <2>2 DEF PressTicket
  <2> QED
    BY <2>1, <2>3, <2>4 DEF PressTicket, Polls
<1>k2. CASE \E n \in Number : PressRow(n)
  <2> PICK n \in Number : PressRow(n)
    BY <1>k2
  <2>1. rows[n] \in Rows /\ url \in Repo
    BY DEF PressRow, Clickable, Board
  <2>2. orders' \in Seq(Orders) /\ Len(orders') <= MaxOrders
    BY <2>1 DEF PressRow, Order, Orders
  <2>3. rows' \in Board /\ shown' \subseteq NumbersIn(rows') /\ hidden' \subseteq Number
    BY DEF PressRow, NumbersIn, Board
  <2> QED
    BY <2>2, <2>3 DEF PressRow, Polls
<1>k3. CASE \E n \in Number : PressPull(n)
  BY <1>k3, SMTT(30) DEF PressPull, Clickable, Change, May, Polls
<1>k4. CASE \E n \in Number : Dismiss(n)
  BY <1>k4 DEF Dismiss, Clickable, Board, NumbersIn, Polls
<1>k5. CASE \E n \in Number : Drag(n)
  BY <1>k5 DEF Drag, Clickable, Change, May, Polls
<1>v1. CASE \E r \in Repo, g \in {AgentReady, Docs} : VoiceLists(r, g)
  <2> PICK r \in Repo, g \in {AgentReady, Docs} : VoiceLists(r, g)
    BY <1>v1
  <2>1. Listed(r, g, epoch) \in Board
    BY ListedType
  <2>2. draft' \in [rows : Board, chosen : Number \cup {None}, label : {AgentReady, Docs}]
    BY <2>1 DEF VoiceLists
  <2> QED
    BY <2>2 DEF VoiceLists, Change, May, Polls
<1>v2. CASE \E n \in Number : VoiceChooses(n)
  <2> PICK n \in Number : VoiceChooses(n)
    BY <1>v2
  <2>1. draft' \in [rows : Board, chosen : Number \cup {None}, label : {AgentReady, Docs}]
    BY DEF VoiceChooses
  <2>2. draft'.rows = draft.rows
    BY DEF VoiceChooses
  <2> QED
    BY <2>1, <2>2 DEF VoiceChooses, Polls
<1>v3. CASE VoiceSends
  <2> DEFINE row == draft.rows[draft.chosen]
  <2>1. row \in Rows /\ kind' = kind /\ kind = "dispatcher"
    BY <1>v3 DEF VoiceSends, Board, NoRows
  <2>2. row.item \in Item /\ RepoOf(row.item) \in Repo
    BY <2>1 DEF Rows, RepoOf, Item
  <2>3. orders' \in Seq(Orders) /\ Len(orders') <= MaxOrders
    BY <1>v3, <2>1, <2>2 DEF VoiceSends, Order, Orders
  <2>4. relabels' \in [Senders -> [item : Item, remove : TagsOf(kind)] \cup {None}]
    BY <1>v3, <2>1, <2>2 DEF VoiceSends, TagsOf
  <2> QED
    BY <1>v3, <2>1, <2>3, <2>4 DEF VoiceSends, Polls
<1>s. CASE UNCHANGED vars
  BY <1>s DEF vars, Polls
<1> QED
  BY <1>t, <1>u, <1>l, <1>r, <1>p1, <1>p2, <1>p3, <1>p4, <1>p5, <1>a1, <1>a2, <1>a3, <1>a4,
     <1>k1, <1>k2, <1>k3, <1>k4, <1>k5, <1>v1, <1>v2, <1>v3, <1>s
     DEF Next, PollNext, UiNext, Senders

\* Every reachable state is well typed, and a widget row always belongs to an
\* item that the gate knows, for any repositories, numbers and bounds.
THEOREM TypeCorrect == Spec => []TypeOK
<1>1. TypeInv => TypeOK
  BY DEF TypeInv
<1> QED
  BY <1>1, InitType, NextType, PTL DEF Spec

-----------------------------------------------------------------------------
(***************************************************************************)
(* A ticket that is taken was sent.                                        *)
(***************************************************************************)

Sent(i) == \E k \in DOMAIN orders : orders[k].row.item = i

\* A click that will change the labels has sent its order before.
TakenInv ==
  /\ TakenWasSent
  /\ \A s \in Senders : relabels[s] # None => Sent(relabels[s].item)

\* Orders are never taken back, and the one that is added is the last.
LEMMA OrderAppended ==
  ASSUME TypeInv, NEW o \in Orders, orders' = Append(orders, o)
  PROVE  Sent(o.row.item)' /\ \A i : Sent(i) => Sent(i)'
<1> orders \in Seq(Orders)
  BY DEF TypeInv, TypeOK
<1>1. /\ DOMAIN orders' = 1..(Len(orders) + 1)
      /\ \A k \in DOMAIN orders : orders'[k] = orders[k]
      /\ orders'[Len(orders) + 1] = o
  OBVIOUS
<1> QED
  BY <1>1 DEF Sent

\* The senders send, and note what they will relabel.
LEMMA SentFirst ==
  ASSUME TypeInv, TakenInv, NEW s \in Senders, NEW row \in Rows, NEW repo \in Repo,
         NEW how \in {"publish", "xadd"}, NEW remove,
         orders' = Append(orders, Order(row, repo, how)),
         relabels' = [relabels EXCEPT ![s] = [item |-> row.item, remove |-> remove]],
         tags' = tags
  PROVE  TakenInv'
<1>1. Order(row, repo, how) \in Orders /\ Order(row, repo, how).row = row
  BY DEF Order, Orders
<1>2. Sent(row.item)' /\ \A i : Sent(i) => Sent(i)'
  BY <1>1, OrderAppended
<1>3. relabels \in [Senders -> [item : Item, remove : TagsOf(kind)] \cup {None}]
  BY DEF TypeInv, TypeOK
<1>4. (\A t \in Senders : relabels[t] # None => Sent(relabels[t].item))'
  <2> SUFFICES ASSUME NEW t \in Senders, relabels'[t] # None PROVE Sent(relabels[t].item)'
    OBVIOUS
  <2>1. CASE t = s
    BY <1>1, <1>2, <1>3, <2>1 DEF Sent
  <2>2. CASE t # s
    BY <1>2, <1>3, <2>2 DEF TakenInv, Sent
  <2> QED BY <2>1, <2>2
<1>5. TakenWasSent'
  BY <1>2 DEF TakenInv, TakenWasSent, Sent
<1> QED
  BY <1>4, <1>5 DEF TakenInv

\* Every step keeps the invariant.
LEMMA NextTaken == TypeInv /\ TakenInv /\ [Next]_vars => TakenInv'
<1> SUFFICES ASSUME TypeInv, TakenInv, [Next]_vars PROVE TakenInv'
  OBVIOUS
<1>same. ASSUME UNCHANGED <<tags, orders, relabels>> PROVE TakenInv'
  BY <1>same DEF TakenInv, TakenWasSent, Sent
<1>t. CASE \E i \in Item : TagsChange(i)
  <2> PICK i \in Item, g \in GivenTags(kind) :
        tags' = [tags EXCEPT ![i] = g] /\ UNCHANGED <<orders, relabels>>
    BY <1>t DEF TagsChange
  <2>1. InProgress \notin g
    BY DEF GivenTags
  <2>2. \A j \in Item : InProgress \in tags'[j] => InProgress \in tags[j]
    BY <2>1 DEF TypeInv, TypeOK
  <2> QED
    BY <2>2 DEF TakenInv, TakenWasSent, Sent
<1>a3. CASE \E s \in Senders : Relabel(s)
  <2> PICK s \in Senders : Relabel(s)
    BY <1>a3
  <2>1. relabels \in [Senders -> [item : Item, remove : TagsOf(kind)] \cup {None}]
    BY DEF TypeInv, TypeOK
  <2>2. \A j \in Item : InProgress \in tags'[j] =>
          InProgress \in tags[j] \/ j = relabels[s].item
    BY <2>1 DEF Relabel, TypeInv, TypeOK
  <2>3. orders' = orders /\ \A t \in Senders : relabels'[t] \in {None, relabels[t]}
    BY <2>1 DEF Relabel
  <2>4. Sent(relabels[s].item)
    BY DEF Relabel, TakenInv
  <2> QED
    BY <2>2, <2>3, <2>4 DEF TakenInv, TakenWasSent, Sent
<1>k1. CASE \E n \in Number : PressTicket(n)
  <2> PICK n \in Number : PressTicket(n)
    BY <1>k1
  <2>1. rows[n] \in Rows /\ RepoOf(rows[n].item) \in Repo
    BY DEF PressTicket, Clickable, TypeInv, TypeOK, Board, Rows, RepoOf, Item
  <2>2. /\ orders' = Append(orders, Order(rows[n], RepoOf(rows[n].item), "publish"))
        /\ relabels' = [relabels EXCEPT !["gate"] = [item |-> rows[n].item, remove |-> target]]
        /\ tags' = tags
    BY DEF PressTicket, github
  <2> QED
    BY <2>1, <2>2, SentFirst DEF Senders
<1>v3. CASE VoiceSends
  <2> DEFINE row == draft.rows[draft.chosen]
  <2>1. row \in Rows /\ RepoOf(row.item) \in Repo
    BY <1>v3 DEF VoiceSends, TypeInv, TypeOK, Board, Rows, RepoOf, Item
  <2>2. /\ orders' = Append(orders, Order(row, RepoOf(row.item), "xadd"))
        /\ relabels' = [relabels EXCEPT !["voice"] = [item |-> row.item, remove |-> draft.label]]
        /\ tags' = tags
    BY <1>v3 DEF VoiceSends, github
  <2> QED
    BY <2>1, <2>2, SentFirst DEF Senders
<1>k2. CASE \E n \in Number : PressRow(n)
  <2> PICK n \in Number : PressRow(n)
    BY <1>k2
  <2>1. rows[n] \in Rows /\ url \in Repo
    BY DEF PressRow, Clickable, TypeInv, TypeOK, Board
  <2>2. /\ orders' = Append(orders, Order(rows[n], url, "publish"))
        /\ Order(rows[n], url, "publish") \in Orders
        /\ UNCHANGED <<tags, relabels>>
    BY <2>1 DEF PressRow, github, Order, Orders
  <2>3. \A i : Sent(i) => Sent(i)'
    BY <2>2, OrderAppended
  <2> QED
    BY <2>2, <2>3 DEF TakenInv, TakenWasSent, Sent
<1>o. CASE \/ \E r \in Repo \cup {NoRepo} : ChangeUrl(r)
           \/ \E g \in {AgentReady, Docs} : ChangeLabel(g)
           \/ Rehost \/ PollNext \/ PollFails \/ ApplyList \/ ApplyPulled \/ Release
           \/ UNCHANGED vars
  BY <1>o, <1>same
     DEF ChangeUrl, ChangeLabel, Rehost, PollNext, PollReads, PollFetches, PullStarts, PullEnds,
         PollFails, ApplyList, ApplyPulled, Release, github, vars
<1>p. CASE \/ \E n \in Number : PressPull(n) \/ Dismiss(n) \/ Drag(n) \/ VoiceChooses(n)
           \/ \E r \in Repo, g \in {AgentReady, Docs} : VoiceLists(r, g)
  BY <1>p, <1>same DEF PressPull, Dismiss, Drag, VoiceChooses, VoiceLists, github
<1> QED
  BY <1>t, <1>a3, <1>k1, <1>k2, <1>v3, <1>o, <1>p DEF Next, UiNext, Senders

\* A ticket on GitHub that says an agent has it was sent to a factory, for any
\* repositories, numbers and interferences: no click, draft or list that is old
\* when it is used relabels a ticket whose order is not out.
THEOREM TakenWasSentEver == Spec => []TakenWasSent
<1>1. Init => TypeInv /\ TakenInv
  <2> SUFFICES ASSUME Init PROVE TakenInv
    BY InitType
  <2>1. \A i \in Item : InProgress \notin tags[i]
    BY DEF Init, GivenTags
  <2> QED
    BY <2>1 DEF Init, TakenInv, TakenWasSent
<1>2. TypeInv /\ TakenInv /\ [Next]_vars => TypeInv' /\ TakenInv'
  BY NextType, NextTaken
<1>3. TakenInv => TakenWasSent
  BY DEF TakenInv
<1> QED
  BY <1>1, <1>2, <1>3, PTL DEF Spec

-----------------------------------------------------------------------------
(***************************************************************************)
(* No conflict is sent twice.  What is sent is hidden for as long as a     *)
(* list may still bring it back: a row that a list lacks is never listed   *)
(* again, since its pull request has another verdict by then or the gate   *)
(* another repository, and lists are applied in the order of their making. *)
(***************************************************************************)

\* A row may only be in a list at its number.
In(list, o) == list[NumberOf(o.item)] = o
Lacks(list, o) == list[NumberOf(o.item)] = None

Ordered(o) == \E k \in DOMAIN orders : orders[k].row = o

\* The row was sent, is on the board, or is in one of the first j lists.
Seen(j, o) ==
  Ordered(o) \/ In(rows, o) \/ \E i \in 1..j : i \in DOMAIN queue /\ In(queue[i].list, o)

\* The poll thread will not list the row, now or later.
Dead(o) ==
  \/ spell[o.item] > o.spell
  \/ epoch > o.epoch /\ (poll = None \/ poll.epoch > o.epoch)

\* Nor is it in a list after the k-th.
OutAfter(k, o) == Dead(o) /\ \A l \in DOMAIN queue : l > k => ~ In(queue[l].list, o)

\* A row says what was so when it was listed: nothing of it is from later.
Genuine(o) ==
  /\ o.spell <= spell[o.item]
  /\ o.spell = spell[o.item] => "failure" \in tags[o.item]
  /\ o.epoch <= epoch
  /\ o.epoch = epoch => RepoOf(o.item) = url
  /\ poll # None => o.epoch <= poll.epoch /\ (o.epoch = poll.epoch => RepoOf(o.item) = poll.repo)

\* The poll thread of AutoIntegrate only makes lists, of the repository that the
\* gate is on or was on.
OnlyLists ==
  /\ jobs = <<>> /\ target = "failure"
  /\ poll # None =>
       /\ poll.what = "list" /\ poll.target = "failure" /\ poll.epoch <= epoch
       /\ poll.epoch = epoch => poll.repo = url
  /\ \A j \in DOMAIN queue : queue[j].what = "sync"

Numbered(list) == \A n \in Number : list[n] # None => NumberOf(list[n].item) = n
AllNumbered == Numbered(rows) /\ \A j \in DOMAIN queue : Numbered(queue[j].list)

AllGenuine == \A o \in Rows : Seen(Len(queue), o) => Genuine(o)
SentIsOff == \A o \in Rows : Ordered(o) => ~ In(rows, o)
SentIsHidden == \A o \in Rows : Ordered(o) => NumberOf(o.item) \in hidden \/ OutAfter(0, o)
LackingIsOut ==
  \A o \in Rows, k \in DOMAIN queue :
    Seen(k - 1, o) /\ Lacks(queue[k].list, o) => OutAfter(k, o)

ConflictInv ==
  kind = "integrator" =>
    /\ OnlyLists /\ AllNumbered /\ AllGenuine
    /\ SentIsOff /\ SentIsHidden /\ LackingIsOut
    /\ OneAgentPerConflict

\* Whoever leaves the lists, the board and the orders alone only has to keep
\* what is known of single rows.
LEMMA RowsStay ==
  ASSUME TypeInv, ConflictInv, kind = "integrator", kind' = kind,
         UNCHANGED <<orders, rows, queue, hidden>>, OnlyLists',
         \A o \in Rows : Genuine(o) => Genuine(o)' /\ (Dead(o) => Dead(o)')
  PROVE  ConflictInv'
<1> USE DEF ConflictInv
<1>1. \A o \in Rows : /\ Ordered(o)' <=> Ordered(o)
                      /\ \A j : Seen(j, o)' <=> Seen(j, o)
  BY DEF Ordered, Seen, In
<1>2. AllGenuine'
  BY <1>1 DEF AllGenuine
<1>3. \A o \in Rows, j \in Nat : Seen(j, o) /\ j <= Len(queue) => Genuine(o)
  BY DEF AllGenuine, Seen, TypeInv, TypeOK
<1>4. \A o \in Rows : \A k : Genuine(o) /\ OutAfter(k, o) => OutAfter(k, o)'
  BY DEF OutAfter, In
<1>5. \A o \in Rows : Ordered(o) => Seen(0, o)
  BY DEF Seen
<1>6. SentIsHidden'
  BY <1>1, <1>3, <1>4, <1>5 DEF SentIsHidden, TypeInv, TypeOK
<1>7. LackingIsOut'
  <2> SUFFICES ASSUME NEW o \in Rows, NEW k \in DOMAIN queue,
                      Seen(k - 1, o), Lacks(queue[k].list, o)
               PROVE  OutAfter(k, o)'
    BY <1>1 DEF LackingIsOut, Lacks
  <2>1. k - 1 \in Nat /\ k - 1 <= Len(queue)
    BY DEF TypeInv, TypeOK
  <2> QED
    BY <1>3, <1>4, <2>1 DEF LackingIsOut
<1>8. AllNumbered' /\ SentIsOff' /\ OneAgentPerConflict'
  BY <1>1 DEF AllNumbered, Numbered, SentIsOff, OneAgentPerConflict, In
<1> QED
  BY <1>2, <1>6, <1>7, <1>8

\* A row that is dead is in no list that the poll thread makes.
LEMMA DeadIsNotListed ==
  ASSUME TypeInv, OnlyLists, poll # None, NEW o \in Rows, Dead(o)
  PROVE  ~ In(Listed(poll.repo, poll.target, poll.epoch), o)
<1> DEFINE r == poll.repo
           n == NumberOf(o.item)
<1> SUFFICES ASSUME In(Listed(r, poll.target, poll.epoch), o) PROVE FALSE
  OBVIOUS
<1>1. n \in Number
  BY DEF Rows, Item, NumberOf
<1>2. o = [item |-> <<r, n>>, spell |-> spell[<<r, n>>], epoch |-> poll.epoch]
  BY <1>1, NoneAssumption DEF In, Listed
<1>3. o.item = <<r, n>> /\ o.spell = spell[o.item] /\ o.epoch = poll.epoch
  BY <1>2
<1>4. poll.epoch \in 0..MaxChanges /\ epoch \in 0..MaxChanges /\ spell[o.item] \in 0..MaxChanges
  BY DEF TypeInv, TypeOK, OnlyLists, Polls, Rows
<1> QED
  BY <1>3, <1>4 DEF Dead

\* The click: a row leaves the board and is hidden.
LEMMA PressIsOnce ==
  ASSUME TypeInv, ConflictInv, kind = "integrator", NEW n \in Number, PressRow(n)
  PROVE  ConflictInv'
<1> DEFINE row == rows[n]
<1>1. row \in Rows /\ NumberOf(row.item) = n /\ In(rows, row) /\ kind' = kind
  BY DEF PressRow, Clickable, ConflictInv, AllNumbered, Numbered, In, TypeInv, TypeOK, Board
<1>2. \A o \in Rows : Ordered(o)' <=> Ordered(o) \/ o = row
  <2>1. /\ orders \in Seq(Orders) /\ orders' = Append(orders, Order(row, url, "publish"))
        /\ Order(row, url, "publish").row = row
    BY DEF PressRow, TypeInv, TypeOK, Order
  <2>2. /\ DOMAIN orders' = DOMAIN orders \cup {Len(orders) + 1}
        /\ \A k \in DOMAIN orders : orders'[k] = orders[k]
        /\ orders'[Len(orders) + 1] = Order(row, url, "publish")
    BY <2>1
  <2> QED
    BY <2>1, <2>2 DEF Ordered
<1>3. /\ \A o \in Rows : In(rows', o) => In(rows, o) /\ o # row
      /\ UNCHANGED <<queue, poll, epoch, spell, tags, url, jobs, target>>
      /\ hidden' = hidden \cup {n}
  BY <1>1, NoneAssumption DEF PressRow, github, In, TypeInv, TypeOK, Board, Rows, Item, NumberOf
<1>4. \A o \in Rows : \A j : Seen(j, o)' => Seen(j, o)
  BY <1>1, <1>2, <1>3 DEF Seen, In
<1>5. \A o \in Rows : \A k : OutAfter(k, o)' <=> OutAfter(k, o)
  BY <1>3 DEF OutAfter, Dead, In
<1>6. OnlyLists' /\ AllNumbered'
  BY <1>1, <1>3 DEF ConflictInv, OnlyLists, AllNumbered, Numbered, PressRow, TypeInv, TypeOK, Board
<1>7. AllGenuine' /\ LackingIsOut'
  BY <1>3, <1>4, <1>5 DEF ConflictInv, AllGenuine, LackingIsOut, Genuine, Lacks
<1>8. SentIsOff' /\ SentIsHidden'
  BY <1>1, <1>2, <1>3, <1>5 DEF ConflictInv, SentIsOff, SentIsHidden, In
<1>9. OneAgentPerConflict'
  <2>1. ~ Ordered(row)
    BY <1>1 DEF ConflictInv, SentIsOff
  <2>2. /\ orders \in Seq(Orders) /\ orders' = Append(orders, Order(row, url, "publish"))
        /\ Order(row, url, "publish").row = row
    BY DEF PressRow, TypeInv, TypeOK, Order
  <2>3. /\ DOMAIN orders' = DOMAIN orders \cup {Len(orders) + 1}
        /\ \A k \in DOMAIN orders : orders'[k] = orders[k]
        /\ orders'[Len(orders) + 1].row = row
    BY <2>2
  <2>4. \A k \in DOMAIN orders : orders[k].row # row
    BY <2>1 DEF Ordered
  <2> QED
    BY <1>1, <2>3, <2>4 DEF ConflictInv, OneAgentPerConflict
<1> QED
  BY <1>6, <1>7, <1>8, <1>9 DEF ConflictInv

\* The poll thread puts a list behind the others.
LEMMA FetchIsLast ==
  ASSUME TypeInv, ConflictInv, kind = "integrator", PollFetches
  PROVE  ConflictInv'
<1> DEFINE list == Listed(poll.repo, poll.target, poll.epoch)
           last == Len(queue) + 1
<1> USE DEF ConflictInv
<1>0. /\ UNCHANGED <<kind, tags, spell, url, target, rows, hidden, orders, epoch, jobs>>
      /\ poll # None /\ poll' = None /\ OnlyLists
  BY DEF PollFetches, github, board
<1>1. /\ queue \in Seq(Messages) /\ last \in Nat /\ Len(queue') = last
      /\ DOMAIN queue' = DOMAIN queue \cup {last} /\ last \notin DOMAIN queue
      /\ \A k \in DOMAIN queue : queue'[k] = queue[k] /\ k < last
      /\ queue'[last].list = list /\ queue'[last].what = "sync"
  BY DEF PollFetches, TypeInv, TypeOK
<1>2. \A o \in Rows : Dead(o) => Dead(o)' /\ ~ In(list, o)
  <2> SUFFICES ASSUME NEW o \in Rows, Dead(o) PROVE Dead(o)' /\ ~ In(list, o)
    OBVIOUS
  <2>1. ~ In(list, o)
    BY <1>0, DeadIsNotListed
  <2> QED
    BY <1>0, <2>1 DEF Dead
<1>3. \A o \in Rows : \A k : OutAfter(k, o) => OutAfter(k, o)'
  BY <1>1, <1>2 DEF OutAfter, In
<1>4. \A o \in Rows : Genuine(o) => Genuine(o)'
  BY <1>0 DEF Genuine
<1>5. \A o \in Rows : In(list, o) => Genuine(o)'
  <2> SUFFICES ASSUME NEW o \in Rows, In(list, o) PROVE Genuine(o)'
    OBVIOUS
  <2> DEFINE r == poll.repo
             n == NumberOf(o.item)
  <2>1. n \in Number
    BY DEF Rows, Item, NumberOf
  <2>2. /\ o = [item |-> <<r, n>>, spell |-> spell[<<r, n>>], epoch |-> poll.epoch]
        /\ "failure" \in tags[<<r, n>>]
    BY <1>0, <2>1, NoneAssumption DEF In, Listed, OnlyLists
  <2>3. o.item = <<r, n>> /\ o.spell = spell[o.item] /\ o.epoch = poll.epoch /\ RepoOf(o.item) = r
    BY <2>2 DEF RepoOf
  <2>4. spell[o.item] \in Nat
    BY DEF TypeInv, TypeOK, Rows
  <2> QED
    BY <1>0, <2>2, <2>3, <2>4 DEF Genuine, OnlyLists
<1>6. \A o \in Rows : Genuine(o) /\ Lacks(list, o) => Dead(o)'
  <2> SUFFICES ASSUME NEW o \in Rows, Genuine(o), Lacks(list, o) PROVE Dead(o)'
    OBVIOUS
  <2> DEFINE r == poll.repo
             n == NumberOf(o.item)
  <2>1. /\ n \in Number /\ o.item = <<RepoOf(o.item), n>> /\ RepoOf(o.item) \in Repo
        /\ o.item \in Item /\ o.spell \in Nat /\ o.epoch \in Nat
    BY DEF Rows, Item, NumberOf, RepoOf
  <2>2. poll.epoch \in Nat /\ epoch \in Nat /\ spell[o.item] \in Nat /\ poll.epoch <= epoch
    BY <1>0, <2>1 DEF TypeInv, TypeOK, OnlyLists, Polls
  <2>3. CASE RepoOf(o.item) # r
    <3>1. o.epoch < poll.epoch
      BY <1>0, <2>1, <2>2, <2>3 DEF Genuine
    <3> QED
      BY <1>0, <2>1, <2>2, <3>1 DEF Dead
  <2>4. CASE RepoOf(o.item) = r
    <3> DEFINE entry == [item |-> <<r, n>>, spell |-> spell[<<r, n>>], epoch |-> poll.epoch]
    <3>1. entry \in Rows
      <4>1. <<r, n>> \in Item
        BY <2>1, <2>4
      <4>2. poll.epoch \in 0..MaxChanges /\ spell[<<r, n>>] \in 0..MaxChanges
        BY <1>0, <4>1 DEF TypeInv, TypeOK, OnlyLists, Polls
      <4> QED
        BY <4>1, <4>2 DEF Rows
    <3>2. "failure" \notin tags[o.item]
      BY <1>0, <2>1, <2>4, <3>1, NoneAssumption DEF Lacks, Listed, OnlyLists
    <3>3. o.spell < spell[o.item]
      BY <2>1, <2>2, <3>2 DEF Genuine
    <3> QED
      BY <1>0, <3>3 DEF Dead
  <2> QED BY <2>3, <2>4
<1>7. \A o \in Rows : /\ Ordered(o)' <=> Ordered(o)
                      /\ \A j \in Nat : j < last /\ Seen(j, o)' => Seen(j, o)
                      /\ Seen(Len(queue), o)' => Seen(Len(queue), o) \/ In(list, o)
  <2>1. \A o \in Rows : Ordered(o)' <=> Ordered(o)
    BY <1>0 DEF Ordered
  <2>2. \A o \in Rows : In(rows, o)' <=> In(rows, o)
    BY <1>0 DEF In
  <2>3. DOMAIN queue = 1..Len(queue) /\ Len(queue) \in Nat
    BY <1>1
  <2>4. \A i \in DOMAIN queue' : /\ i # last => i \in DOMAIN queue /\ queue'[i] = queue[i]
                                 /\ i = last => queue'[i].list = list
    BY <1>1
  <2>5. \A o \in Rows, j \in Nat : j < last /\ Seen(j, o)' => Seen(j, o)
    <3> SUFFICES ASSUME NEW o \in Rows, NEW j \in Nat, j < last, Seen(j, o)' PROVE Seen(j, o)
      OBVIOUS
    <3>1. \A i \in 1..j : i # last
      BY <1>1
    <3> QED
      BY <2>1, <2>2, <2>4, <3>1 DEF Seen, In
  <2>6. \A o \in Rows : Seen(Len(queue), o)' => Seen(Len(queue), o) \/ In(list, o)
    <3> SUFFICES ASSUME NEW o \in Rows, Seen(Len(queue), o)', ~ In(list, o) PROVE Seen(Len(queue), o)
      OBVIOUS
    <3>1. \A i \in DOMAIN queue' : In(queue'[i].list, o) =>
            i \in 1..Len(queue) /\ i \in DOMAIN queue /\ In(queue[i].list, o)
      BY <2>3, <2>4
    <3> QED
      BY <2>1, <2>2, <3>1 DEF Seen, In
  <2> QED
    BY <2>1, <2>5, <2>6
<1>8. OnlyLists' /\ AllNumbered'
  <2>1. Numbered(list)
    BY DEF Numbered, Listed, NumberOf
  <2> QED
    BY <1>0, <1>1, <2>1 DEF OnlyLists, AllNumbered, Numbered
<1>9. AllGenuine'
  BY <1>4, <1>5, <1>7 DEF AllGenuine
<1>10. LackingIsOut'
  <2> SUFFICES ASSUME NEW o \in Rows, NEW k \in DOMAIN queue', Seen(k - 1, o)',
                      Lacks(queue'[k].list, o)
               PROVE  OutAfter(k, o)'
    BY DEF LackingIsOut, Lacks
  <2>1. CASE k \in DOMAIN queue
    <3>1. Seen(k - 1, o) /\ queue'[k] = queue[k]
      BY <1>1, <1>7, <2>1
    <3> QED
      BY <1>3, <2>1, <3>1 DEF LackingIsOut
  <2>2. CASE k = last
    <3>1. Seen(Len(queue), o) /\ Lacks(list, o)
      BY <1>1, <1>7, <2>2
    <3>2. Dead(o)'
      BY <1>6, <3>1 DEF AllGenuine
    <3> QED
      BY <1>1, <2>2, <3>2 DEF OutAfter
  <2> QED BY <1>1, <2>1, <2>2
<1>11. SentIsHidden' /\ SentIsOff' /\ OneAgentPerConflict'
  BY <1>0, <1>3, <1>7 DEF SentIsHidden, SentIsOff, OneAgentPerConflict, In
<1> QED
  BY <1>8, <1>9, <1>10, <1>11

\* The UI thread takes the first list.
LEMMA ApplyKeepsOff ==
  ASSUME TypeInv, ConflictInv, kind = "integrator", ApplyList
  PROVE  ConflictInv'
<1> DEFINE list == queue[1].list
<1> USE DEF ConflictInv
<1>0. /\ UNCHANGED <<kind, tags, spell, url, target, poll, orders, epoch, jobs>>
      /\ SyncRows(list) /\ queue' = Tail(queue) /\ queue # <<>>
  BY DEF ApplyList, github
<1>1. /\ queue \in Seq(Messages) /\ DOMAIN queue = 1..Len(queue) /\ Len(queue) \in Nat
      /\ 1 \in DOMAIN queue /\ Len(queue') = Len(queue) - 1
      /\ DOMAIN queue' = 1..(Len(queue) - 1)
      /\ \A k \in DOMAIN queue' : queue'[k] = queue[k + 1] /\ k + 1 \in DOMAIN queue
  BY <1>0 DEF TypeInv, TypeOK
<1>2. \A o \in Rows :
        /\ NumberOf(o.item) \in Number
        /\ In(rows, o)' => In(list, o) /\ NumberOf(o.item) \notin hidden
        /\ NumberOf(o.item) \in hidden => NumberOf(o.item) \in hidden' \/ Lacks(list, o)
  <2> SUFFICES ASSUME NEW o \in Rows
               PROVE  /\ NumberOf(o.item) \in Number
                      /\ In(rows, o)' => In(list, o) /\ NumberOf(o.item) \notin hidden
                      /\ NumberOf(o.item) \in hidden =>
                           NumberOf(o.item) \in hidden' \/ Lacks(list, o)
    OBVIOUS
  <2>1. NumberOf(o.item) \in Number
    BY DEF Rows, Item, NumberOf
  <2> QED
    BY <1>0, <2>1, NoneAssumption DEF SyncRows, NumbersIn, In, Lacks
<1>3. \A o \in Rows : Ordered(o)' <=> Ordered(o)
  BY <1>0 DEF Ordered
<1>4. \A o \in Rows, j \in Nat : Seen(j, o)' => Seen(j + 1, o)
  <2> SUFFICES ASSUME NEW o \in Rows, NEW j \in Nat, Seen(j, o)' PROVE Seen(j + 1, o)
    OBVIOUS
  <2>1. CASE Ordered(o)
    BY <2>1 DEF Seen
  <2>2. CASE In(rows, o)'
    BY <1>1, <1>2, <2>2 DEF Seen
  <2>3. CASE \E i \in 1..j : i \in DOMAIN queue' /\ In(queue'[i].list, o)
    <3> PICK i \in 1..j : i \in DOMAIN queue' /\ In(queue'[i].list, o)
      BY <2>3
    <3>1. i + 1 \in 1..(j + 1) /\ i + 1 \in DOMAIN queue /\ In(queue[i + 1].list, o)
      BY <1>1
    <3> QED
      BY <3>1 DEF Seen
  <2> QED
    BY <1>3, <2>1, <2>2, <2>3 DEF Seen, In
<1>5. \A o \in Rows, k \in Nat : OutAfter(k + 1, o) => OutAfter(k, o)'
  <2> SUFFICES ASSUME NEW o \in Rows, NEW k \in Nat, OutAfter(k + 1, o) PROVE OutAfter(k, o)'
    OBVIOUS
  <2>1. Dead(o)'
    BY <1>0 DEF OutAfter, Dead
  <2>2. \A l \in DOMAIN queue' : l > k => ~ In(queue'[l].list, o)
    BY <1>1 DEF OutAfter
  <2> QED
    BY <2>1, <2>2 DEF OutAfter, In
<1>6. OnlyLists'
  BY <1>0, <1>1 DEF OnlyLists
<1>7. AllNumbered'
  <2>1. \A n \in Number : rows'[n] = None \/ rows'[n] = list[n]
    BY <1>0 DEF SyncRows
  <2>2. Numbered(rows')
    BY <1>1, <2>1 DEF AllNumbered, Numbered
  <2>3. \A j \in DOMAIN queue' : Numbered(queue'[j].list)
    BY <1>1 DEF AllNumbered
  <2> QED
    BY <2>2, <2>3 DEF AllNumbered, Numbered
<1>8. AllGenuine'
  <2> SUFFICES ASSUME NEW o \in Rows, Seen(Len(queue), o)' PROVE Genuine(o)'
    BY DEF AllGenuine
  <2>1. Seen(Len(queue), o)
    <3>1. Len(queue') \in Nat /\ Len(queue') + 1 = Len(queue)
      BY <1>1
    <3>2. \A j \in Nat : j = Len(queue') => Seen(j, o)'
      OBVIOUS
    <3> QED BY <1>4, <3>1, <3>2
  <2>2. Genuine(o)
    BY <2>1 DEF AllGenuine
  <2> QED
    BY <1>0, <2>2 DEF Genuine
<1>9. LackingIsOut'
  <2> SUFFICES ASSUME NEW o \in Rows, NEW k \in DOMAIN queue', Seen(k - 1, o)',
                      Lacks(queue'[k].list, o)
               PROVE  OutAfter(k, o)'
    BY DEF LackingIsOut, Lacks
  <2>1. k \in Nat /\ k - 1 \in Nat /\ k + 1 \in DOMAIN queue /\ queue'[k] = queue[k + 1]
    BY <1>1
  <2>2. Seen((k - 1) + 1, o)
    BY <1>4, <2>1
  <2>3. (k - 1) + 1 = (k + 1) - 1
    BY <2>1
  <2>4. OutAfter(k + 1, o)
    BY <2>1, <2>2, <2>3 DEF LackingIsOut
  <2> QED
    BY <1>5, <2>1, <2>4
<1>10. SentIsOff'
  <2> SUFFICES ASSUME NEW o \in Rows, Ordered(o), In(rows, o)' PROVE FALSE
    BY <1>3 DEF SentIsOff
  <2>1. In(list, o) /\ OutAfter(0, o)
    BY <1>2 DEF SentIsHidden
  <2> QED
    BY <1>1, <2>1 DEF OutAfter
<1>11. SentIsHidden'
  <2> SUFFICES ASSUME NEW o \in Rows, Ordered(o), NumberOf(o.item) \notin hidden'
               PROVE  OutAfter(0, o)'
    BY <1>3 DEF SentIsHidden
  <2>1. CASE OutAfter(0, o)
    BY <1>1, <1>5, <2>1 DEF OutAfter
  <2>2. CASE NumberOf(o.item) \in hidden
    <3>1. Lacks(queue[1].list, o) /\ Seen(1 - 1, o)
      BY <1>2, <2>2 DEF Seen
    <3>2. OutAfter(0 + 1, o)
      BY <1>1, <3>1 DEF LackingIsOut
    <3> QED
      BY <1>5, <3>2
  <2> QED
    BY <2>1, <2>2 DEF SentIsHidden
<1>12. OneAgentPerConflict'
  BY <1>0 DEF OneAgentPerConflict
<1> QED
  BY <1>6, <1>7, <1>8, <1>9, <1>10, <1>11, <1>12

\* The window is opened again: nothing of the old one can come back.
LEMMA RehostForgets ==
  ASSUME TypeInv, ConflictInv, kind = "integrator", Rehost
  PROVE  ConflictInv'
<1> USE DEF ConflictInv
<1>0. /\ UNCHANGED <<kind, tags, spell, url, target, orders>>
      /\ epoch' = epoch + 1 /\ epoch \in Nat
      /\ poll' = None /\ queue' = <<>> /\ jobs' = <<>> /\ rows' = NoRows
  BY DEF Rehost, github, TypeInv, TypeOK
<1>1. \A o \in Rows : ~ In(rows, o)'
  BY <1>0, NoneAssumption DEF In, NoRows, Rows, Item, NumberOf
<1>2. \A o \in Rows : /\ Ordered(o)' <=> Ordered(o)
                      /\ \A j : Seen(j, o)' => Ordered(o)
  BY <1>0, <1>1 DEF Ordered, Seen, In
<1>3. \A o \in Rows : Ordered(o) => Genuine(o)
  BY DEF AllGenuine, Seen
<1>4. \A o \in Rows : Genuine(o) => Genuine(o)' /\ Dead(o)'
  BY <1>0 DEF Genuine, Dead, Rows
<1>5. \A o \in Rows : \A k : Genuine(o) => OutAfter(k, o)'
  BY <1>0, <1>4 DEF OutAfter
<1>6. OnlyLists' /\ AllNumbered'
  BY <1>0 DEF OnlyLists, AllNumbered, Numbered, NoRows
<1>7. AllGenuine' /\ SentIsOff' /\ SentIsHidden'
  BY <1>1, <1>2, <1>3, <1>4, <1>5 DEF AllGenuine, SentIsOff, SentIsHidden
<1>8. LackingIsOut' /\ OneAgentPerConflict'
  BY <1>0 DEF LackingIsOut, OneAgentPerConflict
<1> QED
  BY <1>6, <1>7, <1>8

\* Every step keeps the invariant.  Of PRManager's and WorkDispatcher's own steps
\* AutoIntegrate takes none.
LEMMA NextConflict == TypeInv /\ ConflictInv /\ [Next]_vars => ConflictInv'
<1> SUFFICES ASSUME TypeInv, ConflictInv, [Next]_vars PROVE ConflictInv'
  OBVIOUS
<1>k. kind' = kind
  <2>1. CASE PollNext \/ PollFails \/ UiNext \/ Relabel("voice") \/ UNCHANGED vars
    BY <2>1 DEF PollNext, UiNext, PollReads, PollFetches, PullStarts, PullEnds, PollFails,
       ApplyList, ApplyPulled, Relabel, Release, vars
  <2>2. CASE \/ \E i \in Item : TagsChange(i)
             \/ \E r \in Repo \cup {NoRepo} : ChangeUrl(r)
             \/ \E g \in {AgentReady, Docs} : ChangeLabel(g)
             \/ Rehost
    BY <2>2 DEF TagsChange, ChangeUrl, ChangeLabel, Rehost
  <2>3. CASE \E n \in Number :
               PressTicket(n) \/ PressRow(n) \/ PressPull(n) \/ Dismiss(n) \/ Drag(n)
    BY <2>3 DEF PressTicket, PressRow, PressPull, Dismiss, Drag
  <2>4. CASE \/ \E r \in Repo, g \in {AgentReady, Docs} : VoiceLists(r, g)
             \/ \E n \in Number : VoiceChooses(n)
             \/ VoiceSends
    BY <2>4 DEF VoiceLists, VoiceChooses, VoiceSends
  <2> QED
    BY <2>1, <2>2, <2>3, <2>4 DEF Next
<1> SUFFICES ASSUME kind = "integrator" PROVE ConflictInv'
  BY <1>k DEF ConflictInv
<1>0. /\ OnlyLists /\ (\A s \in Senders : relabels[s] = None) /\ draft.rows = NoRows
      /\ \A o \in Rows : o.item \in Item /\ o.spell \in Nat /\ o.epoch \in Nat
      /\ epoch \in Nat /\ (poll # None => poll.epoch \in Nat) /\ \A i \in Item : spell[i] \in Nat
  BY DEF ConflictInv, OnlyLists, TypeInv, TypeOK, Bounds, Rows, Polls
<1>1. CASE \E i \in Item : TagsChange(i)
  <2> PICK i \in Item : TagsChange(i)
    BY <1>1
  <2>1. /\ UNCHANGED <<kind, orders, rows, queue, hidden, poll, epoch, url, target, jobs>>
        /\ spell' = [spell EXCEPT ![i] = @ + 1] /\ spell \in [Item -> 0..MaxChanges]
        /\ \A j \in Item : j # i => tags'[j] = tags[j]
    BY DEF TagsChange, board, TypeInv, TypeOK
  <2>2. \A o \in Rows : Genuine(o) => Genuine(o)' /\ (Dead(o) => Dead(o)')
    BY <1>0, <2>1 DEF Genuine, Dead
  <2>3. OnlyLists'
    BY <1>0, <2>1 DEF OnlyLists
  <2> QED
    BY <2>1, <2>2, <2>3, RowsStay
<1>2. CASE \E r \in Repo \cup {NoRepo} : ChangeUrl(r)
  <2>1. /\ UNCHANGED <<kind, orders, rows, queue, hidden, poll, tags, spell, target, jobs>>
        /\ epoch' = epoch + 1
    BY <1>2 DEF ChangeUrl, board, github
  <2>2. \A o \in Rows : Genuine(o) => Genuine(o)' /\ (Dead(o) => Dead(o)')
    BY <1>0, <2>1 DEF Genuine, Dead
  <2>3. OnlyLists'
    BY <1>0, <2>1 DEF OnlyLists
  <2> QED
    BY <2>1, <2>2, <2>3, RowsStay
<1>3. CASE PollReads
  <2>1. /\ UNCHANGED <<kind, orders, rows, queue, hidden, tags, spell, url, target, epoch, jobs>>
        /\ poll = None
        /\ poll' = [what |-> "list", repo |-> url, target |-> target, epoch |-> epoch]
    BY <1>3 DEF PollReads, board, github
  <2>2. \A o \in Rows : Genuine(o) => Genuine(o)' /\ (Dead(o) => Dead(o)')
    BY <1>0, <2>1 DEF Genuine, Dead
  <2>3. OnlyLists'
    BY <1>0, <2>1 DEF OnlyLists
  <2> QED
    BY <2>1, <2>2, <2>3, RowsStay
<1>4. CASE PollFails
  <2>1. /\ UNCHANGED <<kind, orders, rows, queue, hidden, tags, spell, url, target, epoch, jobs>>
        /\ poll' = None
    BY <1>4 DEF PollFails, board, github
  <2>2. \A o \in Rows : Genuine(o) => Genuine(o)' /\ (Dead(o) => Dead(o)')
    BY <1>0, <2>1 DEF Genuine, Dead
  <2>3. OnlyLists'
    BY <1>0, <2>1 DEF OnlyLists
  <2> QED
    BY <2>1, <2>2, <2>3, RowsStay
<1>5. CASE Release \/ (\E n \in Number : VoiceChooses(n)) \/ UNCHANGED vars
  <2>1. UNCHANGED <<kind, orders, rows, queue, hidden, poll, tags, spell, url, target, epoch, jobs>>
    BY <1>5 DEF Release, VoiceChooses, board, github, vars
  <2>2. \A o \in Rows : Genuine(o) => Genuine(o)' /\ (Dead(o) => Dead(o)')
    BY <2>1 DEF Genuine, Dead
  <2>3. OnlyLists'
    BY <1>0, <2>1 DEF OnlyLists
  <2> QED
    BY <2>1, <2>2, <2>3, RowsStay
<1>6. CASE PollFetches
  BY <1>6, FetchIsLast
<1>7. CASE ApplyList
  BY <1>7, ApplyKeepsOff
<1>8. CASE Rehost
  BY <1>8, RehostForgets
<1>9. CASE \E n \in Number : PressRow(n)
  BY <1>9, PressIsOnce
<1>10. ~ (PullStarts \/ PullEnds \/ (\E s \in Senders : Relabel(s)) \/ VoiceSends)
  <2>1. ~ PullStarts /\ ~ PullEnds
    BY <1>0 DEF OnlyLists, PullStarts, PullEnds
  <2>2. ~ \E s \in Senders : Relabel(s)
    BY <1>0 DEF Relabel
  <2>3. ~ VoiceSends
    BY <1>0 DEF VoiceSends, NoRows, TypeInv, TypeOK
  <2> QED
    BY <2>1, <2>2, <2>3
<1>11. ~ ApplyPulled
  <2>1. queue # <<>> => 1 \in DOMAIN queue /\ Head(queue) = queue[1]
    BY DEF TypeInv, TypeOK
  <2> QED
    BY <1>0, <2>1 DEF ApplyPulled, OnlyLists
<1>12. /\ ~ \E g \in {AgentReady, Docs} : ChangeLabel(g)
       /\ ~ \E n \in Number : PressTicket(n) \/ PressPull(n) \/ Dismiss(n) \/ Drag(n)
       /\ ~ \E r \in Repo, g \in {AgentReady, Docs} : VoiceLists(r, g)
  BY DEF ChangeLabel, PressTicket, PressPull, Dismiss, Drag, VoiceLists
<1> QED
  BY <1>1, <1>2, <1>3, <1>4, <1>5, <1>6, <1>7, <1>8, <1>9, <1>10, <1>11, <1>12
     DEF Next, PollNext, UiNext, Senders

\* AutoIntegrate sends no second agent at one conflict, for any repositories and
\* numbers, however many lists wait for the UI thread and whatever happens to
\* verdicts, the URL and the window between a list and a click.
THEOREM OneAgentEver == Spec => []OneAgentPerConflict
<1>1. Init => TypeInv /\ ConflictInv
  <2> SUFFICES ASSUME Init PROVE ConflictInv
    BY InitType
  <2>1. rows = NoRows /\ queue = <<>> /\ orders = <<>> /\ jobs = <<>> /\ poll = None
    BY DEF Init
  <2>2. \A o \in Rows : ~ Ordered(o) /\ ~ In(rows, o)
    BY <2>1, NoneAssumption DEF Ordered, In, NoRows, Rows, Item, NumberOf
  <2>3. \A o \in Rows : \A j : ~ Seen(j, o)
    BY <2>1, <2>2 DEF Seen
  <2>4. kind = "integrator" => OnlyLists /\ AllNumbered
    BY <2>1 DEF Init, FirstTarget, OnlyLists, AllNumbered, Numbered, NoRows
  <2> QED
    BY <2>1, <2>2, <2>3, <2>4
       DEF ConflictInv, AllGenuine, SentIsOff, SentIsHidden, LackingIsOut, OneAgentPerConflict
<1>2. TypeInv /\ ConflictInv /\ [Next]_vars => TypeInv' /\ ConflictInv'
  BY NextType, NextConflict
<1>3. ConflictInv => OneAgentPerConflict
  BY DEF ConflictInv, OneAgentPerConflict
<1> QED
  BY <1>1, <1>2, <1>3, PTL DEF Spec
=============================================================================
