----------------------------- MODULE HumanGates -----------------------------
(***************************************************************************)
(* One human gate hosted on the canvas: WorkDispatcher, AutoIntegrate or   *)
(* PRManager.  The three are separate programs of one shape.  A poll       *)
(* thread reads the URL (and the label) under a lock, asks GitHub with the *)
(* gh command and puts the list on a queue; the UI thread takes lists off  *)
(* the queue and replaces its board by them, and handles the clicks.  So a *)
(* list is old when it is applied, and a row is old when it is clicked.    *)
(* Beside WorkDispatcher runs its voice tool set, in the process of        *)
(* VoiceDeck: the same dispatch from a draft of its own.                   *)
(*                                                                         *)
(* GitHub is external: an item is an issue with its labels, or a pull      *)
(* request with the verdict that merge-check posted last.                  *)
(***************************************************************************)
EXTENDS Naturals, Sequences, FiniteSets

CONSTANTS
  Kinds,       \* which of the three gates is looked at
  Repo,        \* repositories that somebody may connect a gate to
  Number,      \* numbers of issues and pull requests: every repository counts for itself
  NoRepo,      \* a URL that is empty, unsupported or not reachable
  None,        \* no row, no draft, nothing under way
  Acts,        \* what people and GitHub may do besides looking and clicking
  MaxChanges,  \* bound on how often they do it
  MaxOrders,   \* bound on the orders that are sent
  MaxLists     \* bound on the messages that wait for the UI thread

\* "tag": labels and verdicts change on GitHub.  "url", "label": the gate is
\* retargeted.  "drag": a ticket is dragged to the sequencer.  "pull": a pull
\* request is pulled.  "voice": the voice tools list tickets.  "rehost": the
\* window is closed and opened again.  "gh": a gh or git command fails.
ASSUME HumanGatesAssumption ==
  /\ Kinds \subseteq {"dispatcher", "integrator", "manager"}
  /\ NoRepo \notin Repo
  /\ Acts \subseteq {"tag", "url", "label", "drag", "pull", "voice", "rehost", "gh"}
  /\ MaxChanges \in Nat /\ MaxOrders \in Nat /\ MaxLists \in Nat \ {0}

VARIABLES
  kind,      \* which gate this is
  tags,      \* GitHub: the labels or the verdict of every item
  spell,     \* history: how often the tags of an item have been changed
  url,       \* _current_repo_url
  target,    \* _label, or the verdict that this kind lists
  poll,      \* what the poll thread has read, or the pull it is making
  queue,     \* _ui_queue
  rows,      \* _tickets, _rows or _items: number to what was listed
  shown,     \* numbers that have a widget row
  hidden,    \* _stale or _dismissed
  sequence,  \* _sequence, without its order
  drag,      \* _drag_ticket
  relabels,  \* who is between publishing an order and changing the labels
  orders,    \* what was sent to a factory
  draft,     \* the draft of the voice tools
  jobs,      \* _jobs of PRManager
  clones,    \* MergeIssue.clone_path by number
  disk,      \* pull requests checked out under Scope/
  epoch,     \* history: how often the gate was connected or hosted anew
  changes    \* how often people, GitHub or gh have interfered

github == <<tags, spell>>
board == <<rows, shown, hidden, sequence, clones>>
vars == <<kind, github, url, target, poll, queue, board, drag, relabels, orders,
          draft, jobs, disk, epoch, changes>>

-----------------------------------------------------------------------------
Item == Repo \X Number
RepoOf(i) == i[1]
NumberOf(i) == i[2]

AgentReady == "agent-ready"
InProgress == "in-progress"
Docs == "docs"             \* any other label an operator may track

TagsOf(k) == IF k = "dispatcher" THEN {AgentReady, InProgress, Docs}
                                 ELSE {"failure", "success"}
\* What people give an issue, or merge-check a pull request.  An agent's label
\* is InProgress, which they leave to it.
GivenTags(k) == {{}} \cup {{g} : g \in TagsOf(k) \ {InProgress}}
FirstTarget(k) == CASE k = "dispatcher" -> AgentReady
                    [] k = "integrator" -> "failure"
                    [] k = "manager" -> "success"

\* A row is what a list said of an item, with the spell of the item's tags and
\* the epoch of the gate that it was listed in.
Rows == [item : Item, spell : 0..MaxChanges, epoch : 0..MaxChanges]

ASSUME NoneAssumption == None \notin Rows

Draft == [rows : [Number -> Rows \cup {None}], chosen : Number \cup {None},
          label : {AgentReady, Docs}]

\* list_labeled_issues and list_merge_prs: the open items of a repository that
\* carry the label, or whose newest verdict is the wanted one.
Listed(r, g, e) == [n \in Number |->
  IF r \in Repo /\ g \in tags[<<r, n>>]
  THEN [item |-> <<r, n>>, spell |-> spell[<<r, n>>], epoch |-> e]
  ELSE None]

NumbersIn(list) == {n \in Number : list[n] # None}
NoRows == [n \in Number |-> None]

Busy == relabels["gate"] # None     \* the UI thread is inside a click
Senders == {"gate", "voice"}

Init ==
  /\ kind \in Kinds
  /\ tags \in [Item -> GivenTags(kind)]
  /\ spell = [i \in Item |-> 0]
  /\ url \in Repo
  /\ target = FirstTarget(kind)
  /\ poll = None /\ queue = <<>>
  /\ rows = NoRows /\ shown = {} /\ hidden = {} /\ sequence = {} /\ clones = NoRows
  /\ drag = None
  /\ relabels = [s \in Senders |-> None]
  /\ orders = <<>>
  /\ draft = [rows |-> NoRows, chosen |-> None, label |-> AgentReady]
  /\ jobs = <<>> /\ disk = {}
  /\ epoch = 0 /\ changes = 0

May(a) == a \in Acts /\ changes < MaxChanges
Change(a) == May(a) /\ changes' = changes + 1

-----------------------------------------------------------------------------
(***************************************************************************)
(* GitHub and the people around it.                                        *)
(***************************************************************************)

\* Somebody labels or closes an issue; merge-check posts a verdict, or a push
\* leaves the head without one.
TagsChange(i) ==
  /\ Change("tag")
  /\ \E g \in GivenTags(kind) \ {tags[i]} : tags' = [tags EXCEPT ![i] = g]
  /\ spell' = [spell EXCEPT ![i] = @ + 1]
  /\ UNCHANGED <<kind, url, target, poll, queue, board, drag, relabels, orders, draft,
                 jobs, disk, epoch>>

\* The operator types: every frame copies the text of the input.  Rows stay.
ChangeUrl(r) ==
  /\ Change("url") /\ ~Busy /\ r # url
  /\ url' = r /\ epoch' = epoch + 1
  /\ UNCHANGED <<kind, github, target, poll, queue, board, drag, relabels, orders, draft,
                 jobs, disk>>

\* _on_label_changed, WorkDispatcher only: the rows go at once.
ChangeLabel(g) ==
  /\ Change("label") /\ ~Busy /\ kind = "dispatcher" /\ g # target
  /\ target' = g /\ epoch' = epoch + 1
  /\ rows' = NoRows /\ shown' = {} /\ sequence' = {}
  /\ UNCHANGED <<kind, github, url, poll, queue, hidden, clones, drag, relabels, orders,
                 draft, jobs, disk>>

\* The window is closed and opened again with the URL that the graph captured:
\* a new instance, with a thread and a queue of its own.
Rehost ==
  /\ Change("rehost") /\ ~Busy
  /\ epoch' = epoch + 1
  /\ poll' = None /\ queue' = <<>> /\ drag' = None /\ jobs' = <<>>
  /\ rows' = NoRows /\ shown' = {} /\ hidden' = {} /\ sequence' = {} /\ clones' = NoRows
  /\ UNCHANGED <<kind, github, url, target, relabels, orders, draft, disk>>

-----------------------------------------------------------------------------
(***************************************************************************)
(* The poll thread.  PRManager's does the pulls that were clicked before   *)
(* it lists again.                                                         *)
(***************************************************************************)

PollReads ==
  /\ poll = None /\ Len(queue) < MaxLists /\ url # NoRepo /\ jobs = <<>>
  /\ poll' = [what |-> "list", repo |-> url, target |-> target, epoch |-> epoch]
  /\ UNCHANGED <<kind, github, url, target, queue, board, drag, relabels, orders, draft,
                 jobs, disk, epoch, changes>>

PollFetches ==
  /\ poll # None /\ poll.what = "list"
  /\ queue' = Append(queue, [what |-> "sync",
                             list |-> Listed(poll.repo, poll.target, poll.epoch)])
  /\ poll' = None
  /\ UNCHANGED <<kind, github, url, target, board, drag, relabels, orders, draft, jobs, disk,
                 epoch, changes>>

\* _do_pull takes the row and the URL as they are now, not as they were clicked.
PullStarts ==
  /\ poll = None /\ jobs # <<>> /\ Len(queue) < MaxLists
  /\ jobs' = Tail(jobs)
  /\ LET n == Head(jobs) IN
     poll' = IF rows[n] # None /\ url # NoRepo
             THEN [what |-> "pull", number |-> n, path |-> <<url, NumberOf(rows[n].item)>>]
             ELSE None
  /\ UNCHANGED <<kind, github, url, target, queue, board, drag, relabels, orders, draft, disk,
                 epoch, changes>>

PullEnds ==
  /\ poll # None /\ poll.what = "pull"
  /\ disk' = disk \cup {poll.path}
  /\ queue' = Append(queue, [what |-> "pulled", number |-> poll.number, path |-> poll.path])
  /\ poll' = None
  /\ UNCHANGED <<kind, github, url, target, board, drag, relabels, orders, draft, jobs, epoch,
                 changes>>

\* gh or git fails: a status is shown and no list is sent.
PollFails ==
  /\ Change("gh") /\ poll # None
  /\ poll' = None
  /\ UNCHANGED <<kind, github, url, target, queue, board, drag, relabels, orders, draft, jobs,
                 disk, epoch>>

-----------------------------------------------------------------------------
(***************************************************************************)
(* The UI thread: one message of the queue.                                *)
(***************************************************************************)

\* _ensure_ticket_row: a ticket in the sequencer is taken to have its row there
\* already, any other gets one.
TicketRows(live, inSequence) == live \ inSequence

\* _sync_tickets
SyncTickets(list) ==
  LET live == NumbersIn(list)
      gone == NumbersIn(rows) \ live
  IN /\ rows' = list
     /\ sequence' = sequence \ gone
     /\ shown' = (shown \ gone) \cup TicketRows(live, sequence')
     /\ UNCHANGED <<hidden, clones>>

\* Changed form for the checks: the marks are kept for good.
SyncRowsMarked(list) ==
  LET live == NumbersIn(list)
      visible == live \ hidden
  IN /\ rows' = [n \in Number |-> IF n \in visible THEN list[n] ELSE None]
     /\ shown' = visible
     /\ clones' = [n \in Number |-> IF n \notin visible THEN None ELSE clones[n]]
     /\ UNCHANGED <<hidden, sequence>>

\* _add_row of PRManager: the checkout of the repository in the input, or the one
\* that the row of this number had before.
CloneOf(n) == IF <<url, n>> \in disk THEN <<url, n>> ELSE clones[n]

\* _sync_rows of AutoIntegrate and PRManager: a mark goes with its item.
SyncRows(list) ==
  LET live == NumbersIn(list)
      visible == live \ hidden
  IN /\ hidden' = hidden \cap live
     /\ rows' = [n \in Number |-> IF n \in visible THEN list[n] ELSE None]
     /\ shown' = visible
     /\ clones' = [n \in Number |-> IF n \in visible THEN CloneOf(n) ELSE None]
     /\ UNCHANGED sequence

ApplyList ==
  /\ queue # <<>> /\ Head(queue).what = "sync" /\ ~Busy
  /\ queue' = Tail(queue)
  /\ IF kind = "dispatcher" THEN SyncTickets(Head(queue).list) ELSE SyncRows(Head(queue).list)
  /\ UNCHANGED <<kind, github, url, target, poll, drag, relabels, orders, draft, jobs, disk,
                 epoch, changes>>

\* _on_pulled: the row learns its checkout, if it is still there.
ApplyPulled ==
  /\ queue # <<>> /\ Head(queue).what = "pulled"
  /\ queue' = Tail(queue)
  /\ LET m == Head(queue) IN
     clones' = IF rows[m.number] # None THEN [clones EXCEPT ![m.number] = m.path] ELSE clones
  /\ UNCHANGED <<kind, github, url, target, poll, rows, shown, hidden, sequence, drag,
                 relabels, orders, draft, jobs, disk, epoch, changes>>

-----------------------------------------------------------------------------
(***************************************************************************)
(* Clicks.  "how" says what a factory would notice: a PUBLISH on its       *)
(* channel, or an entry of the stream that it only writes.                 *)
(***************************************************************************)

Order(row, repo, how) == [row |-> row, repo |-> repo, how |-> how]

Clickable(n) == ~Busy /\ n \in shown /\ rows[n] # None

\* Changed form for the checks: the labels are changed although Redis refused
\* the order.
PressTicketRefused(n) ==
  /\ kind = "dispatcher" /\ Clickable(n) /\ drag = None
  /\ relabels' = [relabels EXCEPT !["gate"] = [item |-> rows[n].item, remove |-> target]]
  /\ UNCHANGED <<kind, github, url, target, poll, queue, board, drag, orders, draft, jobs,
                 disk, epoch, changes>>

\* _on_ticket_pressed up to the publish: the URL is the one the ticket was
\* listed under, the label to take off is the one tracked now.
PressTicket(n) ==
  /\ kind = "dispatcher" /\ Clickable(n) /\ drag = None /\ Len(orders) < MaxOrders
  /\ orders' = Append(orders, Order(rows[n], RepoOf(rows[n].item), "publish"))
  /\ relabels' = [relabels EXCEPT !["gate"] = [item |-> rows[n].item, remove |-> target]]
  /\ UNCHANGED <<kind, github, url, target, poll, queue, board, drag, draft, jobs, disk, epoch,
                 changes>>

\* relabel_issue: one edit takes the label off and puts InProgress on.
Relabelled(i, remove) == (tags[i] \ ({remove} \ {InProgress})) \cup {InProgress}

\* _remove_ticket
RemoveTicket(n) ==
  /\ rows' = [rows EXCEPT ![n] = None]
  /\ shown' = shown \ {n} /\ sequence' = sequence \ {n}
  /\ UNCHANGED <<hidden, clones>>

Relabel(s) ==
  /\ relabels[s] # None
  /\ relabels' = [relabels EXCEPT ![s] = None]
  /\ LET r == relabels[s] IN
     /\ \/ tags' = [tags EXCEPT ![r.item] = Relabelled(r.item, r.remove)] /\ UNCHANGED changes
        \/ Change("gh") /\ UNCHANGED tags
     /\ IF s = "gate" THEN RemoveTicket(NumberOf(r.item)) ELSE UNCHANGED board
  /\ UNCHANGED <<kind, spell, url, target, poll, queue, drag, orders, draft, jobs, disk, epoch>>

\* Changed form for the checks: the row is dropped and not marked.
PressRowUnmarked(n) ==
  /\ kind = "integrator" /\ Clickable(n) /\ url # NoRepo /\ Len(orders) < MaxOrders
  /\ orders' = Append(orders, Order(rows[n], url, "publish"))
  /\ rows' = [rows EXCEPT ![n] = None] /\ shown' = shown \ {n}
  /\ UNCHANGED <<kind, github, url, target, poll, queue, hidden, sequence, clones, drag,
                 relabels, draft, jobs, disk, epoch, changes>>

\* AutoIntegrate's _on_row_pressed: the URL is the one in the input.
PressRow(n) ==
  /\ kind = "integrator" /\ Clickable(n) /\ url # NoRepo /\ Len(orders) < MaxOrders
  /\ orders' = Append(orders, Order(rows[n], url, "publish"))
  /\ hidden' = hidden \cup {n}
  /\ rows' = [rows EXCEPT ![n] = None] /\ shown' = shown \ {n}
  /\ UNCHANGED <<kind, github, url, target, poll, queue, sequence, clones, drag, relabels,
                 draft, jobs, disk, epoch, changes>>

\* PRManager: pull, or an editor for a row without a checkout.
PressPull(n) ==
  /\ Change("pull") /\ kind = "manager" /\ Clickable(n)
  /\ jobs' = Append(jobs, n)
  /\ UNCHANGED <<kind, github, url, target, poll, queue, board, drag, relabels, orders, draft,
                 disk, epoch>>

Dismiss(n) ==
  /\ kind = "manager" /\ Clickable(n)
  /\ hidden' = hidden \cup {n}
  /\ rows' = [rows EXCEPT ![n] = None] /\ shown' = shown \ {n}
  /\ clones' = [clones EXCEPT ![n] = None]
  /\ UNCHANGED <<kind, github, url, target, poll, queue, sequence, drag, relabels, orders,
                 draft, jobs, disk, epoch, changes>>

\* _place_in_sequence does not ask whether the ticket is still listed.
PlacedInSequence(n) == sequence \cup {n}

\* _on_mouse_drag takes the ticket under the cursor, _on_mouse_release lets it
\* go; over the sequencer it is placed.
Drag(n) ==
  /\ Change("drag") /\ kind = "dispatcher" /\ Clickable(n) /\ drag = None
  /\ drag' = n
  /\ UNCHANGED <<kind, github, url, target, poll, queue, board, relabels, orders, draft, jobs,
                 disk, epoch>>

Release ==
  /\ drag # None /\ ~Busy
  /\ drag' = None
  /\ sequence' \in {sequence, PlacedInSequence(drag)}
  /\ UNCHANGED <<kind, github, url, target, poll, queue, rows, shown, hidden, clones, relabels,
                 orders, draft, jobs, disk, epoch, changes>>

-----------------------------------------------------------------------------
(***************************************************************************)
(* The voice tools of WorkDispatcher.  Their draft is a module global.     *)
(***************************************************************************)

\* handle_list_tickets: what was chosen stays chosen.
VoiceLists(r, g) ==
  /\ Change("voice") /\ kind = "dispatcher" /\ relabels["voice"] = None
  /\ draft' = [draft EXCEPT !.rows = Listed(r, g, epoch), !.label = g]
  /\ UNCHANGED <<kind, github, url, target, poll, queue, board, drag, relabels, orders, jobs,
                 disk, epoch>>

VoiceChooses(n) ==
  /\ relabels["voice"] = None /\ draft.rows[n] # None /\ draft.chosen # n
  /\ draft' = [draft EXCEPT !.chosen = n]
  /\ UNCHANGED <<kind, github, url, target, poll, queue, board, drag, relabels, orders, jobs,
                 disk, epoch, changes>>

\* handle_send_ticket: XADD to the stream, then the labels.
VoiceSends ==
  /\ relabels["voice"] = None /\ draft.chosen # None /\ Len(orders) < MaxOrders
  /\ LET row == draft.rows[draft.chosen] IN
     /\ row # None
     /\ orders' = Append(orders, Order(row, RepoOf(row.item), "xadd"))
     /\ relabels' = [relabels EXCEPT !["voice"] = [item |-> row.item, remove |-> draft.label]]
  /\ UNCHANGED <<kind, github, url, target, poll, queue, board, drag, draft, jobs, disk, epoch,
                 changes>>

-----------------------------------------------------------------------------
PollNext == PollReads \/ PollFetches \/ PullStarts \/ PullEnds
UiNext == ApplyList \/ ApplyPulled \/ Relabel("gate") \/ Release

Next ==
  \/ PollNext \/ PollFails \/ UiNext \/ Relabel("voice")
  \/ \E i \in Item : TagsChange(i)
  \/ \E r \in Repo \cup {NoRepo} : ChangeUrl(r)
  \/ \E g \in {AgentReady, Docs} : ChangeLabel(g)
  \/ Rehost
  \/ \E n \in Number : PressTicket(n) \/ PressRow(n) \/ PressPull(n) \/ Dismiss(n) \/ Drag(n)
  \/ \E r \in Repo, g \in {AgentReady, Docs} : VoiceLists(r, g)
  \/ \E n \in Number : VoiceChooses(n)
  \/ VoiceSends

Spec == Init /\ [][Next]_vars

\* The poll thread and the frames of the canvas go on for as long as the window
\* is open; the gh command of a click ends or times out, and a button is let go.
Fairness == WF_vars(PollNext) /\ WF_vars(UiNext)

FairSpec == Spec /\ Fairness

-----------------------------------------------------------------------------
(***************************************************************************)
(* What must hold.                                                         *)
(***************************************************************************)

Board == [Number -> Rows \cup {None}]
Polls == [what : {"list"}, repo : Repo, target : TagsOf(kind), epoch : 0..MaxChanges]
         \cup [what : {"pull"}, number : Number, path : Item]
Messages == [what : {"sync"}, list : Board]
            \cup [what : {"pulled"}, number : Number, path : Item]
Orders == [row : Rows, repo : Repo, how : {"publish", "xadd"}]

\* Every variable has its type, no more waits than is allowed, and a row of
\* widgets always belongs to an item that the gate knows.
TypeOK ==
  /\ kind \in Kinds
  /\ tags \in [Item -> SUBSET TagsOf(kind)] /\ spell \in [Item -> 0..MaxChanges]
  /\ url \in Repo \cup {NoRepo} /\ target \in TagsOf(kind)
  /\ poll \in Polls \cup {None}
  /\ queue \in Seq(Messages) /\ Len(queue) <= MaxLists
  /\ rows \in Board /\ shown \subseteq NumbersIn(rows)
  /\ hidden \subseteq Number /\ sequence \subseteq Number
  /\ drag \in Number \cup {None}
  /\ relabels \in [Senders -> [item : Item, remove : TagsOf(kind)] \cup {None}]
  /\ orders \in Seq(Orders) /\ Len(orders) <= MaxOrders
  /\ draft \in [rows : Board, chosen : Number \cup {None}, label : {AgentReady, Docs}]
  /\ jobs \in Seq(Number) /\ Len(jobs) <= MaxChanges
  /\ clones \in [Number -> Item \cup {None}] /\ disk \subseteq Item
  /\ epoch \in 0..MaxChanges /\ changes \in 0..MaxChanges

\* A ticket on GitHub that says an agent has it was sent to a factory: the
\* labels are only changed once the order is out.
TakenWasSent ==
  \A i \in Item : InProgress \in tags[i] => \E k \in DOMAIN orders : orders[k].row.item = i

\* AutoIntegrate sends no second agent at one conflict, whatever lists were
\* under way when the row was clicked: of the rows that were listed while the
\* gate stayed on its repository, two are only sent if the pull request had left
\* the list in between.
OneAgentPerConflict ==
  kind = "integrator" =>
    \A a, b \in DOMAIN orders : a # b => orders[a].row # orders[b].row

\* The board is what GitHub lists, without the items that are hidden; a ticket
\* in the sequencer may lack its row.
ShowsWhatIsListed ==
  LET list == Listed(url, target, epoch)
      live == NumbersIn(list)
      visible == live \ hidden
  IN /\ hidden \subseteq live
     /\ rows = [n \in Number |-> IF n \in visible THEN list[n] ELSE None]
     /\ visible \ sequence \subseteq shown

\* Whatever old lists were applied after a click, a retarget or a change on
\* GitHub: once these stop, the board of a connected gate comes to agree with
\* GitHub and stays so, the marks of what is no longer listed dropped.
BoardSettles == <>[](url # NoRepo => ShowsWhatIsListed)

\* What machine-factory-pipeline.md says, "A PUBLISH is the only execution
\* signal": a ticket that says an agent has it was published.
TakenWasSignalled ==
  \A i \in Item : InProgress \in tags[i] =>
    \E k \in DOMAIN orders : orders[k].row.item = i /\ orders[k].how = "publish"
=============================================================================
