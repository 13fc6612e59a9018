------------------------------- MODULE Canvas -------------------------------
(***************************************************************************)
(* The canvas process (MegaDesk-Canvas/main.py and engine): the board of   *)
(* hosted nodes, the graph file it is saved in, the graph bar, and the     *)
(* commands that voice tools send over CANVAS:CMD (canvas_tools).  One of  *)
(* the nodes is the pad of module Notepad.                                 *)
(*                                                                         *)
(* The loop of main() removes the nodes whose close button was pressed,    *)
(* applies the commands that have arrived, and renders.  Each of these and *)
(* each callback of the user interface is one step, and they may come in   *)
(* any order.  A graph file is written in place: a process that dies in    *)
(* the middle leaves a broken file.                                        *)
(*                                                                         *)
(* A graph that is read may still hold a member that cannot be built, or   *)
(* one that cannot be hosted: loading it then fails half way.              *)
(*                                                                         *)
(* A backend is asked for when a node is hosted and never stopped from     *)
(* here: LAUNCHREQUESTs are the environment of module NodeLifecycle.       *)
(***************************************************************************)
EXTENDS Notepad, FiniteSets

CONSTANTS
  Graph,      \* graph files
  Default,    \* default.json
  NoGraph,
  Member,     \* member ids
  PadMember,  \* the one that is a pad
  Installed,  \* those whose front-end is installed
  Malformed,  \* those whose record cannot be made a member
  Unhostable, \* those that cannot be given a node
  Call,       \* voice tool calls to the canvas, numbered as they are made
  Session,    \* bounds: sets of calls that are made together with pieces that are added
  Earlier,    \* graph files that an earlier session has left
  MaxActs     \* bound on the callbacks that fire, and on the exits

Holding(ms) == [is |-> "graph", members |-> ms]
Absent == [is |-> "absent", members |-> {}]
Broken == [is |-> "broken", members |-> {}]
File == {Holding(ms) : ms \in SUBSET Member} \cup {Absent, Broken}

ASSUME CanvasAssumption ==
  /\ Default \in Graph /\ NoGraph \notin Graph
  /\ PadMember \in Member /\ Installed \subseteq Member
  /\ Earlier \subseteq [Graph -> File]
  /\ Call \subseteq Nat /\ Session \subseteq [calls : SUBSET Call, pieces : SUBSET Piece]
  /\ MaxActs \in Nat

VARIABLES
  disk,     \* graph files: absent, broken, or a graph with its members
  pointer,  \* Graphs/CURRENT
  up,       \* the canvas runs
  path,     \* model.path
  members,  \* model.members
  hosted,   \* those that have their node in the editor
  closing,  \* members whose close button was pressed
  ever,     \* member ids that were used
  failed,   \* history: what the last load or save-as did not get done
  commands, \* CANVAS:CMD beyond the cursor, which stays while the process lives
  listens,  \* the cursor: "fresh" before it is set, "deaf" at "$"
  replies,  \* CANVAS:REPLY, those that a voice tool waits for
  told,     \* what became of each call, for the voice tool
  applied,  \* history: how often the canvas has applied each call
  acts

boardVars == <<disk, pointer, up, path, members, hosted, closing, ever, failed>>
apiVars == <<commands, listens, replies, told, applied>>
vars == <<boardVars, apiVars, acts, padVars, faults>>

-----------------------------------------------------------------------------
Init ==
  /\ disk \in Earlier /\ ever = UNION {disk[g].members : g \in Graph}
  /\ pointer = NoGraph
  /\ up = FALSE /\ path = Default
  /\ members = {} /\ hosted = {} /\ closing = {} /\ failed = {}
  /\ commands = <<>> /\ listens = "fresh" /\ replies = {}
  /\ \E s \in Session :
       /\ told = [c \in Call |-> IF c \in s.calls THEN "unasked" ELSE "error"]
       /\ PadInit(s.pieces)
  /\ applied = [c \in Call |-> 0]
  /\ acts = 0 /\ faults = 0

-----------------------------------------------------------------------------
(***************************************************************************)
(* Hosting.  A pad that is among the members comes and goes with its node. *)
(***************************************************************************)

PadUnmoved == UNCHANGED <<files, root, pad, tuned>>

\* destroy_node of some members.
PadAfterTearing(ms) == IF pad.open /\ PadMember \in ms THEN Shuts ELSE PadUnmoved

\* destroy_node of the whole board, then open_on_graph of the next.
PadAfterSwitch(next) ==
  CASE pad.open /\ PadMember \in next -> Reopens
    [] pad.open /\ PadMember \notin next -> Shuts
    [] ~ pad.open /\ PadMember \in next -> Opens(files) /\ UNCHANGED files
    [] OTHER -> PadUnmoved

\* The members of a file whose front-end is installed; the others are skipped.
Shows(file) == file.members \cap Installed

\* _populate: of a graph with a member that cannot be built, those before it.
Builds(file) == Shows(file) \cap Malformed = {}
Populated(file) == IF Builds(file) THEN {Shows(file)} ELSE SUBSET (Shows(file) \ Malformed)

\* host_all_members: the same with a member that cannot be hosted.
Hosts(ms) == IF ms \cap Unhostable = {} THEN {ms} ELSE SUBSET (ms \ Unhostable)

\* GraphModel.save.
Save(g, ms) == disk' = [disk EXCEPT ![g] = Holding(ms)]

-----------------------------------------------------------------------------
(***************************************************************************)
(* Start and end of the process.                                           *)
(***************************************************************************)

\* boot_graph_path: the graph that was open last, if it can be read.
BootPath == IF pointer # NoGraph /\ disk[pointer].is = "graph" THEN pointer ELSE Default

\* remember_last_graph may raise OSError.
CannotRemember == "disk" \in Faults

BootOnly == UNCHANGED <<ever, commands, replies, told, applied, acts, inbox, accepted, torn,
                        misnamed, used, faults>>

\* main: load, remember, host.  An absent graph is created; a broken one is an
\* empty board with the broken file's path.
Boot ==
  /\ ~ up /\ up' = TRUE
  /\ path' = BootPath
  /\ members' = Shows(disk[path']) /\ members' \cap (Malformed \cup Unhostable) = {}
  /\ hosted' = members' /\ closing' = {} /\ failed' = {}
  /\ CASE disk[path'].is = "absent" -> Save(path', {}) /\ pointer' = path'
       [] disk[path'].is = "broken" -> UNCHANGED <<disk, pointer>>
       [] OTHER -> pointer' = path' /\ UNCHANGED disk
  /\ listens' = "fresh"
  /\ PadAfterSwitch(members')
  /\ BootOnly

\* Any other error ends main: a member that cannot be hosted, after the graph was
\* remembered, or OSError before.  (A member that cannot be built ends it before
\* anything is written.)
BootFails ==
  /\ ~ up
  /\ \/ /\ Builds(disk[BootPath]) /\ Shows(disk[BootPath]) \cap Unhostable # {}
        /\ pointer' = BootPath /\ UNCHANGED disk
     \/ /\ disk[BootPath].is = "absent" /\ CannotRemember
        /\ Save(BootPath, {}) /\ UNCHANGED pointer
  /\ UNCHANGED <<up, path, members, hosted, closing, failed, listens>> /\ PadUnmoved /\ BootOnly

Acts == up /\ acts < MaxActs /\ acts' = acts + 1

Stops ==
  /\ up' = FALSE /\ members' = {} /\ hosted' = {} /\ closing' = {} /\ failed' = {}
  /\ UNCHANGED <<pointer, path, ever, apiVars, root, inbox, accepted, misnamed, used>>

\* The window is closed: the graph is saved.  No node is torn down.
Exit ==
  /\ Acts /\ Save(path, members)
  /\ Stops /\ PadDies(FALSE) /\ UNCHANGED <<torn, faults>>

\* The process dies, perhaps while it writes a graph or a note.
Crash ==
  /\ up /\ Fault("crash")
  /\ \/ UNCHANGED disk /\ \E writing \in BOOLEAN : PadDies(writing) /\ (writing \/ UNCHANGED torn)
     \/ disk' = [disk EXCEPT ![path] = Broken] /\ PadDies(FALSE)
  /\ Stops /\ UNCHANGED acts

-----------------------------------------------------------------------------
(***************************************************************************)
(* Operations of the engine, called by callbacks and by commands.          *)
(***************************************************************************)

\* Every operation has this much in common.
Operates == UNCHANGED <<up, inbox, accepted, torn, misnamed, used>>

\* on_graph_drop: a member with a new id.
Drop(m) ==
  /\ m \in Installed \ (ever \cup Malformed \cup Unhostable)
  /\ members' = members \cup {m} /\ hosted' = hosted \cup {m} /\ ever' = ever \cup {m}
  /\ Save(path, members')
  /\ IF m = PadMember THEN Opens(files) /\ UNCHANGED files ELSE PadUnmoved
  /\ UNCHANGED <<pointer, path, closing, failed>> /\ Operates

\* Changed form for the checks: the mark of a node that is closing stays.
RemoveStillClosing(ms) ==
  /\ members' = members \ ms /\ hosted' = hosted \ ms
  /\ Save(path, members')
  /\ PadAfterTearing(ms)
  /\ UNCHANGED <<pointer, path, closing, ever, failed>> /\ Operates

\* delete_node of each.
Remove(ms) ==
  /\ members' = members \ ms /\ hosted' = hosted \ ms /\ closing' = closing \ ms
  /\ Save(path, members')
  /\ PadAfterTearing(ms)
  /\ UNCHANGED <<pointer, path, ever, failed>> /\ Operates

\* delete_selected: the nodes that are selected.
DeleteKey == \E ms \in SUBSET hosted \ {{}} : Remove(ms)

\* _on_close_clicked, handled at the next turn of the loop.
CloseClick(m) ==
  /\ m \in hosted /\ closing' = closing \cup {m}
  /\ UNCHANGED <<disk, pointer, path, members, hosted, ever, failed>> /\ PadUnmoved /\ Operates

\* Changed form for the checks: the graph that was open last is not remembered.
SwitchForgetful(g) ==
  /\ path' = g /\ Builds(disk'[g])
  /\ members' = Shows(disk'[g]) /\ hosted' \in Hosts(members') /\ closing' = {}
  /\ failed' = (IF hosted' = members' THEN {} ELSE {"hosting"})
  /\ PadAfterSwitch(hosted')
  /\ UNCHANGED <<ever, pointer>> /\ Operates

\* load_from, remember_last_graph and host_all_members, once the file was read.
Switch(g) ==
  /\ path' = g /\ pointer' = g /\ Builds(disk'[g])
  /\ members' = Shows(disk'[g]) /\ hosted' \in Hosts(members') /\ closing' = {}
  /\ failed' = (IF hosted' = members' THEN {} ELSE {"hosting"})
  /\ PadAfterSwitch(hosted')
  /\ UNCHANGED ever /\ Operates

\* load_from, which has torn the board down, cannot build a member, or the graph
\* cannot be remembered; the bar shows the error.
Halts(g) ==
  /\ path' = g /\ (~ Builds(disk'[g]) \/ CannotRemember)
  /\ members' \in Populated(disk'[g]) /\ hosted' = {} /\ closing' = {}
  /\ failed' = {"remembering", "hosting"}
  /\ PadAfterSwitch({})
  /\ UNCHANGED <<pointer, ever>> /\ Operates

Refuse == UNCHANGED <<pointer, path, members, hosted, closing, ever, failed>> /\ PadUnmoved /\ Operates

\* load_graph: the file is read before the board is torn down.
LoadGraph(g) == IF disk'[g].is = "graph" THEN Switch(g) \/ Halts(g) ELSE Refuse

Load(g) == UNCHANGED disk /\ LoadGraph(g)

\* save_graph and save_graph_as: what is closing is removed first.
SyncAndSave(g) ==
  /\ members' = members \ closing /\ hosted' = hosted \ closing /\ closing' = {}
  /\ disk' = [h \in Graph |-> IF h = g \/ (h = path /\ closing # {})
                              THEN Holding(members') ELSE disk[h]]
  /\ path' = g
  /\ PadAfterTearing(closing)
  /\ UNCHANGED ever /\ Operates

SaveGraph == SyncAndSave(path) /\ UNCHANGED <<pointer, failed>>

SaveGraphAs(g) ==
  /\ SyncAndSave(g)
  /\ \/ pointer' = g /\ failed' = failed \ {"remembering"}
     \/ CannotRemember /\ UNCHANGED pointer /\ failed' = failed \cup {"remembering"}

\* capture_parameters: what the nodes show is saved, whatever is closing.
Capture ==
  /\ Save(path, members)
  /\ Refuse

\* available_graphs: those that have a file.
Left == {g \in Graph : disk[g].is # "absent"}

\* delete_graph: a graph that is left, the first by name, is loaded; when it is
\* broken the board stays, without its file.
DeleteGraph ==
  /\ disk' = [disk EXCEPT ![path] = Absent]
  /\ IF Left' = {}
       THEN /\ members' = {} /\ hosted' = {} /\ closing' = {}
            /\ failed' = failed \ {"hosting"}
            /\ PadAfterTearing(members)
            /\ UNCHANGED <<pointer, path, ever>> /\ Operates
       ELSE \E g \in Left' : LoadGraph(g)

Operation ==
  \/ \E m \in Member : Drop(m) \/ CloseClick(m)
  \/ DeleteKey
  \/ \E g \in Graph : Load(g) \/ SaveGraphAs(g)
  \/ SaveGraph \/ Capture
  \/ DeleteGraph

-----------------------------------------------------------------------------
(***************************************************************************)
(* The loop, and the user at the screen.                                   *)
(***************************************************************************)

\* sync_members.
SyncMembers ==
  /\ up /\ closing # {}
  /\ Remove(closing)
  /\ UNCHANGED <<apiVars, acts, faults>>

UserOnBoard == Acts /\ Operation /\ UNCHANGED <<apiVars, faults>>

PadOperation ==
  /\ \/ \E c \in Piece : Type(c) \/ Erase(c)
     \/ \E t \in Title : TurnTo(t)
     \/ Include
     \/ \E f \in Root : Attach(f)
  /\ UNCHANGED boardVars

UserOnPad == Acts /\ PadOperation /\ UNCHANGED <<apiVars, faults>>

\* Changed form for the checks: the cursor is put at the end at each connection.
ConnectAnew ==
  /\ up
  /\ commands' = <<>> /\ listens' = "listens"
  /\ UNCHANGED <<boardVars, replies, told, applied, acts, padVars, faults>>

\* _connect_redis, the first time (a later one keeps the cursor, and so changes
\* nothing here): what was asked before is passed over; the cursor "$" that is
\* left when the newest entry cannot be read finds nothing, for good.
Connect ==
  /\ up /\ listens = "fresh"
  /\ commands' = <<>>
  /\ \/ listens' = "listens" /\ UNCHANGED faults
     \/ listens' = "deaf" /\ Fault("redis")
  /\ UNCHANGED <<boardVars, replies, told, applied, acts, padVars>>

\* A reply of any other status is refused by its writer and by its reader.
ReplyStatus == {"ok", "error"}

\* The reply is written, for the tool if that still waits, or Redis refuses it and
\* nobody tries again.
Replies(c, what) ==
  \/ /\ replies' = IF told[c] = "waiting" THEN replies \cup {<<c, what>>} ELSE replies
     /\ UNCHANGED faults
  \/ UNCHANGED replies /\ Fault("redis")

\* The command fires the callback of a widget, or it only reads.
Fires == Acts /\ (Operation \/ PadOperation)
Reads == UNCHANGED <<boardVars, padVars, acts>>

\* Changed form for the checks: the cursor moves on when the reply was written.
AppliesAndReplies(c) ==
  /\ up /\ listens = "listens" /\ commands # <<>> /\ Head(commands) = c
  /\ Fires \/ Reads
  /\ \E what \in ReplyStatus : Replies(c, what)
  /\ commands' = IF faults' # faults THEN commands ELSE Tail(commands)
  /\ applied' = [applied EXCEPT ![c] = @ + 1]
  /\ UNCHANGED <<listens, told>>

\* drain_commands, one entry: the cursor moves on, the command fires a callback
\* or reads, either may raise, and it is answered.
Applies(c) ==
  /\ up /\ listens = "listens" /\ commands # <<>> /\ Head(commands) = c
  /\ commands' = Tail(commands)
  /\ Fires \/ Reads
  /\ \E what \in ReplyStatus : Replies(c, what)
  /\ applied' = [applied EXCEPT ![c] = @ + 1]
  /\ UNCHANGED <<listens, told>>

-----------------------------------------------------------------------------
(***************************************************************************)
(* The voice tools.  They block VoiceDeck's conversation: one call at a    *)
(* time.                                                                   *)
(***************************************************************************)

Waiting == {c \in Call : told[c] = "waiting"}
Tells(c, what) == told' = [told EXCEPT ![c] = what]
ToolOnly == UNCHANGED <<boardVars, listens, applied, acts>>

\* call_canvas: the command is written, or the tool fails.
Calls(c) ==
  /\ told[c] = "unasked" /\ Waiting = {} /\ \A d \in Call : d < c => told[d] # "unasked"
  /\ \/ commands' = Append(commands, c) /\ Tells(c, "waiting") /\ UNCHANGED faults
     \/ UNCHANGED commands /\ Tells(c, "error") /\ Fault("redis")
  /\ UNCHANGED <<replies, padVars>> /\ ToolOnly

\* _wait_reply: the reply with the request's id, among those after the cursor.
GetsReply(c) ==
  /\ told[c] = "waiting"
  /\ \E what \in ReplyStatus : <<c, what>> \in replies /\ Tells(c, what)
  /\ replies' = {} /\ UNCHANGED <<commands, padVars, faults>> /\ ToolOnly

\* Three seconds are over, or the stream cannot be read.
GivesUp(c) ==
  /\ told[c] = "waiting" /\ Tells(c, "error")
  /\ replies' = {} /\ UNCHANGED <<commands, padVars, faults>> /\ ToolOnly

PadTools ==
  /\ \E t \in Title \cup {NoTitle}, c \in Piece : AddNoteText(t, c) \/ CreateNote(t, c) \/ SwitchNote(t, c)
  /\ UNCHANGED <<boardVars, apiVars, acts, faults>>

PadPump ==
  /\ up
  /\ \/ PadConnects
     \/ PadApplies /\ UNCHANGED faults
     \/ PadLosesRedis
  /\ UNCHANGED <<boardVars, apiVars, acts>>

-----------------------------------------------------------------------------
\* What a turn of the loop does, a step at a time.
Frame == SyncMembers \/ Connect \/ (\E c \in Call : Applies(c)) \/ PadPump

Tool(c) == GetsReply(c) \/ GivesUp(c)

Next ==
  \/ Boot \/ BootFails \/ Exit \/ Crash
  \/ Frame
  \/ UserOnBoard \/ UserOnPad
  \/ \E c \in Call : Calls(c) \/ Tool(c)
  \/ PadTools

Spec == Init /\ [][Next]_vars

-----------------------------------------------------------------------------
(***************************************************************************)
(* Properties.                                                             *)
(***************************************************************************)

CanvasTypeOK ==
  /\ disk \in [Graph -> File] /\ pointer \in Graph \cup {NoGraph}
  /\ path \in Graph /\ up \in BOOLEAN
  /\ members \subseteq Installed /\ closing \subseteq hosted /\ hosted \subseteq members
  /\ ever \subseteq Member /\ failed \subseteq {"remembering", "hosting"}
  /\ pad.open => PadMember \in hosted
  /\ told \in [Call -> {"unasked", "waiting"} \cup ReplyStatus]

\* The board that is on the screen is the one that the next start will show: the
\* graph that is remembered is the one that is open, holds exactly the members of
\* the board, and each of them has its node.  This does not hold of a board whose
\* file was deleted or was broken at the start, and of each part only as long as
\* the last load or save-as has not failed half way at that part: a graph that
\* could not be remembered, a file with a member that could not be built, nodes
\* that could not be hosted.
NextBootRestores ==
  up /\ disk[path].is = "graph" =>
    /\ BootPath = path \/ "remembering" \in failed
    /\ \/ Shows(disk[path]) = members
       \/ "remembering" \in failed /\ ~ Builds(disk[path])
    /\ hosted = members \/ "hosting" \in failed

\* "Pointing the bar at a random .json leaves the open graph untouched": a file
\* that cannot be loaded leaves the board, one that can is loaded whole.
LoadsWholeOrNot ==
  [][up /\ up' /\ path' # path => pointer' = path' /\ hosted' = members']_vars

\* A tool that was told "ok" had its command applied, and no command is applied
\* twice, whatever became of the replies.
ToldTheTruth ==
  \A c \in Call : applied[c] <= 1 /\ (told[c] = "ok" => applied[c] = 1)

\* The canvas runs, and call c, which it will come to, is on the stream.
Sent(c) == up /\ listens = "listens" /\ \E i \in DOMAIN commands : commands[i] = c

\* A command that was sent to a canvas that listens is never passed over, whatever
\* commands come before it and whether their replies can be written: it stays ahead
\* of the cursor until it was applied or the canvas ends.  This does not speak of a
\* canvas whose cursor could not be set.
CommandsAreKept ==
  [][\A c \in Call : Sent(c) => Sent(c)' \/ applied'[c] > 0 \/ ~ up']_vars
=============================================================================
