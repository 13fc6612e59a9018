---------------------------- MODULE Canvas_proofs ----------------------------
(***************************************************************************)
(* For any graphs, members, calls, titles and failures: what a voice tool  *)
(* is told, what becomes of its command, what the next start of the        *)
(* canvas shows, what becomes of the notes, and the types.  The first two  *)
(* are about the command stream alone, the third about the board and its   *)
(* files, the fourth about the pad, which the board hosts and shuts.       *)
(***************************************************************************)
EXTENDS Canvas, TLAPS

-----------------------------------------------------------------------------
(***************************************************************************)
(* Commands and replies.                                                   *)
(***************************************************************************)

\* A call is on the stream at most once, and only before it was applied; a reply
\* "ok" is one to a command that was applied.
ApiInv ==
  /\ commands \in Seq(Call)
  /\ told \in [Call -> {"unasked", "waiting"} \cup ReplyStatus]
  /\ applied \in [Call -> {0, 1}]
  /\ \A i \in DOMAIN commands : told[commands[i]] # "unasked" /\ applied[commands[i]] = 0
  /\ \A i, j \in DOMAIN commands : i # j => commands[i] # commands[j]
  /\ \A c \in Call : told[c] = "unasked" => applied[c] = 0
  /\ \A c \in Call : <<c, "ok">> \in replies \/ told[c] = "ok" => applied[c] = 1

\* Nothing has been sent at first, by any session.
LEMMA InitApi == Init => ApiInv
<1> SUFFICES ASSUME Init PROVE ApiInv
  OBVIOUS
<1>1. told \in [Call -> {"unasked", "error"}]
  BY DEF Init
<1> QED
  BY <1>1 DEF Init, ApiInv, ReplyStatus

\* What comes off a stream was on it.
LEMMA Rest ==
  ASSUME NEW s \in Seq(Call), s # <<>>
  PROVE  /\ Head(s) \in Call /\ Tail(s) \in Seq(Call)
         /\ 1 \in DOMAIN s /\ Head(s) = s[1]
         /\ \A i \in DOMAIN Tail(s) : i + 1 \in DOMAIN s /\ Tail(s)[i] = s[i + 1]
OBVIOUS

\* What is written to a stream is behind everything on it.
LEMMA More ==
  ASSUME NEW s \in Seq(Call), NEW c \in Call
  PROVE  /\ Append(s, c) \in Seq(Call)
         /\ \A i \in DOMAIN Append(s, c) : (i \in DOMAIN s /\ Append(s, c)[i] = s[i]) \/
                                            (i = Len(s) + 1 /\ Append(s, c)[i] = c)
         /\ \A i \in DOMAIN s : i # Len(s) + 1
OBVIOUS

\* Every step keeps it: a call is sent once, applied off the head of the stream,
\* and answered with what was done.
LEMMA NextApi == ApiInv /\ [Next]_vars => ApiInv'
<1> SUFFICES ASSUME ApiInv, [Next]_vars PROVE ApiInv'
  OBVIOUS
<1> USE DEF ApiInv, ReplyStatus
<1>1. CASE UNCHANGED <<commands, replies, told, applied>>
  BY <1>1
<1>2. CASE Connect
  BY <1>2 DEF Connect
<1>3. ASSUME NEW c \in Call, Applies(c) PROVE ApiInv'
  <2>1. /\ commands # <<>> /\ Head(commands) = c /\ commands' = Tail(commands)
        /\ applied' = [applied EXCEPT ![c] = @ + 1] /\ told' = told
        /\ replies' = replies \/ replies' = replies \cup {<<c, "ok">>} \/ replies' = replies \cup {<<c, "error">>}
    BY <1>3 DEF Applies, Replies, ReplyStatus
  <2>2. applied[c] = 0 /\ told[c] # "unasked"
    BY <2>1, Rest
  <2>3. \A i \in DOMAIN Tail(commands) : Tail(commands)[i] # c
    BY <2>1, Rest
  <2>4. \A i, j \in DOMAIN Tail(commands) : i # j => Tail(commands)[i] # Tail(commands)[j]
    BY <2>1, Rest
  <2> QED
    BY <2>1, <2>2, <2>3, <2>4, Rest
<1>4. ASSUME NEW c \in Call, Calls(c) PROVE ApiInv'
  <2>1. /\ told[c] = "unasked" /\ UNCHANGED <<replies, applied>>
        /\ \/ commands' = Append(commands, c) /\ told' = [told EXCEPT ![c] = "waiting"]
           \/ commands' = commands /\ told' = [told EXCEPT ![c] = "error"]
    BY <1>4 DEF Calls, Tells, ToolOnly
  <2>2. applied[c] = 0 /\ \A i \in DOMAIN commands : commands[i] # c
    BY <2>1
  <2> QED
    <3>1. CASE commands' = commands /\ told' = [told EXCEPT ![c] = "error"]
      BY <2>1, <2>2, <3>1
    <3>2. CASE commands' = Append(commands, c) /\ told' = [told EXCEPT ![c] = "waiting"]
      <4>1. commands' \in Seq(Call)
        BY <3>2, More
      <4>2. \A i \in DOMAIN commands' : told'[commands'[i]] # "unasked" /\ applied'[commands'[i]] = 0
        BY <2>1, <2>2, <3>2, More
      <4>3. \A i, j \in DOMAIN commands' : i # j => commands'[i] # commands'[j]
        BY <2>1, <2>2, <3>2, More
      <4> QED
        BY <2>1, <2>2, <3>2, <4>1, <4>2, <4>3
    <3> QED
      BY <2>1, <3>1, <3>2
<1>5. ASSUME NEW c \in Call, Tool(c) PROVE ApiInv'
  BY <1>5 DEF Tool, GetsReply, GivesUp, Tells, ToolOnly
<1> QED
  BY <1>1, <1>2, <1>3, <1>4, <1>5
     DEF Next, Frame, vars, apiVars, Boot, BootFails, BootOnly, Exit, Crash, Stops, SyncMembers,
         UserOnBoard, UserOnPad, PadTools, PadPump

\* What a voice tool was told is true: "ok" comes from a command that was applied,
\* and no command is applied twice, whatever becomes of replies and processes.
THEOREM ToldTheTruthEver == Spec => []ToldTheTruth
<1>1. Init => ApiInv
  BY InitApi
<1>2. ApiInv => ToldTheTruth
  <2> SUFFICES ASSUME ApiInv, NEW c \in Call
               PROVE  applied[c] <= 1 /\ (told[c] = "ok" => applied[c] = 1)
    BY DEF ToldTheTruth
  <2>1. applied[c] \in {0, 1}
    BY DEF ApiInv
  <2>2. told[c] = "ok" => applied[c] = 1
    BY DEF ApiInv
  <2>3. applied[c] <= 1
    BY <2>1
  <2> QED
    BY <2>2, <2>3
<1> QED
  BY <1>1, <1>2, NextApi, PTL DEF Spec

\* What is on a stream is its head or stays when the head is taken off.
LEMMA HeadOrRest ==
  ASSUME NEW s \in Seq(Call), NEW i \in DOMAIN s, s[i] # Head(s)
  PROVE  s # <<>> /\ \E j \in DOMAIN Tail(s) : Tail(s)[j] = s[i]
<1>1. s # <<>> /\ i # 1 /\ i \in 1..Len(s)
  OBVIOUS
<1>2. i - 1 \in DOMAIN Tail(s) /\ Tail(s)[i - 1] = s[i]
  BY <1>1
<1> QED
  BY <1>1, <1>2

\* Every step keeps a command that was sent, applies it, or ends the canvas: the
\* cursor is set only once, and moves past one command at a time.
LEMMA NextSent ==
  ASSUME ApiInv, [Next]_vars, NEW c \in Call, Sent(c)
  PROVE  Sent(c)' \/ applied'[c] > 0 \/ ~ up'
<1>1. PICK i \in DOMAIN commands : commands[i] = c
  BY DEF Sent
<1>2. commands \in Seq(Call) /\ applied \in [Call -> {0, 1}]
  BY DEF ApiInv
<1>3. up /\ listens = "listens"
  BY DEF Sent
<1>4. CASE UNCHANGED <<up, listens, commands>>
  BY <1>3, <1>1, <1>4 DEF Sent
<1>5. ASSUME NEW d \in Call, Applies(d) PROVE Sent(c)' \/ applied'[c] > 0 \/ ~ up'
  <2>1. /\ Head(commands) = d /\ commands' = Tail(commands) /\ listens' = listens
        /\ applied' = [applied EXCEPT ![d] = @ + 1]
    BY <1>5 DEF Applies
  <2>2. CASE d = c
    <3>1. applied'[c] = applied[c] + 1 /\ applied[c] \in {0, 1}
      BY <2>1, <2>2, <1>2
    <3> QED
      BY <3>1
  <2>3. CASE d # c
    <3>1. \E j \in DOMAIN commands' : commands'[j] = c
      BY <2>1, <2>3, <1>1, <1>2, HeadOrRest
    <3>2. CASE up'
      BY <3>1, <3>2, <2>1, <1>3 DEF Sent
    <3> QED
      BY <3>2
  <2> QED
    BY <2>2, <2>3
<1>6. ASSUME NEW d \in Call, Calls(d) PROVE Sent(c)'
  <2>1. UNCHANGED <<up, listens>> /\ (commands' = Append(commands, d) \/ UNCHANGED commands)
    BY <1>6 DEF Calls, ToolOnly, boardVars
  <2>2. i \in DOMAIN Append(commands, d) /\ Append(commands, d)[i] = commands[i]
    BY <1>2
  <2> QED
    BY <2>1, <2>2, <1>1, <1>3 DEF Sent
<1>7. CASE Boot \/ Connect
  BY <1>7, <1>3 DEF Boot, Connect
<1>8. CASE BootFails \/ Exit \/ Crash
  BY <1>3, <1>8 DEF BootFails, Exit, Crash, Stops
<1> QED
  BY <1>4, <1>5, <1>6, <1>7, <1>8
     DEF Next, Frame, Tool, GetsReply, GivesUp, ToolOnly, boardVars, apiVars, vars, SyncMembers,
         UserOnBoard, UserOnPad, PadTools, PadPump, Remove, Acts, Operation, Operates, Drop, CloseClick,
         DeleteKey, Load, LoadGraph, Switch, Halts, Refuse, SyncAndSave, SaveGraph, SaveGraphAs, Capture,
         DeleteGraph, PadOperation

\* A command that was sent to a canvas that listens is never passed over, however
\* many commands come before it and whatever fails between them and their replies:
\* as long as the canvas runs it stays ahead of the cursor until it was applied.
THEOREM CommandsAreKeptEver == Spec => CommandsAreKept
<1>1. Init => ApiInv
  BY InitApi
<1>2. ApiInv /\ [Next]_vars =>
        [\A c \in Call : Sent(c) => Sent(c)' \/ applied'[c] > 0 \/ ~ up']_vars
  BY NextSent
<1> QED
  BY <1>1, <1>2, NextApi, PTL DEF Spec, CommandsAreKept

-----------------------------------------------------------------------------
(***************************************************************************)
(* The board and its files.                                                *)
(***************************************************************************)

BoardType ==
  /\ disk \in [Graph -> File] /\ pointer \in Graph \cup {NoGraph}
  /\ path \in Graph /\ up \in BOOLEAN
  /\ members \subseteq Installed /\ hosted \subseteq members /\ closing \subseteq hosted
  /\ failed \subseteq {"remembering", "hosting"}

\* The graph that is open is remembered, unless that failed, or it was put up in
\* place of one that could not be read and still cannot.
Remembered ==
  \/ pointer = path \/ "remembering" \in failed
  \/ path = Default /\ (pointer = NoGraph \/ disk[pointer].is # "graph")

\* Every member has its node, unless hosting failed.
Hosted == hosted = members \/ "hosting" \in failed

\* A file shows the board, or is one that could not be built.
ShowsBoard(file, ms, fs) == Shows(file) = ms \/ ("remembering" \in fs /\ ~ Builds(file))

BoardInv ==
  /\ BoardType
  /\ up => Remembered /\ Hosted
  /\ up /\ disk[path].is = "graph" => ShowsBoard(disk[path], members, failed)

\* A file is what was put into it.
LEMMA FileIs ==
  /\ \A ms \in SUBSET Member : Holding(ms) \in File /\ Holding(ms).is = "graph" /\ Holding(ms).members = ms
  /\ Absent \in File /\ Absent.is = "absent" /\ Absent.members = {}
  /\ Broken \in File /\ Broken.is = "broken" /\ Broken.members = {}
  /\ \A f \in File : f.members \subseteq Member /\ (f.is # "graph" => f.members = {})
BY DEF Holding, Absent, Broken, File

\* Saving the board to the graph that is open.
LEMMA SavesBoard ==
  ASSUME BoardInv, up, up', NEW ms, ms \subseteq Installed, Save(path, ms), members' = ms,
         hosted' \subseteq ms, closing' \subseteq hosted', hosted' = ms \/ "hosting" \in failed,
         UNCHANGED <<pointer, path, failed>>
  PROVE  BoardInv'
<1>1. ms \in SUBSET Member /\ ms \cap Installed = ms
  BY CanvasAssumption
<1>2. disk' = [disk EXCEPT ![path] = Holding(ms)]
  BY DEF Save
<1>3. BoardType'
  BY <1>1, <1>2, FileIs DEF BoardInv, BoardType
<1>4. Shows(disk'[path]) = ms
  BY <1>1, <1>2, FileIs DEF BoardInv, BoardType, Shows
<1>5. Remembered' /\ Hosted'
  BY <1>2 DEF BoardInv, BoardType, Remembered, Hosted
<1> QED
  BY <1>3, <1>4, <1>5 DEF BoardInv, ShowsBoard

\* Another graph takes the board: it is remembered and what it shows is hosted, or
\* the load fails after the old board was torn down.
LEMMA LoadsBoard ==
  ASSUME BoardInv, disk' \in [Graph -> File], NEW g \in Graph, Switch(g) \/ Halts(g)
  PROVE  BoardInv'
<1>1. CASE Switch(g)
  <2>1. hosted' \subseteq members' /\ (hosted' = members' \/ failed' = {"hosting"})
    BY <1>1 DEF Switch, Hosts
  <2>2. BoardType' /\ Remembered' /\ Hosted'
    BY <1>1, <2>1 DEF Switch, Operates, Shows, BoardInv, BoardType, Remembered, Hosted
  <2> QED
    BY <1>1, <2>2 DEF Switch, BoardInv, ShowsBoard
<1>2. CASE Halts(g)
  <2>1. members' \subseteq Installed /\ (members' = Shows(disk'[g]) \/ ~ Builds(disk'[g]))
    BY <1>2 DEF Halts, Populated, Shows
  <2>2. BoardType' /\ Remembered' /\ Hosted'
    BY <1>2, <2>1 DEF Halts, Operates, BoardInv, BoardType, Remembered, Hosted
  <2> QED
    BY <1>2, <2>1, <2>2 DEF Halts, BoardInv, ShowsBoard
<1> QED
  BY <1>1, <1>2

\* What the user and the commands do to the board.
LEMMA OperationBoard == BoardInv /\ up /\ Operation => BoardInv'
<1> SUFFICES ASSUME BoardInv, up, Operation PROVE BoardInv'
  OBVIOUS
<1>1. ASSUME NEW m \in Member, Drop(m) PROVE BoardInv'
  <2>1. /\ members' \subseteq Installed /\ hosted' \subseteq members' /\ closing' \subseteq hosted'
        /\ Save(path, members') /\ up' /\ (hosted' = members' \/ "hosting" \in failed)
    BY <1>1 DEF Drop, Operates, BoardInv, BoardType, Hosted
  <2> QED
    BY <1>1, <2>1, SavesBoard DEF Drop
<1>2. ASSUME NEW m \in Member, CloseClick(m) PROVE BoardInv'
  BY <1>2 DEF CloseClick, Operates, BoardInv, BoardType, Remembered, Hosted
<1>3. ASSUME NEW ms \in SUBSET hosted, Remove(ms) PROVE BoardInv'
  <2>1. /\ members' \subseteq Installed /\ hosted' \subseteq members' /\ closing' \subseteq hosted'
        /\ Save(path, members') /\ up' /\ (hosted' = members' \/ "hosting" \in failed)
    BY <1>3 DEF Remove, Operates, BoardInv, BoardType, Hosted
  <2> QED
    BY <1>3, <2>1, SavesBoard DEF Remove
<1>4. ASSUME NEW g \in Graph, Load(g) PROVE BoardInv'
  <2>1. CASE Switch(g) \/ Halts(g)
    BY <1>4, <2>1, LoadsBoard DEF Load, BoardInv, BoardType
  <2>2. CASE Refuse
    BY <1>4, <2>2 DEF Load, Refuse, Operates, BoardInv, BoardType, Remembered, Hosted
  <2> QED
    BY <1>4, <2>1, <2>2 DEF Load, LoadGraph
<1>5. ASSUME NEW g \in Graph, SaveGraphAs(g) \/ (SaveGraph /\ g = path) PROVE BoardInv'
  <2>1. /\ members' \subseteq Installed /\ members' \in SUBSET Member /\ closing' = {} /\ up' /\ path' = g
        /\ hosted' \subseteq members'
        /\ disk' = [h \in Graph |-> IF h = g \/ (h = path /\ closing # {}) THEN Holding(members') ELSE disk[h]]
    BY <1>5, CanvasAssumption DEF SaveGraphAs, SaveGraph, SyncAndSave, Operates, BoardInv, BoardType
  <2>2. disk' \in [Graph -> File] /\ disk'[g] = Holding(members')
    BY <2>1, FileIs DEF BoardInv, BoardType
  <2>3. Shows(disk'[g]) = members'
    BY <2>1, <2>2, FileIs DEF Shows
  <2>4. pointer' \in Graph \cup {NoGraph} /\ failed' \subseteq {"remembering", "hosting"} /\ Remembered'
    BY <1>5, <2>1 DEF SaveGraphAs, SaveGraph, SyncAndSave, BoardInv, BoardType, Remembered
  <2>5. "hosting" \in failed => "hosting" \in failed'
    BY <1>5 DEF SaveGraphAs, SaveGraph
  <2>6. Hosted'
    BY <1>5, <2>5 DEF SaveGraphAs, SaveGraph, SyncAndSave, BoardInv, BoardType, Hosted
  <2> QED
    BY <2>1, <2>2, <2>3, <2>4, <2>6 DEF BoardInv, BoardType, ShowsBoard
<1>6. CASE Capture
  <2>1. /\ members' = members /\ hosted' = hosted /\ closing' = closing /\ up'
        /\ UNCHANGED <<pointer, path, failed>> /\ Save(path, members)
    BY <1>6 DEF Capture, Refuse, Operates
  <2>2. members \subseteq Installed /\ hosted' \subseteq members /\ closing' \subseteq hosted'
        /\ (hosted' = members \/ "hosting" \in failed)
    BY <2>1 DEF BoardInv, BoardType, Hosted
  <2> QED
    BY <2>1, <2>2, SavesBoard
<1>7. CASE DeleteGraph
  <2>1. disk' = [disk EXCEPT ![path] = Absent] /\ disk' \in [Graph -> File]
    BY <1>7, FileIs DEF DeleteGraph, BoardInv, BoardType
  <2>2. disk'[path].is # "graph"
    BY <2>1, FileIs DEF BoardInv, BoardType
  <2>3. CASE /\ members' = {} /\ hosted' = {} /\ closing' = {} /\ failed' = failed \ {"hosting"}
             /\ UNCHANGED <<pointer, path, ever>> /\ Operates
    BY <2>1, <2>2, <2>3 DEF BoardInv, BoardType, Remembered, Hosted, Operates
  <2>4. CASE \E g \in Graph : Switch(g) \/ Halts(g)
    BY <2>1, <2>4, LoadsBoard
  <2>5. CASE Refuse
    BY <2>1, <2>2, <2>5 DEF Refuse, Operates, BoardInv, BoardType, Remembered, Hosted
  <2> QED
    BY <1>7, <2>3, <2>4, <2>5 DEF DeleteGraph, LoadGraph, Left
<1> QED
  BY <1>1, <1>2, <1>3, <1>4, <1>5, <1>6, <1>7 DEF Operation, DeleteKey, SaveGraph, BoardInv, BoardType

\* Every step keeps what is remembered and what is shown.
LEMMA NextBoard == BoardInv /\ [Next]_vars => BoardInv'
<1> SUFFICES ASSUME BoardInv, [Next]_vars PROVE BoardInv'
  OBVIOUS
<1>0. BootPath \in Graph
  BY CanvasAssumption DEF BootPath, BoardInv, BoardType
<1>1. CASE UNCHANGED boardVars
  BY <1>1 DEF boardVars, BoardInv, BoardType, Remembered, Hosted
<1>2. CASE Boot
  <2>1. /\ path' = BootPath /\ path' \in Graph /\ up' /\ closing' = {} /\ failed' = {}
        /\ members' = Shows(disk[path']) /\ members' \subseteq Installed /\ hosted' = members'
    BY <1>0, <1>2 DEF Boot, Shows
  <2>2. CASE disk[path'].is = "absent"
    <3>1. disk' = [disk EXCEPT ![path'] = Holding({})] /\ pointer' = path'
      BY <1>2, <2>2 DEF Boot, Save
    <3>2. members' = {}
      BY <2>1, <2>2, FileIs DEF Shows, BoardInv, BoardType
    <3>3. disk' \in [Graph -> File] /\ Shows(disk'[path']) = {}
      BY <2>1, <3>1, FileIs DEF Shows, BoardInv, BoardType
    <3> QED
      BY <2>1, <3>1, <3>2, <3>3 DEF BoardInv, BoardType, Remembered, Hosted, ShowsBoard
  <2>3. CASE disk[path'].is = "broken"
    <3>1. UNCHANGED <<disk, pointer>>
      BY <1>2, <2>3 DEF Boot
    <3>2. path' = Default /\ (pointer = NoGraph \/ disk[pointer].is # "graph")
      BY <2>1, <2>3 DEF BootPath
    <3> QED
      BY <2>1, <2>3, <3>1, <3>2 DEF BoardInv, BoardType, Remembered, Hosted
  <2>4. CASE disk[path'].is \notin {"absent", "broken"}
    <3>1. pointer' = path' /\ disk' = disk
      BY <1>2, <2>4 DEF Boot
    <3> QED
      BY <2>1, <3>1 DEF BoardInv, BoardType, Remembered, Hosted, ShowsBoard
  <2> QED
    BY <2>2, <2>3, <2>4
<1>3. CASE Exit
  <2>1. members \in SUBSET Member
    BY CanvasAssumption DEF BoardInv, BoardType
  <2> QED
    BY <1>3, <2>1, FileIs DEF Exit, Save, Stops, BoardInv, BoardType
<1>4. CASE Crash
  <2>1. /\ up' = FALSE /\ UNCHANGED <<pointer, path>>
        /\ members' = {} /\ hosted' = {} /\ closing' = {} /\ failed' = {}
        /\ \E g \in Graph : disk' \in {disk, [disk EXCEPT ![g] = Broken]}
    BY <1>4 DEF Crash, Stops, BoardInv, BoardType
  <2>2. disk' \in [Graph -> File]
    BY <2>1, FileIs DEF BoardInv, BoardType
  <2> QED
    BY <2>1, <2>2 DEF BoardInv, BoardType
<1>5. CASE SyncMembers
  <2>1. /\ members' \subseteq Installed /\ hosted' \subseteq members' /\ closing' \subseteq hosted'
        /\ Save(path, members') /\ up /\ up' /\ (hosted' = members' \/ "hosting" \in failed)
        /\ UNCHANGED <<pointer, path, failed>>
    BY <1>5 DEF SyncMembers, Remove, Operates, BoardInv, BoardType, Hosted
  <2> QED
    BY <2>1, SavesBoard
<1>6. CASE up /\ Operation
  BY <1>6, OperationBoard
<1>7. CASE BootFails
  <2>1. /\ ~ up' /\ UNCHANGED <<up, path, members, hosted, closing, failed>>
        /\ pointer' \in Graph \cup {NoGraph}
    BY <1>0, <1>7 DEF BootFails, BoardInv, BoardType
  <2>2. disk' \in [Graph -> File]
    BY <1>0, <1>7, FileIs DEF BootFails, Save, BoardInv, BoardType
  <2>3. BoardType'
    BY <2>1, <2>2 DEF BoardInv, BoardType
  <2> QED
    BY <2>1, <2>3 DEF BoardInv
<1> QED
  BY <1>1, <1>2, <1>3, <1>4, <1>5, <1>6, <1>7
     DEF Next, Frame, vars, UserOnBoard, UserOnPad, Acts, PadOperation, PadTools, PadPump,
         Connect, Applies, Fires, Reads, Calls, Tool, GetsReply, GivesUp, ToolOnly

\* The board on the screen is what the next start shows, whatever was loaded,
\* saved, deleted, broken or left half written before; a load or save-as that failed
\* half way takes away only the part that it did not get done.
THEOREM NextBootRestoresEver == Spec => []NextBootRestores
<1>1. Init => BoardInv
  BY CanvasAssumption DEF Init, BoardInv, BoardType
<1>2. BoardInv => NextBootRestores
  BY CanvasAssumption
     DEF BoardInv, BoardType, Remembered, Hosted, ShowsBoard, NextBootRestores, BootPath
<1> QED
  BY <1>1, <1>2, NextBoard, PTL DEF Spec

-----------------------------------------------------------------------------
(***************************************************************************)
(* The notes, for any titles.                                              *)
(***************************************************************************)

PadType == [open : BOOLEAN, exist : SUBSET Name, text : [Name -> SUBSET Piece],
            current : Title \cup {NoTitle}, body : SUBSET Piece]
Command ==
  [verb : {"append"}, title : Title \cup {NoTitle}, piece : Piece] \cup
  [verb : {"create", "switch"}, title : Title, piece : Piece]

\* A pad that is open and has the file of its current note.
Turned(p) ==
  p \in PadType /\ p.open /\ p.current \in Title /\ Stem[p.current] \in p.exist

\* Its editor shows the current note, or nothing when that goes by another title.
Open(p) == Turned(p) /\ p.body = IF p.current \in p.exist THEN p.text[p.current] ELSE {}

\* The pad calls its current note by its name, or the note is one that a command
\* added to under another title.
Called(p, f, ms) == p.current \in p.exist \/ <<f, Stem[p.current]>> \in ms

\* What the pad has of its folder is what is in the files, and the editor is up to
\* date: no operation can write anything back that is older.
NotesInv ==
  /\ files \in [Root -> Folder] /\ root \in Root
  /\ accepted \in [Root -> [Name -> SUBSET Piece]] /\ used \subseteq Piece
  /\ inbox \in Seq(Command)
  /\ pad = NoPad \/ (Open(pad) /\ Called(pad, root, misnamed) /\ pad.text = files[root].text)
  /\ TextsAreKept

\* The name of a note's file is a title, its own.
LEMMA StemNames ==
  /\ \A t \in Title : Stem[t] \in Name /\ Stem[t] \in Title /\ Stem[Stem[t]] = Stem[t] /\ t # NoTitle
  /\ \A t \in Name : t \in Title /\ Stem[t] = t
BY NotepadAssumption DEF Name

\* Creating a note, or turning to it, field by field.
LEMMA CreateIs ==
  ASSUME NEW p \in PadType, NEW t \in Title
  PROVE  /\ Create(p, t) \in PadType
         /\ Create(p, t).open = p.open /\ Create(p, t).exist = p.exist \cup {Stem[t]}
         /\ Create(p, t).text = p.text /\ Create(p, t).body = p.body
         /\ Create(p, t).current = Stem[t]
<1> DEFINE n == Stem[t]
<1>1. n \in Name /\ n \in Title
  BY StemNames
<1> DEFINE q == [p EXCEPT !.exist = p.exist \cup {n}, !.current = n]
<1>4. Create(p, t) = q
  BY DEF Create
<1> HIDE DEF n
<1>2. q \in PadType
  BY <1>1 DEF PadType
<1>3. q.open = p.open /\ q.exist = p.exist \cup {n} /\ q.text = p.text /\ q.body = p.body /\ q.current = n
  BY DEF PadType
<1> QED
  BY <1>2, <1>3, <1>4 DEF n

\* The texts of a pad when a piece was put into a note.
With(p, n, c) == [p.text EXCEPT ![n] = p.text[n] \cup {c}]

\* They are texts, and all but that note's are as they were.
LEMMA WithIs ==
  ASSUME NEW p \in PadType, NEW n \in Name, NEW c \in Piece
  PROVE  /\ With(p, n, c) \in [Name -> SUBSET Piece]
         /\ With(p, n, c)[n] = p.text[n] \cup {c}
         /\ \A u \in Name \ {n} : With(p, n, c)[u] = p.text[u]
BY DEF With, PadType

\* Adding to a note, which is created when the title finds none.
LEMMA AddedIs ==
  ASSUME NEW p \in PadType, NEW t \in Title, NEW c \in Piece
  PROVE  LET q == Added(p, t, c)
         IN  /\ q \in PadType /\ q.open = p.open /\ q.exist = p.exist \cup {Stem[t]}
             /\ q.current = t /\ q.text = With(p, Stem[t], c)
<1> DEFINE r == IF t \in p.exist THEN p ELSE Create(p, t)
           n == Stem[t]
           text == With(p, n, c)
<1>1. (t \in p.exist => t = n) /\ n \in Name
  BY StemNames DEF PadType
<1>2. r \in PadType /\ r.open = p.open /\ r.exist = p.exist \cup {n} /\ r.text = p.text
  <2>1. CASE t \in p.exist
    <3>1. p.exist \cup {n} = p.exist
      BY <1>1, <2>1
    <3> QED
      BY <2>1, <3>1
  <2>2. CASE t \notin p.exist
    BY <2>2, CreateIs
  <2> QED
    BY <2>1, <2>2
<1>3. Added(p, t, c) = [r EXCEPT !.text = [r.text EXCEPT ![n] = r.text[n] \cup {c}], !.current = t]
  BY <1>1 DEF Added
<1> HIDE DEF r, n
<1>4. Added(p, t, c) = [r EXCEPT !.text = text, !.current = t]
  BY <1>2, <1>3 DEF With
<1>5. text \in [Name -> SUBSET Piece]
  BY <1>1, WithIs
<1> HIDE DEF text
<1> DEFINE q == [r EXCEPT !.text = text, !.current = t]
<1>6. q \in PadType /\ q.open = r.open /\ q.exist = r.exist /\ q.current = t /\ q.text = text
  BY <1>2, <1>5 DEF PadType
<1> QED
  BY <1>2, <1>4, <1>6 DEF n, text

\* Creating a note with a text.
LEMMA CreatedIs ==
  ASSUME NEW p \in PadType, NEW t \in Title, NEW c \in Piece
  PROVE  LET q == Created(p, t, c)
         IN  /\ q \in PadType /\ q.open = p.open /\ q.exist = p.exist \cup {Stem[t]}
             /\ q.current = Stem[t] /\ q.text = With(p, Stem[t], c)
<1> DEFINE r == Create(p, t)
           n == Stem[t]
           text == With(p, n, c)
<1>1. n \in Name /\ n \in Title
  BY StemNames
<1>2. /\ r \in PadType /\ r.open = p.open /\ r.exist = p.exist \cup {n} /\ r.text = p.text
      /\ r.current = n
  BY CreateIs
<1>3. Created(p, t, c) = [r EXCEPT !.text = [r.text EXCEPT ![n] = r.text[n] \cup {c}]]
  BY DEF Created
<1> HIDE DEF r, n
<1>4. Created(p, t, c) = [r EXCEPT !.text = text]
  BY <1>2, <1>3 DEF With
<1>5. text \in [Name -> SUBSET Piece]
  BY <1>1, WithIs
<1> HIDE DEF text
<1> DEFINE q == [r EXCEPT !.text = text]
<1>6. q \in PadType /\ q.open = r.open /\ q.exist = r.exist /\ q.current = r.current /\ q.text = text
  BY <1>2, <1>5 DEF PadType
<1> QED
  BY <1>2, <1>4, <1>6 DEF n, text

\* Taking the editor's text.
LEMMA FlushIs ==
  ASSUME NEW p \in PadType, p.current \in Title
  PROVE  LET q == Flush(p)
             n == Stem[p.current]
         IN  /\ q \in PadType /\ q.open = p.open /\ q.exist = p.exist \cup {n}
             /\ q.body = p.body /\ q.current = n
             /\ q.text[n] = p.body /\ \A u \in Name \ {n} : q.text[u] = p.text[u]
<1> DEFINE n == Stem[p.current]
           r == Create(p, p.current)
           text == [r.text EXCEPT ![n] = p.body]
<1>1. p.current # NoTitle /\ n \in Name
  BY StemNames
<1>2. /\ r \in PadType /\ r.open = p.open /\ r.exist = p.exist \cup {n}
      /\ r.text = p.text /\ r.body = p.body /\ r.current = n
  BY CreateIs
<1>3. Flush(p) = [r EXCEPT !.text = text]
  BY <1>1 DEF Flush
<1> HIDE DEF n, r
<1>4. text \in [Name -> SUBSET Piece] /\ text[n] = p.body /\ \A u \in Name \ {n} : text[u] = p.text[u]
  BY <1>1, <1>2 DEF PadType
<1> HIDE DEF text
<1> DEFINE q == [r EXCEPT !.text = text]
<1>5. /\ q \in PadType /\ q.open = r.open /\ q.exist = r.exist /\ q.current = r.current
      /\ q.body = r.body /\ q.text = text
  BY <1>2, <1>4 DEF PadType
<1> QED
  BY <1>2, <1>3, <1>4, <1>5 DEF n

\* Showing the current note.
LEMMA ShownIs ==
  ASSUME NEW p, Turned(p)
  PROVE  /\ Open(Shown(p)) /\ Shown(p).text = p.text
         /\ Shown(p).exist = p.exist /\ Shown(p).current = p.current
<1> DEFINE b == IF p.current \in p.exist THEN p.text[p.current] ELSE {}
           q == [p EXCEPT !.body = b]
<1>1. b \in SUBSET Piece /\ Shown(p) = q
  BY DEF Shown, Turned, PadType
<1> HIDE DEF b
<1>2. /\ q \in PadType /\ q.open = p.open /\ q.exist = p.exist /\ q.current = p.current
      /\ q.text = p.text /\ q.body = b
  BY <1>1 DEF Turned, PadType
<1> QED
  BY <1>1, <1>2 DEF b, Open, Turned

\* A pad that was loaded shows one of its notes.
LEMMA LoadedIs ==
  ASSUME NEW folder \in Folder, NEW p \in Loaded(folder)
  PROVE  Open(p) /\ p.current \in p.exist /\ p.text = folder.text
<1>1. PICK t \in IF folder.exist = {} THEN {FirstTitle} ELSE folder.exist :
        p = Shown([NoPad EXCEPT !.open = TRUE, !.current = t,
                     !.exist = folder.exist \cup {t}, !.text = folder.text])
  BY DEF Loaded
<1>2. t \in Name /\ t \in Title /\ Stem[t] = t
  BY NotepadAssumption DEF Folder, Name
<1> DEFINE q == [NoPad EXCEPT !.open = TRUE, !.current = t,
                   !.exist = folder.exist \cup {t}, !.text = folder.text]
<1>3. /\ q.open /\ q.exist = folder.exist \cup {t} /\ q.text = folder.text /\ q.current = t /\ q.body = {}
  BY DEF NoPad
<1>4. NoPad \in [open : BOOLEAN, exist : SUBSET Name, text : [Name -> SUBSET Piece],
                 current : Title \cup {NoTitle}, body : SUBSET Piece]
  BY DEF NoPad
<1>5. q \in PadType
  BY <1>2, <1>4 DEF PadType, Folder
<1>6. p = Shown(q)
  BY <1>1
<1> HIDE DEF q
<1>7. Turned(q) /\ q.current \in q.exist
  BY <1>2, <1>3, <1>5 DEF Turned
<1> QED
  BY <1>3, <1>6, <1>7, ShownIs

\* Saving a pad whose other notes are as they are in the files.
LEMMA SavedIs ==
  ASSUME files \in [Root -> Folder], root \in Root, NEW p \in PadType,
         \A t \in Name \ p.exist : p.text[t] = files[root].text[t]
  PROVE  /\ Saved(p) \in [Root -> Folder]
         /\ Saved(p)[root].text = p.text
         /\ \A f \in Root \ {root} : Saved(p)[f] = files[f]
<1> DEFINE F == [exist |-> files[root].exist \cup p.exist,
                 text  |-> [t \in Name |-> IF t \in p.exist THEN p.text[t] ELSE files[root].text[t]]]
<1>1. Saved(p) = [files EXCEPT ![root] = F]
  BY DEF Saved
<1>2. F.text = p.text
  BY DEF PadType, Folder
<1>3. F \in Folder
  BY DEF PadType, Folder
<1> QED
  BY <1>1, <1>2, <1>3

\* An editor that is up to date changes no text when it is taken; one that shows
\* nothing, as its note goes by another title, wipes that note.
LEMMA FlushKeeps ==
  ASSUME NEW p, Open(p), NEW f, NEW ms, Called(p, f, ms)
  PROVE  /\ Open(Flush(p)) /\ Flush(p).exist = p.exist /\ Flush(p).current \in p.exist
         /\ \A u \in Name \ p.exist : Flush(p).text[u] = p.text[u]
         /\ \A u \in Name : <<f, u>> \notin ms => Flush(p).text[u] = p.text[u]
<1> DEFINE n == Stem[p.current]
<1>1. p \in PadType /\ p.current \in Title /\ n \in p.exist /\ n \in Name /\ n \in Title /\ Stem[n] = n
  BY StemNames DEF Open, Turned
<1>2. p.exist \cup {n} = p.exist
  BY <1>1
<1>3. LET q == Flush(p)
      IN  /\ q \in PadType /\ q.open = p.open /\ q.exist = p.exist
          /\ q.body = p.body /\ q.current = n
          /\ q.text[n] = p.body /\ \A u \in Name \ {n} : q.text[u] = p.text[u]
  BY <1>1, <1>2, FlushIs
<1>4. p.current \in p.exist => p.current = n /\ p.body = p.text[n]
  BY <1>1, StemNames DEF Open, PadType
<1>5. <<f, n>> \notin ms => p.body = p.text[n]
  BY <1>4 DEF Called
<1> HIDE DEF n
<1>6. Open(Flush(p))
  BY <1>1, <1>3 DEF Open, Turned
<1> QED
  BY <1>1, <1>3, <1>5, <1>6

\* An operation that persists and refreshes.
LEMMA StoresIs ==
  ASSUME files \in [Root -> Folder], root \in Root, NEW p, Turned(p),
         \A t \in Name \ p.exist : p.text[t] = files[root].text[t], Stores(p)
  PROVE  /\ files' \in [Root -> Folder] /\ files'[root].text = p.text
         /\ \A f \in Root \ {root} : files'[f] = files[f]
         /\ Open(pad') /\ pad'.text = p.text
         /\ pad'.exist = p.exist /\ pad'.current = p.current
BY SavedIs, ShownIs DEF Stores, Turned

\* What the canvas saves when it shuts the pad is what the files hold, but for a
\* note that was called by another title.
LEMMA FlushSaves ==
  ASSUME NotesInv
  PROVE  /\ Saved(Flush(pad)) \in [Root -> Folder]
         /\ \A f \in Root, t \in Name :
              <<f, t>> \notin misnamed => Saved(Flush(pad))[f].text[t] = files[f].text[t]
<1>0. files \in [Root -> Folder] /\ root \in Root
  BY DEF NotesInv
<1>1. CASE pad = NoPad
  <2>1. Flush(pad) = NoPad
    BY <1>1 DEF Flush, NoPad
  <2> DEFINE F == [exist |-> files[root].exist \cup NoPad.exist,
                   text  |-> [t \in Name |-> IF t \in NoPad.exist THEN NoPad.text[t] ELSE files[root].text[t]]]
  <2>2. Saved(NoPad) = [files EXCEPT ![root] = F]
    BY DEF Saved
  <2>3. F \in Folder /\ F.text = files[root].text
    BY <1>0 DEF NoPad, Folder
  <2> QED
    BY <1>0, <2>1, <2>2, <2>3
<1>2. CASE Open(pad) /\ Called(pad, root, misnamed) /\ pad.text = files[root].text
  <2> DEFINE q == Flush(pad)
  <2>1. /\ q \in PadType /\ \A u \in Name \ q.exist : q.text[u] = files[root].text[u]
        /\ \A u \in Name : <<root, u>> \notin misnamed => q.text[u] = files[root].text[u]
    BY <1>2, FlushKeeps DEF Open, Turned
  <2> HIDE DEF q
  <2>2. /\ Saved(q) \in [Root -> Folder] /\ Saved(q)[root].text = q.text
        /\ \A f \in Root \ {root} : Saved(q)[f] = files[f]
    BY <1>0, <2>1, SavedIs
  <2> QED
    BY <1>0, <2>1, <2>2 DEF q
<1> QED
  BY <1>1, <1>2 DEF NotesInv

\* No text is lost by a step that adds to texts, or marks the file it spoils.
LEMMA KeptWhenKept ==
  ASSUME TextsAreKept, accepted' = accepted, torn \subseteq torn', misnamed \subseteq misnamed',
         \A f \in Root, t \in Name :
           <<f, t>> \notin torn' \cup misnamed' => files[f].text[t] \subseteq files'[f].text[t]
  PROVE  TextsAreKept'
BY DEF TextsAreKept

\* A pad that is opened shows what is in its folder, unless it could not be built.
LEMMA OpensIs ==
  ASSUME NEW folders \in [Root -> Folder], Opens(folders)
  PROVE  /\ root' \in Root
         /\ \/ pad' = NoPad
            \/ Open(pad') /\ pad'.current \in pad'.exist /\ pad'.text = folders[root'].text
BY LoadedIs DEF Opens

\* The canvas hosts, shuts and replaces the pad.
LEMMA HostingNotes ==
  ASSUME NotesInv, UNCHANGED <<inbox, accepted, torn, misnamed, used>>,
         Shuts \/ Reopens \/ (Opens(files) /\ UNCHANGED files) \/ PadUnmoved
  PROVE  NotesInv'
<1>1. CASE Shuts
  <2>1. /\ files' \in [Root -> Folder]
        /\ \A f \in Root, t \in Name : <<f, t>> \notin misnamed => files'[f].text[t] = files[f].text[t]
    BY <1>1, FlushSaves DEF Shuts
  <2>2. TextsAreKept'
    BY <2>1, KeptWhenKept DEF NotesInv
  <2> QED
    BY <1>1, <2>1, <2>2 DEF Shuts, NotesInv
<1>2. CASE Reopens
  <2>1. /\ files' \in [Root -> Folder]
        /\ \A f \in Root, t \in Name : <<f, t>> \notin misnamed => files'[f].text[t] = files[f].text[t]
    BY <1>2, FlushSaves DEF Reopens
  <2>2. TextsAreKept'
    BY <2>1, KeptWhenKept DEF NotesInv
  <2>3. /\ root' \in Root
        /\ \/ pad' = NoPad
           \/ Open(pad') /\ pad'.current \in pad'.exist /\ pad'.text = files'[root'].text
    BY <1>2, <2>1, OpensIs DEF Reopens
  <2> QED
    BY <2>1, <2>2, <2>3 DEF NotesInv, Called
<1>3. CASE Opens(files) /\ UNCHANGED files
  <2>1. /\ root' \in Root
        /\ \/ pad' = NoPad
           \/ Open(pad') /\ pad'.current \in pad'.exist /\ pad'.text = files'[root'].text
    BY <1>3, OpensIs DEF NotesInv
  <2>2. TextsAreKept'
    BY <1>3, KeptWhenKept DEF NotesInv
  <2> QED
    BY <1>3, <2>1, <2>2 DEF NotesInv, Called
<1>4. CASE PadUnmoved
  BY <1>4 DEF PadUnmoved, NotesInv, TextsAreKept, Open, Turned, Called
<1> QED
  BY <1>1, <1>2, <1>3, <1>4

\* The process dies: at worst it tears the file that it is writing.
LEMMA DyingNotes ==
  ASSUME NotesInv, NEW writing \in BOOLEAN, PadDies(writing), writing \/ UNCHANGED torn,
         UNCHANGED <<root, inbox, accepted, misnamed, used>>
  PROVE  NotesInv'
<1>1. CASE ~ writing
  BY <1>1 DEF PadDies, NotesInv, TextsAreKept
<1>2. CASE writing
  <2>1. PICK t \in pad.exist : /\ files' = [files EXCEPT ![root].text[t] = {}]
                               /\ torn' = torn \cup {<<root, t>>}
    BY <1>2 DEF PadDies
  <2>2. t \in Name
    BY <2>1 DEF NotesInv, Open, Turned, PadType, NoPad
  <2> DEFINE F == [files[root] EXCEPT !.text[t] = {}]
  <2>3. files[root] \in Folder /\ files' = [files EXCEPT ![root] = F]
    BY <2>1 DEF NotesInv
  <2>4. F \in Folder /\ F.text = [files[root].text EXCEPT ![t] = {}]
    BY <2>2, <2>3 DEF Folder
  <2>5. files' \in [Root -> Folder]
    BY <2>3, <2>4 DEF NotesInv
  <2>6. \A f \in Root, u \in Name : <<f, u>> \notin torn' => files[f].text[u] \subseteq files'[f].text[u]
    BY <2>1, <2>2, <2>3, <2>4 DEF NotesInv, Folder
  <2>7. TextsAreKept'
    BY <2>1, <2>6, KeptWhenKept DEF NotesInv
  <2> QED
    BY <1>2, <2>5, <2>7 DEF PadDies, NotesInv
<1> QED
  BY <1>1, <1>2

\* An operation of the pad that keeps or adds to every text of its folder, and
\* that accepts only what it put in.
LEMMA StoringNotes ==
  ASSUME NotesInv, NEW q, Turned(q), Called(q, root, misnamed'), Stores(q),
         \A t \in Name \ q.exist : q.text[t] = files[root].text[t],
         accepted' \in [Root -> [Name -> SUBSET Piece]], used' \subseteq Piece, inbox' \in Seq(Command),
         UNCHANGED <<root, torn>>, misnamed \subseteq misnamed',
         \A f \in Root \ {root} : accepted'[f] = accepted[f],
         \A t \in Name : <<root, t>> \notin torn \cup misnamed' => accepted'[root][t] \subseteq q.text[t]
  PROVE  NotesInv'
<1>1. /\ files' \in [Root -> Folder] /\ files'[root].text = q.text /\ root \in Root
      /\ \A f \in Root \ {root} : files'[f] = files[f]
      /\ Open(pad') /\ pad'.text = q.text /\ pad'.exist = q.exist /\ pad'.current = q.current
  BY StoresIs DEF NotesInv
<1>2. TextsAreKept'
  BY <1>1 DEF NotesInv, TextsAreKept
<1>3. Called(pad', root', misnamed')
  BY <1>1 DEF Called
<1> QED
  BY <1>1, <1>2, <1>3 DEF NotesInv

\* A piece is typed, or deleted by the user.
LEMMA TypingNotes ==
  ASSUME NotesInv, NEW c \in Piece, Type(c) \/ Erase(c)
  PROVE  NotesInv'
<1>1. Open(pad) /\ Called(pad, root, misnamed) /\ pad.text = files[root].text /\ root \in Root
  BY DEF Type, Erase, NotesInv, NoPad
<1> DEFINE n == Stem[pad.current]
<1>2. /\ pad \in PadType /\ pad.open /\ pad.current \in Title /\ n \in pad.exist
      /\ n \in Name /\ n \in Title /\ Stem[n] = n
  BY <1>1, StemNames DEF Open, Turned
<1>3. ASSUME NEW b \in SUBSET Piece, Stores(Flush([pad EXCEPT !.body = b])),
             accepted' \in [Root -> [Name -> SUBSET Piece]], used' \subseteq Piece,
             UNCHANGED <<root, inbox, torn, misnamed>>,
             \A f \in Root \ {root} : accepted'[f] = accepted[f],
             \A t \in Name \ {n} : accepted'[root][t] = accepted[root][t],
             <<root, n>> \notin torn \cup misnamed => accepted'[root][n] \subseteq b
      PROVE  NotesInv'
  <2> DEFINE p == [pad EXCEPT !.body = b]
             q == Flush(p)
  <2>1. /\ p \in PadType /\ p.open /\ p.current = pad.current /\ p.exist = pad.exist
        /\ p.text = pad.text /\ p.body = b
    BY <1>2 DEF PadType
  <2>3. Stores(q)
    BY <1>3
  <2> HIDE DEF p, n
  <2>2. /\ q \in PadType /\ q.open /\ q.exist = pad.exist \cup {n} /\ q.current = n
        /\ q.text[n] = b /\ \A u \in Name \ {n} : q.text[u] = pad.text[u]
    BY <1>2, <2>1, FlushIs DEF n
  <2> HIDE DEF q
  <2>4. \A t \in Name \ q.exist : q.text[t] = files[root].text[t]
    BY <1>1, <1>2, <2>2
  <2>5. \A t \in Name : <<root, t>> \notin torn \cup misnamed' => accepted'[root][t] \subseteq q.text[t]
    <3>1. \A t \in Name : <<root, t>> \notin torn \cup misnamed => accepted[root][t] \subseteq pad.text[t]
      BY <1>1 DEF NotesInv, TextsAreKept
    <3> QED
      BY <1>3, <2>2, <3>1
  <2>6. inbox' \in Seq(Command)
    BY <1>3 DEF NotesInv
  <2>7. Turned(q) /\ Called(q, root, misnamed')
    BY <1>2, <2>2 DEF Turned, Called
  <2> QED
    BY <1>3, <2>3, <2>4, <2>5, <2>6, <2>7, StoringNotes
<1>4. <<root, n>> \notin torn \cup misnamed => accepted[root][n] \subseteq pad.body
  <2>1. <<root, n>> \notin misnamed => pad.body = pad.text[n]
    BY <1>1, <1>2, StemNames DEF Open, Called, PadType
  <2> QED
    BY <1>1, <1>2, <2>1 DEF NotesInv, TextsAreKept
<1>5. pad.body \subseteq Piece
  BY <1>2 DEF PadType
<1>6. CASE Type(c)
  <2>1. /\ Stores(Flush([pad EXCEPT !.body = pad.body \cup {c}]))
        /\ accepted' = [accepted EXCEPT ![root] = [accepted[root] EXCEPT ![n] = accepted[root][n] \cup {c}]]
        /\ used' = used \cup {c} /\ UNCHANGED <<root, inbox, torn, misnamed>>
    BY <1>6 DEF Type, Accept
  <2> HIDE DEF n
  <2>2. /\ accepted' \in [Root -> [Name -> SUBSET Piece]] /\ used' \subseteq Piece
        /\ \A f \in Root \ {root} : accepted'[f] = accepted[f]
        /\ \A t \in Name \ {n} : accepted'[root][t] = accepted[root][t]
        /\ accepted'[root][n] = accepted[root][n] \cup {c}
    BY <1>1, <1>2, <2>1 DEF NotesInv
  <2> DEFINE b == pad.body \cup {c}
  <2>3. b \in SUBSET Piece /\ (<<root, n>> \notin torn \cup misnamed => accepted'[root][n] \subseteq b)
    BY <1>4, <1>5, <2>2
  <2>4. Stores(Flush([pad EXCEPT !.body = b]))
    BY <2>1
  <2> HIDE DEF b
  <2> QED
    BY <1>3, <2>1, <2>2, <2>3, <2>4
<1>7. CASE Erase(c)
  <2>1. /\ Stores(Flush([pad EXCEPT !.body = pad.body \ {c}]))
        /\ accepted' = [accepted EXCEPT ![root] = [accepted[root] EXCEPT ![n] = accepted[root][n] \ {c}]]
        /\ UNCHANGED <<root, inbox, torn, misnamed, used>>
    BY <1>7 DEF Erase
  <2> HIDE DEF n
  <2>2. /\ accepted' \in [Root -> [Name -> SUBSET Piece]] /\ used' \subseteq Piece
        /\ \A f \in Root \ {root} : accepted'[f] = accepted[f]
        /\ \A t \in Name \ {n} : accepted'[root][t] = accepted[root][t]
        /\ accepted'[root][n] = accepted[root][n] \ {c}
    BY <1>1, <1>2, <2>1 DEF NotesInv
  <2> DEFINE b == pad.body \ {c}
  <2>3. b \in SUBSET Piece /\ (<<root, n>> \notin torn \cup misnamed => accepted'[root][n] \subseteq b)
    BY <1>4, <1>5, <2>2
  <2>4. Stores(Flush([pad EXCEPT !.body = b]))
    BY <2>1
  <2> HIDE DEF b
  <2> QED
    BY <1>3, <2>1, <2>2, <2>3, <2>4
<1> QED
  BY <1>6, <1>7

\* The user turns to a note, includes, or attaches another folder.
LEMMA TurningNotes ==
  ASSUME NotesInv,
         (\E t \in Title : TurnTo(t)) \/ Include \/ (\E f \in Root : Attach(f))
  PROVE  NotesInv'
<1>1. Open(pad) /\ Called(pad, root, misnamed) /\ pad.text = files[root].text /\ root \in Root
  BY DEF TurnTo, Include, Attach, NotesInv, NoPad
<1> DEFINE p == Flush(pad)
<1>2. /\ Open(p) /\ p \in PadType /\ p.open /\ p.current \in p.exist
      /\ \A u \in Name \ p.exist : p.text[u] = files[root].text[u]
      /\ \A u \in Name : <<root, u>> \notin misnamed => p.text[u] = files[root].text[u]
  BY <1>1, FlushKeeps DEF Open, Turned
<1>3. ASSUME NEW t \in Title, TurnTo(t) PROVE NotesInv'
  <2> DEFINE q == Create(p, t)
             n == Stem[t]
  <2>1. /\ q \in PadType /\ q.open /\ q.current = n /\ q.exist = p.exist \cup {n}
        /\ q.text = p.text /\ n \in Title /\ Stem[n] = n
    BY <1>2, CreateIs, StemNames
  <2>2. Stores(q) /\ UNCHANGED <<root, inbox, accepted, torn, misnamed, used>>
    BY <1>3 DEF TurnTo
  <2> HIDE DEF q, p, n
  <2>3. \A u \in Name : <<root, u>> \notin torn \cup misnamed' => accepted'[root][u] \subseteq q.text[u]
    BY <1>1, <1>2, <2>1, <2>2 DEF NotesInv, TextsAreKept
  <2>4. Turned(q) /\ Called(q, root, misnamed')
    BY <2>1 DEF Turned, Called
  <2> QED
    BY <1>2, <2>1, <2>2, <2>3, <2>4, StoringNotes DEF NotesInv
<1>4. CASE Include
  <2>1. /\ files' = Saved(p) /\ pad' = p /\ UNCHANGED <<root, inbox, accepted, torn, misnamed, used>>
    BY <1>4 DEF Include
  <2>2. /\ files' \in [Root -> Folder]
        /\ \A f \in Root, t \in Name : <<f, t>> \notin misnamed => files'[f].text[t] = files[f].text[t]
    BY <2>1, FlushSaves
  <2> HIDE DEF p
  <2>3. files'[root].text = p.text
    BY <1>1, <1>2, <2>1, SavedIs DEF NotesInv
  <2>4. TextsAreKept'
    BY <2>1, <2>2, KeptWhenKept DEF NotesInv
  <2> QED
    BY <1>1, <1>2, <2>1, <2>2, <2>3, <2>4 DEF NotesInv, Called
<1>5. ASSUME NEW f \in Root, Attach(f) PROVE NotesInv'
  <2>1. /\ pad' \in Loaded(files[f]) /\ root' = f /\ files[f] \in Folder
        /\ UNCHANGED <<files, inbox, accepted, torn, misnamed, used>>
    BY <1>5 DEF Attach, NotesInv
  <2>2. Open(pad') /\ pad'.current \in pad'.exist /\ pad'.text = files'[root'].text
    BY <2>1, LoadedIs
  <2>3. TextsAreKept'
    BY <2>1, KeptWhenKept DEF NotesInv
  <2> QED
    BY <1>5, <2>1, <2>2, <2>3 DEF NotesInv, Called
<1> QED
  BY <1>3, <1>4, <1>5

\* The pad applies a command: it takes the editor's text before it adds another.
LEMMA ApplyingNotes ==
  ASSUME NotesInv, PadApplies
  PROVE  NotesInv'
<1> DEFINE cmd == Head(inbox)
           p == Flush(pad)
           t == IF cmd.title = NoTitle THEN p.current ELSE cmd.title
           n == Stem[t]
           c == cmd.piece
<1>1. Open(pad) /\ Called(pad, root, misnamed) /\ pad.text = files[root].text /\ root \in Root
  BY DEF PadApplies, NotesInv, NoPad
<1>2. /\ p \in PadType /\ p.open /\ p.current \in Title
      /\ \A u \in Name \ p.exist : p.text[u] = files[root].text[u]
      /\ \A u \in Name : <<root, u>> \notin misnamed => p.text[u] = files[root].text[u]
  BY <1>1, FlushKeeps DEF Open, Turned
<1>3. /\ cmd \in Command /\ inbox' = Tail(inbox) /\ inbox' \in Seq(Command)
      /\ UNCHANGED <<root, torn>>
  BY DEF PadApplies, NotesInv
<1>4. \A u \in Name : <<root, u>> \notin torn \cup misnamed => accepted[root][u] \subseteq p.text[u]
  BY <1>1, <1>2 DEF NotesInv, TextsAreKept
<1>5. t \in Title /\ n \in Name /\ n \in Title /\ Stem[n] = n /\ c \in Piece
  BY <1>2, <1>3, StemNames DEF Command
<1>6. ASSUME NEW q \in PadType, Stores(q), q.open, q.exist = p.exist \cup {n}, Stem[q.current] = n,
             q.current \in Title, q.current = n \/ <<root, n>> \in misnamed',
             q.text = With(p, n, c),
             accepted' = [accepted EXCEPT ![root] = [accepted[root] EXCEPT ![n] = accepted[root][n] \cup {c}]],
             used' = used \cup {c}, misnamed \subseteq misnamed'
      PROVE  NotesInv'
  <2> HIDE DEF cmd, p, t, n, c
  <2>1. Turned(q) /\ Called(q, root, misnamed')
    BY <1>6 DEF Turned, Called
  <2>2. q.text[n] = p.text[n] \cup {c} /\ \A u \in Name \ {n} : q.text[u] = p.text[u]
    BY <1>2, <1>5, <1>6, WithIs
  <2>3. \A u \in Name \ q.exist : q.text[u] = files[root].text[u]
    BY <1>2, <1>6, <2>2
  <2>4. /\ accepted' \in [Root -> [Name -> SUBSET Piece]] /\ used' \subseteq Piece
        /\ \A f \in Root \ {root} : accepted'[f] = accepted[f]
        /\ \A u \in Name \ {n} : accepted'[root][u] = accepted[root][u]
        /\ accepted'[root][n] = accepted[root][n] \cup {c}
    BY <1>1, <1>5, <1>6 DEF NotesInv
  <2>5. \A u \in Name : <<root, u>> \notin torn \cup misnamed' => accepted'[root][u] \subseteq q.text[u]
    BY <1>4, <1>6, <2>2, <2>4
  <2> QED
    BY <1>3, <1>6, <2>1, <2>3, <2>4, <2>5, StoringNotes
<1>7. p \in PadType /\ t \in Title /\ c \in Piece
  BY <1>2, <1>5
<1>8. CASE cmd.verb = "append"
  <2>1. /\ Stores(Added(p, t, c))
        /\ accepted' = [accepted EXCEPT ![root] = [accepted[root] EXCEPT ![n] = accepted[root][n] \cup {c}]]
        /\ used' = used \cup {c}
        /\ misnamed' = IF t = n THEN misnamed ELSE misnamed \cup {<<root, n>>}
    BY <1>8 DEF PadApplies, Accept
  <2> HIDE DEF cmd, p, t, c
  <2> DEFINE q == Added(p, t, c)
  <2>2. q \in PadType /\ q.open = p.open /\ q.exist = p.exist \cup {n} /\ q.current = t /\ q.text = With(p, n, c)
    BY <1>7, AddedIs
  <2>3. Stores(q) /\ Stem[q.current] = n
    BY <2>1, <2>2
  <2> HIDE DEF n, q
  <2>4. misnamed \subseteq misnamed' /\ (q.current = n \/ <<root, n>> \in misnamed')
    BY <2>1, <2>2
  <2> QED
    BY <1>2, <1>5, <1>6, <2>1, <2>2, <2>3, <2>4
<1>9. CASE cmd.verb = "create"
  <2>1. /\ Stores(Created(p, t, c))
        /\ accepted' = [accepted EXCEPT ![root] = [accepted[root] EXCEPT ![n] = accepted[root][n] \cup {c}]]
        /\ used' = used \cup {c} /\ misnamed' = misnamed
    BY <1>9 DEF PadApplies, Accept
  <2> HIDE DEF cmd, p, t, c
  <2> DEFINE q == Created(p, t, c)
  <2>2. q \in PadType /\ q.open = p.open /\ q.exist = p.exist \cup {n} /\ q.current = n /\ q.text = With(p, n, c)
    BY <1>7, CreatedIs
  <2>3. Stores(q)
    BY <2>1
  <2> HIDE DEF n, q
  <2> QED
    BY <1>2, <1>5, <1>6, <2>1, <2>2, <2>3
<1>10. CASE cmd.verb = "switch"
  <2>1. Stores(Create(p, t)) /\ UNCHANGED <<accepted, used, misnamed>>
    BY <1>10 DEF PadApplies
  <2> HIDE DEF cmd, p, t, c
  <2> DEFINE q == Create(p, t)
  <2>2. q \in PadType /\ q.open = p.open /\ q.exist = p.exist \cup {n} /\ q.text = p.text /\ q.current = n
    BY <1>7, CreateIs
  <2>3. Stores(q)
    BY <2>1
  <2> HIDE DEF n, q
  <2>4. Turned(q) /\ Called(q, root, misnamed')
    BY <1>2, <1>5, <2>2 DEF Turned, Called
  <2>5. \A u \in Name \ q.exist : q.text[u] = files[root].text[u]
    BY <1>2, <2>2
  <2>6. \A u \in Name : <<root, u>> \notin torn \cup misnamed' => accepted'[root][u] \subseteq q.text[u]
    BY <1>4, <2>1, <2>2
  <2> QED
    BY <1>3, <2>1, <2>3, <2>4, <2>5, <2>6, StoringNotes DEF NotesInv
<1> QED
  BY <1>3, <1>8, <1>9, <1>10 DEF Command

\* Every step of the canvas, the pad and the tools keeps the texts.
LEMMA NextNotes ==
  ASSUME NotesInv, [Next]_vars
  PROVE  NotesInv'
<1>1. CASE UNCHANGED padVars
  BY <1>1 DEF padVars, NotesInv, TextsAreKept, Open, Turned, Called
<1>2. CASE /\ Shuts \/ Reopens \/ (Opens(files) /\ UNCHANGED files) \/ PadUnmoved
           /\ UNCHANGED <<inbox, accepted, torn, misnamed, used>>
  BY <1>2, HostingNotes
<1>3. CASE Boot \/ BootFails
  BY <1>2, <1>3 DEF Boot, BootFails, BootOnly, PadAfterSwitch
<1>4. CASE Exit
  BY <1>4, DyingNotes DEF Exit, Stops
<1>5. CASE Crash
  BY <1>5, DyingNotes DEF Crash, Stops, PadDies
<1>6. CASE Operation
  <2>1. CASE \E m \in Member : Drop(m) \/ CloseClick(m)
    BY <1>2, <2>1 DEF Drop, CloseClick, Operates
  <2>2. CASE DeleteKey
    BY <1>2, <2>2 DEF DeleteKey, Remove, PadAfterTearing, Operates
  <2>3. CASE \E g \in Graph : Load(g)
    BY <1>2, <2>3 DEF Load, LoadGraph, Switch, Halts, Refuse, PadAfterSwitch, Operates
  <2>4. CASE SaveGraph \/ \E g \in Graph : SaveGraphAs(g)
    BY <1>2, <2>4 DEF SaveGraph, SaveGraphAs, SyncAndSave, PadAfterTearing, Operates
  <2>5. CASE Capture
    BY <1>2, <2>5 DEF Capture, Refuse, Operates
  <2>6. CASE DeleteGraph
    BY <1>2, <2>6 DEF DeleteGraph, LoadGraph, Switch, Halts, Refuse, PadAfterTearing, PadAfterSwitch, Operates
  <2> QED
    BY <1>6, <2>1, <2>2, <2>3, <2>4, <2>5, <2>6 DEF Operation
<1>7. CASE PadOperation
  BY <1>7, TypingNotes, TurningNotes DEF PadOperation
<1>8. CASE SyncMembers
  BY <1>2, <1>8 DEF SyncMembers, Remove, PadAfterTearing, Operates
<1>9. CASE PadPump
  <2>1. CASE PadConnects
    BY <2>1 DEF PadConnects, NotesInv, TextsAreKept, Open, Turned, Called
  <2>2. CASE PadApplies
    BY <2>2, ApplyingNotes
  <2>3. CASE PadLosesRedis
    BY <2>3 DEF PadLosesRedis, NotesInv, TextsAreKept, Open, Turned, Called
  <2> QED
    BY <1>9, <2>1, <2>2, <2>3 DEF PadPump
<1>10. CASE PadTools
  <2>1. PICK t \in Title \cup {NoTitle}, c \in Piece, verb \in {"append", "create", "switch"} :
          /\ inbox' = Append(inbox, [verb |-> verb, title |-> t, piece |-> c])
          /\ used' = used \cup {c} /\ (verb # "append" => t # NoTitle)
          /\ UNCHANGED <<files, root, pad, accepted, torn, misnamed>>
    BY <1>10 DEF PadTools, AddNoteText, CreateNote, SwitchNote, ToolWrites
  <2>2. [verb |-> verb, title |-> t, piece |-> c] \in Command
    BY <2>1 DEF Command
  <2>3. inbox' \in Seq(Command) /\ used' \subseteq Piece
    BY <2>1, <2>2 DEF NotesInv
  <2> QED
    BY <2>1, <2>3 DEF NotesInv, TextsAreKept, Open, Turned, Called
<1>11. CASE Connect
  BY <1>1, <1>11 DEF Connect
<1>12. ASSUME NEW c \in Call, Calls(c) \/ Tool(c) PROVE NotesInv'
  BY <1>1, <1>12 DEF Calls, Tool, GetsReply, GivesUp, padVars
<1>13. ASSUME NEW c \in Call, Applies(c) PROVE NotesInv'
  BY <1>1, <1>6, <1>7, <1>13 DEF Applies, Fires, Reads
<1> QED
  BY <1>1, <1>3, <1>4, <1>5, <1>6, <1>7, <1>8, <1>9, <1>10, <1>11, <1>12, <1>13
     DEF Next, Frame, vars, UserOnBoard, UserOnPad

\* Whatever titles the commands use, and whatever graphs and folders come in
\* between, no text is lost that was typed or that a command has added: but for a
\* file that the process died over, and a note that a command added to under a
\* title that is not its name.
THEOREM TextsAreKeptEver == Spec => []TextsAreKept
<1>1. Init => NotesInv
  <2> SUFFICES ASSUME Init PROVE NotesInv
    OBVIOUS
  <2>1. NoNotes \in Folder
    BY DEF NoNotes, Folder
  <2>2. PICK s \in Session : PadInit(s.pieces)
    BY DEF Init
  <2>3. root \in Root
    BY <2>2, NotepadAssumption DEF PadInit
  <2> QED
    BY <2>1, <2>2, <2>3 DEF PadInit, NotesInv, TextsAreKept
<1>2. NotesInv /\ [Next]_vars => NotesInv'
  BY NextNotes
<1>3. NotesInv => TextsAreKept
  BY DEF NotesInv
<1> QED
  BY <1>1, <1>2, <1>3, PTL DEF Spec

-----------------------------------------------------------------------------
(***************************************************************************)
(* Types: the pad is open only while its member has its node.              *)
(***************************************************************************)

\* A pad that is open has a current note.
Pads == {p \in PadType : p.open => p.current \in Title}

PadTypes ==
  /\ files \in [Root -> Folder] /\ root \in Root
  /\ pad \in Pads /\ inbox \in Seq(Command)
  /\ pad.open => PadMember \in hosted
  /\ ever \subseteq Member

\* What the operators on pads return is a pad, open as it was.
LEMMA PadOperators ==
  ASSUME NEW p \in Pads
  PROVE  /\ Flush(p) \in Pads /\ Flush(p).open = p.open
         /\ Shown(p) \in Pads /\ Shown(p).open = p.open
         /\ \A t \in Title : Create(p, t) \in Pads /\ Create(p, t).open = p.open
         /\ \A t \in Title, c \in Piece : Added(p, t, c) \in Pads /\ Added(p, t, c).open = p.open
         /\ \A t \in Title, c \in Piece : Created(p, t, c) \in Pads /\ Created(p, t, c).open = p.open
<1>0. p \in PadType
  BY DEF Pads
<1>1. \A t \in Title : Stem[t] \in Title /\ Stem[t] \in Name
  BY NotepadAssumption DEF Name
<1>2. ASSUME NEW q \in PadType, NEW t \in Title
      PROVE  /\ Create(q, t) \in PadType /\ Create(q, t) \in Pads
             /\ Create(q, t).open = q.open /\ Create(q, t).current = Stem[t]
  <2> DEFINE n == Stem[t]
  <2> DEFINE r == [q EXCEPT !.exist = q.exist \cup {n}, !.current = n]
  <2>1. n \in Title /\ n \in Name /\ Create(q, t) = r
    BY <1>1 DEF Create
  <2> HIDE DEF n
  <2>2. r \in PadType
    BY <2>1 DEF PadType
  <2>3. r.open = q.open /\ r.current = n
    BY DEF PadType
  <2> QED
    BY <2>1, <2>2, <2>3 DEF n, Pads
<1>3. ASSUME NEW q \in PadType, NEW text \in [Name -> SUBSET Piece]
      PROVE  [q EXCEPT !.text = text] \in PadType /\ [q EXCEPT !.text = text].open = q.open
             /\ [q EXCEPT !.text = text].current = q.current
  BY DEF PadType
<1>4. Flush(p) \in Pads /\ Flush(p).open = p.open
  <2>1. CASE p.current = NoTitle
    BY <2>1 DEF Flush
  <2>2. CASE p.current # NoTitle
    <3> DEFINE q == Create(p, p.current)
               text == [q.text EXCEPT ![Stem[p.current]] = p.body]
    <3>1. p.current \in Title
      BY <1>0, <2>2 DEF PadType
    <3>2. q \in PadType /\ q.open = p.open /\ q.current \in Title
      BY <1>0, <1>1, <1>2, <3>1
    <3>3. text \in [Name -> SUBSET Piece]
      BY <1>0, <1>1, <3>1, <3>2 DEF PadType
    <3>4. Flush(p) = [q EXCEPT !.text = text]
      BY <2>2 DEF Flush
    <3> HIDE DEF q, text
    <3> QED
      BY <1>3, <3>2, <3>3, <3>4, ZenonT(30) DEF Pads
  <2> QED
    BY <2>1, <2>2
<1>5. Shown(p) \in Pads /\ Shown(p).open = p.open
  <2> DEFINE b == IF p.current \in p.exist THEN p.text[p.current] ELSE {}
  <2>1. b \in SUBSET Piece /\ Shown(p) = [p EXCEPT !.body = b]
    BY <1>0 DEF Shown, PadType
  <2> HIDE DEF b
  <2>2. Shown(p) \in PadType
    BY <1>0, <2>1 DEF PadType
  <2>3. Shown(p).open = p.open /\ Shown(p).current = p.current
    BY <1>0, <2>1 DEF PadType
  <2> QED
    BY <2>2, <2>3 DEF Pads
<1>6. ASSUME NEW t \in Title, NEW c \in Piece
      PROVE  Added(p, t, c) \in Pads /\ Added(p, t, c).open = p.open
  <2> DEFINE q == IF t \in p.exist THEN p ELSE Create(p, t)
             s == IF t \in p.exist THEN t ELSE Stem[t]
             text == [q.text EXCEPT ![s] = q.text[s] \cup {c}]
  <2>1. q \in PadType /\ q.open = p.open /\ s \in Name
    BY <1>0, <1>1, <1>2 DEF PadType
  <2>2. text \in [Name -> SUBSET Piece]
    BY <2>1 DEF PadType
  <2> DEFINE r == [q EXCEPT !.text = text, !.current = t]
  <2>3. Added(p, t, c) = r
    BY DEF Added
  <2> HIDE DEF q, s, text
  <2>4. r \in PadType
    BY <2>1, <2>2 DEF PadType
  <2>5. r.open = q.open /\ r.current = t
    BY <2>1 DEF PadType
  <2> QED
    BY <2>1, <2>3, <2>4, <2>5 DEF Pads
<1>7. ASSUME NEW t \in Title, NEW c \in Piece
      PROVE  Created(p, t, c) \in Pads /\ Created(p, t, c).open = p.open
  BY <1>0, <1>1, CreatedIs DEF Pads
<1> QED
  BY <1>0, <1>2, <1>4, <1>5, <1>6, <1>7

\* What is saved is a folder of notes.
LEMMA SavedFiles ==
  ASSUME files \in [Root -> Folder], root \in Root, NEW p \in Pads
  PROVE  Saved(p) \in [Root -> Folder]
<1> DEFINE F == [exist |-> files[root].exist \cup p.exist,
                 text  |-> [t \in Name |-> IF t \in p.exist THEN p.text[t] ELSE files[root].text[t]]]
<1>1. Saved(p) = [files EXCEPT ![root] = F]
  BY DEF Saved
<1>2. F \in Folder
  BY DEF Pads, PadType, Folder
<1> QED
  BY <1>1, <1>2

\* What is loaded is an open pad.
LEMMA LoadedPads ==
  ASSUME NEW folder \in Folder, NEW q \in Loaded(folder)
  PROVE  q \in Pads /\ q.open
BY LoadedIs DEF Open, Turned, Pads, PadType, Name

\* Hosting opens the pad, unless that fails; shutting closes it.
LEMMA HostingTypes ==
  ASSUME PadTypes, inbox' = inbox, ever' \subseteq Member,
         \/ (Reopens \/ (Opens(files) /\ UNCHANGED files)) /\ PadMember \in hosted'
         \/ Shuts
         \/ PadUnmoved /\ (pad.open => PadMember \in hosted')
  PROVE  PadTypes'
<1>1. Saved(Flush(pad)) \in [Root -> Folder]
  BY PadOperators, SavedFiles DEF PadTypes
<1>2. NoPad \in Pads /\ NoPad.open = FALSE
  BY DEF NoPad, PadType, Pads
<1>3. ASSUME NEW folders \in [Root -> Folder], Opens(folders)
      PROVE  root' \in Root /\ pad' \in Pads
  BY <1>2, <1>3, LoadedPads DEF Opens, PadTypes
<1>4. CASE Reopens /\ PadMember \in hosted'
  BY <1>1, <1>3, <1>4 DEF Reopens, PadTypes
<1>5. CASE Opens(files) /\ UNCHANGED files /\ PadMember \in hosted'
  BY <1>3, <1>5 DEF PadTypes
<1>6. CASE Shuts
  BY <1>1, <1>2, <1>6 DEF Shuts, PadTypes
<1>7. CASE PadUnmoved /\ (pad.open => PadMember \in hosted')
  BY <1>7 DEF PadUnmoved, PadTypes
<1> QED
  BY <1>4, <1>5, <1>6, <1>7

\* The user and the commands at an open pad.
LEMMA PadStepTypes ==
  ASSUME PadTypes, PadOperation \/ PadApplies, UNCHANGED <<hosted, ever>>
  PROVE  PadTypes'
<1>1. ASSUME NEW p \in Pads, p.open = pad.open, Stores(p), UNCHANGED root, inbox' \in Seq(Command)
      PROVE  PadTypes'
  BY <1>1, PadOperators, SavedFiles DEF Stores, PadTypes
<1>2. Flush(pad) \in Pads /\ Flush(pad).open = pad.open
  BY PadOperators DEF PadTypes
<1>3. ASSUME NEW c \in Piece, Type(c) \/ Erase(c) PROVE PadTypes'
  <2>1. PICK b \in SUBSET Piece : Stores(Flush([pad EXCEPT !.body = b])) /\ UNCHANGED <<root, inbox>>
    <3>1. pad.body \cup {c} \in SUBSET Piece /\ pad.body \ {c} \in SUBSET Piece
      BY DEF PadTypes, Pads, PadType
    <3> QED
      BY <1>3, <3>1 DEF Type, Erase
  <2> DEFINE p == [pad EXCEPT !.body = b]
  <2>2. p \in PadType
    BY DEF PadTypes, Pads, PadType
  <2>3. p.open = pad.open /\ p.current = pad.current
    BY DEF PadTypes, Pads, PadType
  <2>4. Stores(Flush(p))
    BY <2>1
  <2> HIDE DEF p
  <2>5. p \in Pads
    BY <2>2, <2>3 DEF PadTypes, Pads
  <2>6. Flush(p) \in Pads /\ Flush(p).open = pad.open
    BY <2>3, <2>5, PadOperators
  <2> QED
    BY <1>1, <2>1, <2>4, <2>6 DEF PadTypes
<1>4. ASSUME NEW t \in Title, TurnTo(t) PROVE PadTypes'
  BY <1>1, <1>2, <1>4, PadOperators DEF TurnTo, PadTypes
<1>5. CASE Include
  BY <1>2, <1>5, SavedFiles DEF Include, PadTypes
<1>6. ASSUME NEW f \in Root, Attach(f) PROVE PadTypes'
  BY <1>6, LoadedPads DEF Attach, PadTypes
<1>7. CASE PadApplies
  <2> DEFINE cmd == Head(inbox)
             p == Flush(pad)
             t == IF cmd.title = NoTitle THEN p.current ELSE cmd.title
  <2>1. cmd \in Command /\ inbox' = Tail(inbox) /\ inbox' \in Seq(Command) /\ UNCHANGED root
    BY <1>7 DEF PadApplies, PadTypes
  <2>2. CASE cmd.verb = "append"
    <3>1. Stores(Added(p, t, cmd.piece))
      BY <1>7, <2>2 DEF PadApplies
    <3>2. t \in Title /\ cmd.piece \in Piece
      BY <1>2, <1>7, <2>1 DEF PadApplies, Command, Pads
    <3> HIDE DEF t, cmd
    <3> QED
      BY <1>1, <1>2, <2>1, <3>1, <3>2, PadOperators
  <2>3. CASE cmd.verb = "create"
    <3>1. Stores(Created(p, t, cmd.piece))
      BY <1>7, <2>3 DEF PadApplies
    <3>2. t \in Title /\ cmd.piece \in Piece
      BY <1>2, <1>7, <2>1 DEF PadApplies, Command, Pads
    <3> HIDE DEF t, cmd
    <3> QED
      BY <1>1, <1>2, <2>1, <3>1, <3>2, PadOperators
  <2>4. CASE cmd.verb = "switch"
    <3>1. Stores(Create(p, t))
      BY <1>7, <2>4 DEF PadApplies
    <3>2. t \in Title
      BY <1>2, <1>7, <2>1 DEF PadApplies, Command, Pads
    <3> HIDE DEF t, cmd
    <3> QED
      BY <1>1, <1>2, <2>1, <3>1, <3>2, PadOperators
  <2> QED
    BY <2>1, <2>2, <2>3, <2>4 DEF Command
<1> QED
  BY <1>3, <1>4, <1>5, <1>6, <1>7 DEF PadOperation

\* Every step keeps the types, and the pad open only while its member has its node.
LEMMA NextTypes ==
  ASSUME PadTypes, BoardInv, [Next]_vars
  PROVE  PadTypes'
<1>1. CASE UNCHANGED <<padVars, hosted, ever>>
  BY <1>1 DEF padVars, PadTypes
<1>2. CASE Boot \/ BootFails
  BY <1>2, HostingTypes DEF Boot, BootFails, BootOnly, PadAfterSwitch, PadTypes
<1>3. ASSUME PadDies(TRUE) \/ PadDies(FALSE), Stops PROVE PadTypes'
  <2>1. NoPad \in Pads /\ NoPad.open = FALSE
    BY DEF NoPad, PadType, Pads
  <2>2. CASE files' = files
    BY <1>3, <2>1, <2>2 DEF PadDies, Stops, PadTypes
  <2>3. CASE \E t \in pad.exist : files' = [files EXCEPT ![root].text[t] = {}]
    <3>1. PICK t \in pad.exist : files' = [files EXCEPT ![root].text[t] = {}]
      BY <2>3
    <3> DEFINE text == [files[root].text EXCEPT ![t] = {}]
               F == [files[root] EXCEPT !.text = text]
    <3>2. files[root] \in Folder /\ t \in Name /\ files' = [files EXCEPT ![root] = F]
      BY <3>1 DEF PadTypes, Pads, PadType
    <3>3. text \in [Name -> SUBSET Piece]
      BY <3>2 DEF Folder
    <3> HIDE DEF text
    <3>4. F \in Folder
      BY <3>2, <3>3 DEF Folder
    <3> HIDE DEF F
    <3>5. files' \in [Root -> Folder]
      BY <3>2, <3>4 DEF PadTypes
    <3> QED
      BY <1>3, <2>1, <3>5 DEF PadDies, Stops, PadTypes
  <2> QED
    BY <1>3, <2>2, <2>3 DEF PadDies
<1>4. CASE Exit
  BY <1>3, <1>4 DEF Exit
<1>5. CASE Crash
  BY <1>3, <1>5 DEF Crash
<1>6. CASE Operation
  <2>1. ASSUME NEW m \in Member, Drop(m) \/ CloseClick(m) PROVE PadTypes'
    <3>1. CASE Drop(m) /\ m = PadMember
      <4>1. Opens(files) /\ UNCHANGED files /\ inbox' = inbox
        BY <3>1 DEF Drop, Operates
      <4>2. PadMember \in hosted' /\ ever' \subseteq Member
        BY <3>1, CanvasAssumption DEF Drop, PadTypes
      <4> QED
        BY <4>1, <4>2, HostingTypes
    <3>2. CASE Drop(m) /\ m # PadMember
      <4>1. PadUnmoved /\ inbox' = inbox
        BY <3>2 DEF Drop, Operates
      <4>2. (pad.open => PadMember \in hosted') /\ ever' \subseteq Member
        BY <3>2, CanvasAssumption DEF Drop, PadTypes
      <4> QED
        BY <4>1, <4>2, HostingTypes
    <3>3. CASE CloseClick(m)
      BY <3>3, HostingTypes DEF CloseClick, Operates, PadTypes
    <3> QED
      BY <2>1, <3>1, <3>2, <3>3
  <2>2. CASE DeleteKey
    BY <2>2, HostingTypes DEF DeleteKey, Remove, PadAfterTearing, Operates, PadTypes
  <2>3. ASSUME NEW g \in Graph, Switch(g) \/ Halts(g) PROVE PadTypes'
    BY <2>3, HostingTypes DEF Switch, Halts, PadAfterSwitch, Operates, PadTypes
  <2>4. CASE Refuse
    BY <2>4, HostingTypes DEF Refuse, Operates, PadTypes
  <2>5. CASE SaveGraph \/ \E g \in Graph : SaveGraphAs(g)
    BY <2>5, HostingTypes DEF SaveGraph, SaveGraphAs, SyncAndSave, PadAfterTearing, Operates, PadTypes
  <2>6. CASE DeleteGraph
    <3>1. CASE /\ hosted' = {} /\ PadAfterTearing(members)
               /\ UNCHANGED <<pointer, path, ever>> /\ Operates
      BY <3>1, HostingTypes DEF PadAfterTearing, Operates, PadTypes, BoardInv, BoardType
    <3> QED
      BY <2>3, <2>4, <2>6, <3>1 DEF DeleteGraph, LoadGraph, Left
  <2> QED
    BY <1>6, <2>1, <2>2, <2>3, <2>4, <2>5, <2>6 DEF Operation, Load, LoadGraph, Capture
<1>7. CASE SyncMembers
  BY <1>7, HostingTypes DEF SyncMembers, Remove, PadAfterTearing, Operates, PadTypes
<1>8. CASE PadOperation \/ (PadApplies /\ UNCHANGED boardVars)
  BY <1>8, PadStepTypes DEF PadOperation, boardVars
<1>9. CASE PadPump
  <2>1. CASE PadConnects \/ PadLosesRedis
    <3>1. /\ UNCHANGED <<files, root, pad, hosted, ever>>
          /\ inbox' = <<>> \/ inbox' = inbox
      BY <1>9, <2>1 DEF PadPump, PadConnects, PadLosesRedis, boardVars
    <3>2. inbox' \in Seq(Command)
      <4>1. <<>> \in Seq(Command)
        OBVIOUS
      <4>2. inbox \in Seq(Command)
        BY DEF PadTypes
      <4> QED
        BY <3>1, <4>1, <4>2
    <3> QED
      BY <3>1, <3>2 DEF PadTypes
  <2> QED
    BY <1>8, <1>9, <2>1 DEF PadPump
<1>10. CASE PadTools
  <2>1. PICK t \in Title \cup {NoTitle}, c \in Piece, verb \in {"append", "create", "switch"} :
          /\ inbox' = Append(inbox, [verb |-> verb, title |-> t, piece |-> c])
          /\ (verb # "append" => t # NoTitle)
          /\ UNCHANGED <<files, root, pad, hosted, ever>>
    BY <1>10 DEF PadTools, AddNoteText, CreateNote, SwitchNote, ToolWrites, boardVars
  <2>2. [verb |-> verb, title |-> t, piece |-> c] \in Command
    BY <2>1 DEF Command
  <2>3. inbox' \in Seq(Command)
    BY <2>1, <2>2 DEF PadTypes
  <2> QED
    BY <2>1, <2>3 DEF PadTypes
<1>11. CASE Connect
  BY <1>1, <1>11 DEF Connect, boardVars
<1>12. ASSUME NEW c \in Call, Calls(c) \/ Tool(c) PROVE PadTypes'
  BY <1>1, <1>12 DEF Calls, Tool, GetsReply, GivesUp, ToolOnly, boardVars
<1>13. ASSUME NEW c \in Call, Applies(c) PROVE PadTypes'
  BY <1>1, <1>6, <1>8, <1>13 DEF Applies, Fires, Reads, boardVars
<1> QED
  BY <1>1, <1>2, <1>4, <1>5, <1>6, <1>7, <1>8, <1>9, <1>10, <1>11, <1>12, <1>13
     DEF Next, Frame, vars, boardVars, UserOnBoard, UserOnPad

\* Every reachable state is well typed, and the pad is open only while its member
\* has its node, whatever is loaded, deleted, closed, fails half way, or dies.
THEOREM TypeCorrect == Spec => []CanvasTypeOK
<1> DEFINE Inv == ApiInv /\ BoardInv /\ PadTypes
<1>1. Init => Inv
  <2> SUFFICES ASSUME Init PROVE Inv
    OBVIOUS
  <2>1. ApiInv
    BY InitApi
  <2>2. BoardInv
    BY CanvasAssumption DEF Init, BoardInv, BoardType
  <2>3. NoNotes \in Folder /\ NoPad \in Pads /\ NoPad.open = FALSE
    BY DEF NoNotes, Folder, NoPad, Pads, PadType
  <2>4. PICK s \in Session : PadInit(s.pieces)
    BY DEF Init
  <2>5. root \in Root
    BY <2>4, NotepadAssumption DEF PadInit
  <2>6. ever \subseteq Member
    BY CanvasAssumption, FileIs DEF Init
  <2>7. PadTypes
    BY <2>3, <2>4, <2>5, <2>6 DEF PadInit, PadTypes
  <2> QED
    BY <2>1, <2>2, <2>7
<1>2. Inv /\ [Next]_vars => Inv'
  BY NextApi, NextBoard, NextTypes
<1>3. Inv => CanvasTypeOK
  BY DEF ApiInv, BoardInv, BoardType, PadTypes, CanvasTypeOK
<1> QED
  BY <1>1, <1>2, <1>3, PTL DEF Spec
=============================================================================
