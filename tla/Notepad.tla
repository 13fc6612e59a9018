------------------------------- MODULE Notepad -------------------------------
(***************************************************************************)
(* The pad that a canvas hosts (notepad_frontend/pad.py and app.py) and    *)
(* the voice tools that write to it (notepad_tools).  A text is the set of *)
(* the pieces that were put into it.  The editor shows a copy of the       *)
(* current note: every operation first takes what the editor shows for     *)
(* that note's text, and shows the current note again at the end, so that  *)
(* an editor that is not up to date overwrites a note.                     *)
(*                                                                         *)
(* Each callback of the user interface and each command that the frame     *)
(* pump applies is one step.  Dear PyGui may run a callback while the loop *)
(* is in another operation; that is left out.                              *)
(***************************************************************************)
EXTENDS Mishaps, Sequences

CONSTANTS
  Title,      \* names that people and voice tools give to notes
  Stem,       \* safe_title: the name of the note's file
  FirstTitle, \* "note"
  NoTitle,
  Root,       \* the folders of notes: the local one and those in clones
  Piece,      \* texts that are ever added; bounds the commands, too
  MaxInbox    \* bound on the commands that wait on NOTEPAD:CMD

ASSUME NotepadAssumption ==
  /\ Stem \in [Title -> Title] /\ \A t \in Title : Stem[Stem[t]] = Stem[t]
  /\ FirstTitle \in Title /\ Stem[FirstTitle] = FirstTitle /\ NoTitle \notin Title
  /\ Root # {} /\ MaxInbox \in Nat

VARIABLES
  files,    \* the .txt files of each folder
  root,     \* notes_root: the folder of the pad
  pad,      \* the pad: its notes, the current one, and what the editor shows
  inbox,    \* NOTEPAD:CMD beyond the pad's cursor
  tuned,    \* the cursor: "fresh" before the pad has connected, "deaf" at "$"
  accepted, \* history: what was added to each note and not deleted by the user
  torn,     \* history: files that were being written when the process died
  misnamed, \* history: notes that a command added to under a title that is not theirs
  used      \* history: pieces that were added, or never will be

padVars == <<files, root, pad, inbox, tuned, accepted, torn, misnamed, used>>

-----------------------------------------------------------------------------
Name == {t \in Title : Stem[t] = t}
Folder == [exist : SUBSET Name, text : [Name -> SUBSET Piece]]
NoNotes == [exist |-> {}, text |-> [t \in Name |-> {}]]
NoPad == [open |-> FALSE, exist |-> {}, text |-> [t \in Name |-> {}], current |-> NoTitle,
          body |-> {}]

\* The pieces that are left to be added.
PadInit(pieces) ==
  /\ files = [f \in Root |-> NoNotes]
  /\ root = CHOOSE f \in Root : TRUE
  /\ pad = NoPad /\ inbox = <<>> /\ tuned = "fresh"
  /\ accepted = [f \in Root |-> [t \in Name |-> {}]]
  /\ torn = {} /\ misnamed = {} /\ used = Piece \ pieces

\* Pad.create, without a text and with one.
Create(p, t) == [p EXCEPT !.exist = @ \cup {Stem[t]}, !.current = Stem[t]]
Created(p, t, c) == [Create(p, t) EXCEPT !.text[Stem[t]] = @ \cup {c}]

\* _flush_body: the editor's text becomes that of the current note.
Flush(p) ==
  IF p.current = NoTitle THEN p
  ELSE [Create(p, p.current) EXCEPT !.text[Stem[p.current]] = p.body]

\* Pad.append.  The title is looked up as it was given; the note that is
\* created when there is none has the safe one.
Added(p, t, c) ==
  LET q == IF t \in p.exist THEN p ELSE Create(p, t)
      s == IF t \in p.exist THEN t ELSE Stem[t]
  IN  [q EXCEPT !.text[s] = @ \cup {c}, !.current = t]

\* Changed form for the checks: the editor keeps showing what it showed.
ShownNot(p) == p

\* _show_current: the editor shows the current note, nothing when it is not found.
Shown(p) == [p EXCEPT !.body = IF p.current \in p.exist THEN p.text[p.current] ELSE {}]

Saved(p) == [files EXCEPT ![root] =
  [exist |-> @.exist \cup p.exist,
   text  |-> [t \in Name |-> IF t \in p.exist THEN p.text[t] ELSE @.text[t]]]]

\* Pad.load, and the first note of an empty folder, which is not saved yet.
Loaded(folder) ==
  {Shown([NoPad EXCEPT !.open = TRUE, !.current = t,
            !.exist = folder.exist \cup {t}, !.text = folder.text]) :
     t \in IF folder.exist = {} THEN {FirstTitle} ELSE folder.exist}

\* An operation that persists and refreshes.
Stores(p) == files' = Saved(p) /\ pad' = Shown(p)

-----------------------------------------------------------------------------
(***************************************************************************)
(* Hosting: what the canvas does with the node.                            *)
(***************************************************************************)

\* Its folder is the one that the graph's parameters name, or the local one.
\* When FeSpec.build fails the node is there without a pad.
Opens(folders) ==
  /\ root' \in Root
  /\ \/ pad' \in Loaded(folders[root'])
     \/ pad' = NoPad /\ "build" \in Faults
  /\ tuned' = "fresh"

\* Notepad.shutdown, the node's clean-up.
Shuts == files' = Saved(Flush(pad)) /\ pad' = NoPad /\ tuned' = "fresh" /\ root' = root

\* Another graph with a pad is loaded: the old pad is shut and a new one built.
Reopens == files' = Saved(Flush(pad)) /\ Opens(files')

\* The process ends without a clean-up, perhaps while it is writing a file.
PadDies(writing) ==
  /\ pad' = NoPad /\ tuned' = "fresh"
  /\ IF writing THEN \E t \in pad.exist :
                       /\ files' = [files EXCEPT ![root].text[t] = {}]
                       /\ torn' = torn \cup {<<root, t>>}
                ELSE UNCHANGED <<files, torn>>

-----------------------------------------------------------------------------
(***************************************************************************)
(* What the user does.                                                     *)
(***************************************************************************)

Accept(f, t, c) == accepted' = [accepted EXCEPT ![f][t] = @ \cup {c}] /\ used' = used \cup {c}

\* _on_body: a piece is typed into the editor, or deleted from it.
Type(c) ==
  /\ pad.open /\ c \notin used
  /\ Stores(Flush([pad EXCEPT !.body = @ \cup {c}]))
  /\ Accept(root, Stem[pad.current], c)
  /\ UNCHANGED <<root, inbox, tuned, torn, misnamed>>

Erase(c) ==
  /\ pad.open /\ c \in pad.body
  /\ Stores(Flush([pad EXCEPT !.body = @ \ {c}]))
  /\ accepted' = [accepted EXCEPT ![root][Stem[pad.current]] = @ \ {c}]
  /\ UNCHANGED <<root, inbox, tuned, torn, misnamed, used>>

\* _on_new and _on_tab.
TurnTo(t) ==
  /\ pad.open /\ t \in Name
  /\ Stores(Create(Flush(pad), t))
  /\ UNCHANGED <<root, inbox, tuned, accepted, torn, misnamed, used>>

\* _on_include: the files are saved and staged in git; nothing is shown again.
Include ==
  /\ pad.open
  /\ files' = Saved(Flush(pad)) /\ pad' = Flush(pad)
  /\ UNCHANGED <<root, inbox, tuned, accepted, torn, misnamed, used>>

\* _on_url: the notes of the other folder take the place of the pad's, which
\* were saved when they changed.  A clone that fails leaves the pad as it is.
Attach(f) ==
  /\ pad.open /\ f # root
  /\ root' = f /\ pad' \in Loaded(files[f])
  /\ UNCHANGED <<files, inbox, tuned, accepted, torn, misnamed, used>>

-----------------------------------------------------------------------------
(***************************************************************************)
(* NOTEPAD:CMD.  The tools answer "ok" as soon as the command is written.  *)
(* The pad reads what was written after it had connected.                  *)
(***************************************************************************)

\* The verbs: "append", to a title or to the current note, "create" with a text,
\* and "switch", which is also "create" without one: its piece only counts it.
\* What is written while no pad has its cursor set is never read, and no step.
ToolWrites(verb, t, c) ==
  /\ tuned = "tuned" /\ Len(inbox) < MaxInbox /\ c \notin used
  /\ inbox' = Append(inbox, [verb |-> verb, title |-> t, piece |-> c])
  /\ used' = used \cup {c}
  /\ UNCHANGED <<files, root, pad, tuned, accepted, torn, misnamed>>

AddNoteText(t, c) == ToolWrites("append", t, c)
CreateNote(t, c) == t # NoTitle /\ ToolWrites("create", t, c)
SwitchNote(t, c) == t # NoTitle /\ ToolWrites("switch", t, c)

\* _connect_redis: the cursor is put behind the newest entry, or at "$" when
\* that cannot be read, which finds nothing in any later read.
PadConnects ==
  /\ pad.open /\ tuned = "fresh"
  /\ inbox' = <<>>
  /\ \/ tuned' = "tuned" /\ UNCHANGED faults
     \/ tuned' = "deaf" /\ Fault("redis")
  /\ UNCHANGED <<files, root, pad, accepted, torn, misnamed, used>>

\* _drain_commands, one entry: apply_command.
PadApplies ==
  /\ pad.open /\ tuned = "tuned" /\ inbox # <<>>
  /\ LET cmd == Head(inbox)
         p == Flush(pad)
         t == IF cmd.title = NoTitle THEN p.current ELSE cmd.title
     IN  CASE cmd.verb = "append" ->
                /\ Stores(Added(p, t, cmd.piece)) /\ Accept(root, Stem[t], cmd.piece)
                /\ misnamed' = IF t = Stem[t] THEN misnamed ELSE misnamed \cup {<<root, Stem[t]>>}
           [] cmd.verb = "create" ->
                /\ Stores(Created(p, t, cmd.piece)) /\ Accept(root, Stem[t], cmd.piece)
                /\ UNCHANGED misnamed
           [] cmd.verb = "switch" ->
                Stores(Create(p, t)) /\ UNCHANGED <<accepted, used, misnamed>>
  /\ inbox' = Tail(inbox)
  /\ UNCHANGED <<root, tuned, torn>>

\* A read fails: the pad connects again, past everything that was written.
PadLosesRedis ==
  /\ pad.open /\ tuned # "fresh" /\ Fault("redis")
  /\ tuned' = "fresh"
  /\ UNCHANGED <<files, root, pad, inbox, accepted, torn, misnamed, used>>

-----------------------------------------------------------------------------
\* A text that was typed or that a command has added stays in the note's file
\* until the user deletes it, whatever titles the commands use: unless the process
\* died while it wrote the file, or a command added to that note under a title that
\* is not its name.
TextsAreKept ==
  \A f \in Root, t \in Name :
    <<f, t>> \notin torn \cup misnamed => accepted[f][t] \subseteq files[f].text[t]

\* The same of every note, whatever it was called.
EveryTextIsKept ==
  \A f \in Root, t \in Name : <<f, t>> \notin torn => accepted[f][t] \subseteq files[f].text[t]
=============================================================================
