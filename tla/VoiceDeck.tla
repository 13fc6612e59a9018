----------------------------- MODULE VoiceDeck -----------------------------
(***************************************************************************)
(* A voice session (VoiceDeckManager/session.py, realtime.py) between the  *)
(* panel that starts and stops it, the CodeScope that answers its          *)
(* questions and the Sargent that rewrites its prompts.  Three threads     *)
(* share the transport, the questions that are pending and the queue of    *)
(* questions, and none of it has a lock.  A thread that finds a transport  *)
(* and uses it may lose it in between, to a stop of another thread:        *)
(*                                                                         *)
(*   the main thread applies VOICE:CONTROL;                                *)
(*   the event thread hears the socket and runs the tools;                 *)
(*   the answer thread asks CodeScope, reads SARGENT:ANSWER and speaks.    *)
(*                                                                         *)
(* A transport is known by what becomes of it.  "opening": the object is   *)
(* there and its socket is not; "dropped": the socket broke; "ended": the  *)
(* far side closed it, which no loop notices.                              *)
(***************************************************************************)
EXTENDS CodeScope, Sargent

CONSTANTS
  MaxPresses,   \* bound on the presses of the listen button
  MaxCalls      \* bound on the calls of the tools that ask

ASSUME VoiceDeckAssumption ==
  MaxPresses \in Nat /\ MaxCalls \in Nat /\ Ask \cap (Prompt \cup {NoPrompt}) = {}

VARIABLES
  panel,      \* "open"; "shut"; "unsent" when the stop of a shut panel was lost
  presses, control,   \* VOICE:CONTROL, from the session's cursor on
  main,       \* the main thread
  transport,
  stray,      \* an open socket and its microphone that no field refers to
  ears, tool, \* the event thread, and what its tool call is about
  calls,      \* tool calls so far
  pending,    \* _pending
  queued,     \* _scope_asks
  voice,      \* the answer thread
  serving,    \* the questions it took from the queue
  asking,     \* the one it asks
  batch,      \* the rewrites that it read and has not relayed
  cursor,     \* _rewrite_cursor
  midway,     \* threads that had found a transport, and not used it, when it was taken
  spoken      \* history: rewrites that were spoken

panelVars == <<panel, presses, control>>
mainVars == <<main, stray>>
earVars == <<ears, tool, calls>>
answerVars == <<voice, serving, asking, batch, spoken>>
shared == <<transport, pending, queued, cursor, midway>>
deckVars == <<panelVars, mainVars, earVars, answerVars, shared>>
vars == <<scopeVars, sargentVars, deckVars, faults>>

-----------------------------------------------------------------------------
Question == Heard
NoTool == NoPrompt
Asked == Question \cup Prompt
Transport == {"none", "opening", "live", "dropped", "ended"}

TypeOK ==
  /\ ScopeTypeOK /\ SargentTypeOK
  /\ faults \in 0..MaxFaults
  /\ panel \in {"open", "shut", "unsent"}
  /\ presses \in 0..MaxPresses
  /\ control \in Seq({"start", "stop"}) /\ Len(control) <= MaxPresses + 1
  /\ main \in {"idle", "connecting", "closing"}
  /\ transport \in Transport
  /\ stray \in BOOLEAN
  /\ ears \in {"listening", "tool", "told", "failed", "closing", "leaving", "hanging up"}
  /\ tool \in Asked \cup {NoTool} /\ calls \in 0..MaxCalls
  /\ pending \subseteq Asked
  /\ queued \subseteq Question /\ serving \subseteq Question
  /\ voice \in {"idle", "scope", "asking", "sorry", "rewrites", "dead"}
  /\ asking \in Question \cup {NoAsk}
  /\ batch \in Seq(Prompt) /\ Len(batch) <= MaxAnswers
  /\ cursor \in 0..MaxAnswers /\ midway \subseteq {"ears", "voice"}
  /\ spoken \in [Prompt -> 0..MaxAnswers]
  \* only what the tool was called for, or what the thread has in hand, is in hand
  /\ ears = "tool" <=> tool # NoTool
  /\ voice \in {"asking", "sorry"} <=> asking # NoAsk
  /\ transport = "opening" => main = "connecting"

Init ==
  /\ ScopeInit /\ SargentInit /\ faults = 0
  /\ panel = "open" /\ presses = 0 /\ control = <<>>
  /\ main = "idle" /\ transport = "none" /\ stray = FALSE
  /\ ears = "listening" /\ tool = NoTool /\ calls = 0
  /\ pending = {} /\ queued = {}
  /\ voice = "idle" /\ serving = {} /\ asking = NoAsk /\ batch = <<>>
  /\ cursor = 0 /\ midway = {} /\ spoken = [p \in Prompt |-> 0]

-----------------------------------------------------------------------------
(***************************************************************************)
(* The panel.  It sends start when it shows "off" and stop otherwise.      *)
(* What it shows lags behind, so either may be sent at any time.           *)
(***************************************************************************)

PressListen(action) ==
  /\ panel = "open" /\ presses < MaxPresses
  /\ presses' = presses + 1
  /\ control' = Append(control, action)
  /\ UNCHANGED <<panel, mainVars, earVars, answerVars, shared, scopeVars, sargentVars, faults>>

\* Shutting the panel sends a stop.
ShutPanel ==
  /\ panel = "open"
  /\ \/ panel' = "shut" /\ control' = Append(control, "stop") /\ UNCHANGED faults
     \/ panel' = "unsent" /\ UNCHANGED control /\ Fault("panel")
  /\ UNCHANGED <<presses, mainVars, earVars, answerVars, shared, scopeVars, sargentVars>>

-----------------------------------------------------------------------------
(***************************************************************************)
(* The main thread.                                                        *)
(***************************************************************************)

\* The threads that are about to use a transport, for an event, the result of a
\* tool, or an answer.
Using ==
  {t \in {"ears", "voice"} :
     /\ transport # "none"
     /\ CASE t = "ears" -> ears \in {"listening", "told"}
          [] t = "voice" -> \/ voice = "asking" /\ wire[asking] # <<>>
                            \/ voice = "sorry"
                            \/ voice = "rewrites" /\ batch # <<>> /\ Head(batch) \in pending}

\* A thread that had found a transport does not find it again.
Lost(t) == t \in midway /\ transport = "none"

\* stop takes the transport, perhaps from under another thread (which counts as a
\* failure), and forgets what is pending, but not the questions that are queued.
Take ==
  /\ transport' = "none"
  /\ pending' = {}
  /\ \/ UNCHANGED <<midway, faults>>
     \/ Fault("stop") /\ \E t \in Using : midway' = midway \cup {t}
  /\ UNCHANGED <<queued, cursor>>

Apply(action) ==
  /\ main = "idle" /\ control # <<>> /\ Head(control) = action
  /\ control' = Tail(control)
  /\ UNCHANGED <<panel, presses, stray, earVars, answerVars, scopeVars, sargentVars>>

\* Changed form for the checks: the cursor stays at "newer than this instant".
StartReadingFromNow ==
  /\ main = "idle" /\ control # <<>> /\ Head(control) = "start"
  /\ control' = <<>>
  /\ transport = "none"
  /\ cursor' = Len(answers) /\ transport' = "opening" /\ main' = "connecting"
  /\ UNCHANGED <<panel, presses, stray, earVars, answerVars, scopeVars, sargentVars,
                 faults, pending, queued, midway>>

\* Answers that are older than the session are not for it.  The transport is
\* stored before it is connected.
Start ==
  /\ Apply("start") /\ transport = "none"
  /\ cursor' = Len(answers)
  /\ transport' = "opening"
  /\ main' = "connecting"
  /\ UNCHANGED <<pending, queued, midway, faults>>

StartAgain ==
  /\ Apply("start") /\ transport # "none"
  /\ UNCHANGED <<main, shared, faults>>

\* A thread reads the microphone and sends what it hears.
Captures == transport = "live" \/ stray

\* A transport that was taken while it was connecting is closed when it is not
\* open yet: its socket then opens all the same, and its microphone.
Connects ==
  /\ main = "connecting"
  /\ main' = "idle"
  /\ IF transport = "opening" THEN transport' = "live" /\ UNCHANGED stray
                              ELSE stray' = TRUE /\ UNCHANGED transport
  /\ UNCHANGED <<panelVars, earVars, answerVars, pending, queued, cursor, midway, scopeVars,
                 sargentVars, faults>>

\* Changed form for the checks: the transport that failed stays.
ConnectFailsStaying ==
  /\ main = "connecting" /\ Fault("connect")
  /\ main' = "idle"
  /\ UNCHANGED <<panelVars, stray, earVars, answerVars, shared, scopeVars, sargentVars>>

ConnectFails ==
  /\ main = "connecting"
  /\ \/ transport = "none" /\ UNCHANGED faults
     \/ Fault("connect")
  /\ main' = "idle" /\ transport' = "none"
  /\ UNCHANGED <<panelVars, stray, earVars, answerVars, pending, queued, cursor, midway,
                 scopeVars, sargentVars>>

Stop ==
  /\ Apply("stop")
  /\ Take
  /\ main' = IF transport = "none" THEN "idle" ELSE "closing"

\* Closing joins the audio threads and takes seconds.
Closed ==
  /\ main = "closing" /\ main' = "idle"
  /\ UNCHANGED <<panelVars, stray, earVars, answerVars, shared, scopeVars, sargentVars,
                 faults>>

MainStep == Start \/ StartAgain \/ Connects \/ Stop \/ Closed
MainMishap == ConnectFails

-----------------------------------------------------------------------------
(***************************************************************************)
(* The event thread.                                                       *)
(***************************************************************************)

EarsOnly ==
  /\ midway' = midway \ {"ears"}
  /\ UNCHANGED <<panelVars, main, stray, answerVars, cursor, scopeVars, serves, hand, answers>>

\* ask_codebase and revise_my_prompt: the call, which waits for CodeScope's
\* list of repositories or for the XADD, ...
CallAsk(q) ==
  /\ ears = "listening" /\ transport = "live"
  /\ calls < MaxCalls /\ calls' = calls + 1
  /\ at[q] = "new" /\ q \notin queued \cup serving \cup {asking}
  /\ ears' = "tool" /\ tool' = q
  /\ UNCHANGED <<transport, pending, queued, mail, faults>> /\ EarsOnly

CallRevise(p) ==
  /\ ears = "listening" /\ transport = "live"
  /\ calls < MaxCalls /\ calls' = calls + 1
  /\ SendPrompt(p)
  /\ ears' = "tool" /\ tool' = p
  /\ UNCHANGED <<transport, pending, queued, faults>> /\ EarsOnly

\* ... and what it leaves behind.  No repository is listed when CodeScope is
\* down or has none.
ToolRemembers ==
  /\ ears = "tool"
  /\ tool \in Question => up /\ session # NoSession
  /\ pending' = pending \cup {tool}
  /\ queued' = queued \cup ({tool} \cap Question)
  /\ ears' = "told" /\ tool' = NoTool
  /\ UNCHANGED <<transport, calls, mail, faults>> /\ EarsOnly

ToolRefuses ==
  /\ ears = "tool" /\ tool \in Question /\ (up => session = NoSession)
  /\ ears' = "told" /\ tool' = NoTool
  /\ UNCHANGED <<transport, pending, queued, calls, mail, faults>> /\ EarsOnly

\* The result goes to whatever transport there is now, or is dropped.
TellResult ==
  /\ ears = "told"
  /\ ears' = IF transport \in {"none", "live"} /\ ~ Lost("ears") THEN "listening" ELSE "failed"
  /\ UNCHANGED <<transport, pending, queued, tool, calls, mail, faults>> /\ EarsOnly

\* end_session: never while an answer is awaited.
CallEndSession ==
  /\ ears = "listening" /\ transport = "live" /\ pending = {}
  /\ ears' = "leaving"
  /\ UNCHANGED <<transport, pending, queued, tool, calls, mail, faults>> /\ EarsOnly

NoticeDrop ==
  /\ ears = "listening" /\ (transport = "dropped" \/ Lost("ears"))
  /\ ears' = "failed"
  /\ UNCHANGED <<transport, pending, queued, tool, calls, mail, faults>> /\ EarsOnly

\* stop, of whatever transport there is now.
EarsStop ==
  /\ ears \in {"failed", "leaving"}
  /\ Take
  /\ ears' = IF ears = "failed" THEN "closing" ELSE "hanging up"
  /\ UNCHANGED <<tool, calls, mail, panelVars, main, stray, answerVars, scopeVars, serves, hand,
                 answers>>

EarsClosed ==
  /\ ears \in {"closing", "hanging up"}
  /\ ears' = IF ears = "closing" THEN "listening" ELSE "told"
  /\ UNCHANGED <<transport, pending, queued, tool, calls, mail, faults>> /\ EarsOnly

EarsStep ==
  ToolRemembers \/ ToolRefuses \/ TellResult \/ NoticeDrop \/ EarsStop \/ EarsClosed

Conversation ==
  \/ \E q \in Question : CallAsk(q)
  \/ \E p \in Prompt : CallRevise(p)
  \/ CallEndSession

SocketBreaks(how) ==
  /\ transport = "live" /\ Fault("socket")
  /\ transport' = how
  /\ UNCHANGED <<panelVars, mainVars, earVars, answerVars, pending, queued, cursor, midway,
                 scopeVars, sargentVars>>

-----------------------------------------------------------------------------
(***************************************************************************)
(* The answer thread.  It speaks into whatever transport there is; without *)
(* one what it says is dropped; a transport that is not live, or was taken *)
(* when it had been found, raises.                                         *)
(***************************************************************************)

Raises == transport \notin {"none", "live"} \/ Lost("voice")

VoiceOnly ==
  /\ midway' = midway \ {"voice"}
  /\ UNCHANGED <<panelVars, mainVars, earVars, transport, sargentVars, faults>>

\* Nothing catches what _answer_loop raises.
Dies ==
  /\ voice' = "dead" /\ asking' = NoAsk /\ serving' = {} /\ batch' = <<>>

TakeQueue ==
  /\ voice = "idle" /\ transport # "none"
  /\ voice' = "scope" /\ serving' = queued /\ queued' = {}
  /\ UNCHANGED <<asking, batch, spoken, pending, cursor, scopeVars>> /\ VoiceOnly

AskScope(q) ==
  /\ voice = "scope" /\ q \in serving
  /\ AskArrives(q)
  /\ voice' = "asking" /\ asking' = q /\ serving' = serving \ {q}
  /\ UNCHANGED <<batch, spoken, pending, queued, cursor, midway, panelVars, mainVars, earVars,
                 transport, sargentVars>>

\* A sentence, or the last words, which may be none.
Relay ==
  /\ voice = "asking" /\ wire[asking] # <<>> /\ Head(wire[asking]) # "error"
  /\ wire' = [wire EXCEPT ![asking] = Tail(@)]
  /\ pending' = IF Head(wire[asking]) = "final" THEN pending \ {asking} ELSE pending
  /\ \/ (Raises => Head(wire[asking]) = "final") /\ UNCHANGED <<voice, gone>>
     \/ Raises /\ voice' = "sorry" /\ gone' = gone \cup {asking}
  /\ UNCHANGED <<serving, asking, batch, spoken, queued, cursor, session, clone, runner, born, up,
                 askVars, otherVars, scopeHistory>> /\ VoiceOnly

RelayError ==
  /\ voice = "asking" /\ wire[asking] # <<>> /\ Head(wire[asking]) = "error"
  /\ wire' = [wire EXCEPT ![asking] = Tail(@)]
  /\ pending' = pending \ {asking}
  /\ IF Raises THEN voice' = "sorry" /\ gone' = gone \cup {asking} ELSE UNCHANGED <<voice, gone>>
  /\ UNCHANGED <<serving, asking, batch, spoken, queued, cursor, session, clone, runner, born, up,
                 askVars, otherVars, scopeHistory>> /\ VoiceOnly

AnswerEnds ==
  /\ voice = "asking" /\ wire[asking] = <<>> /\ at[asking] = "ended"
  /\ voice' = "scope" /\ asking' = NoAsk
  /\ UNCHANGED <<serving, batch, spoken, pending, queued, cursor, scopeVars>> /\ VoiceOnly

AnswerBreaks ==
  /\ voice = "asking" /\ wire[asking] = <<>> /\ at[asking] \in {"refused", "cut"}
  /\ voice' = "sorry"
  /\ UNCHANGED <<serving, asking, batch, spoken, pending, queued, cursor, scopeVars>> /\ VoiceOnly

\* Changed form for the checks: what went wrong is said, and still awaited.
ApologizeAndWait ==
  /\ voice = "sorry"
  /\ IF Raises THEN Dies ELSE voice' = "scope" /\ asking' = NoAsk /\ UNCHANGED <<serving, batch>>
  /\ UNCHANGED <<spoken, pending, queued, cursor, scopeVars>> /\ VoiceOnly

Apologize ==
  /\ voice = "sorry"
  /\ pending' = pending \ {asking}
  /\ IF Raises THEN Dies ELSE voice' = "scope" /\ asking' = NoAsk /\ UNCHANGED <<serving, batch>>
  /\ UNCHANGED <<spoken, queued, cursor, scopeVars>> /\ VoiceOnly

ReadRewrites ==
  /\ voice = "scope" /\ serving = {}
  /\ batch' = SubSeq(answers, cursor + 1, Len(answers)) /\ cursor' = Len(answers)
  /\ voice' = "rewrites"
  /\ UNCHANGED <<serving, asking, spoken, pending, queued, scopeVars>> /\ VoiceOnly

\* Changed form for the checks: any answer is relayed, awaited or not.
RelayRewriteAlways ==
  /\ voice = "rewrites" /\ batch # <<>>
  /\ pending' = pending \ {Head(batch)}
  /\ IF Raises THEN Dies /\ UNCHANGED spoken
               ELSE /\ batch' = Tail(batch) /\ UNCHANGED <<voice, serving, asking>>
                    /\ spoken' = IF transport = "none" THEN spoken
                                 ELSE [spoken EXCEPT ![Head(batch)] = @ + 1]
  /\ UNCHANGED <<queued, cursor, scopeVars>> /\ VoiceOnly

RelayRewrite ==
  /\ voice = "rewrites" /\ batch # <<>> /\ (Head(batch) \in pending \/ "voice" \in midway)
  /\ pending' = pending \ {Head(batch)}
  /\ IF Raises THEN Dies /\ UNCHANGED spoken
               ELSE /\ batch' = Tail(batch) /\ UNCHANGED <<voice, serving, asking>>
                    /\ spoken' = IF transport = "none" THEN spoken
                                 ELSE [spoken EXCEPT ![Head(batch)] = @ + 1]
  /\ UNCHANGED <<queued, cursor, scopeVars>> /\ VoiceOnly

SkipRewrite ==
  /\ voice = "rewrites" /\ batch # <<>> /\ Head(batch) \notin pending /\ "voice" \notin midway
  /\ batch' = Tail(batch)
  /\ UNCHANGED <<voice, serving, asking, spoken, pending, queued, cursor, scopeVars>> /\ VoiceOnly

RewritesDone ==
  /\ voice = "rewrites" /\ batch = <<>>
  /\ voice' = "idle"
  /\ UNCHANGED <<serving, asking, batch, spoken, pending, queued, cursor, scopeVars>> /\ VoiceOnly

AnswerStep ==
  \/ TakeQueue \/ \E q \in Question : AskScope(q)
  \/ Relay \/ RelayError \/ AnswerEnds \/ AnswerBreaks \/ Apologize
  \/ ReadRewrites \/ RelayRewrite \/ SkipRewrite \/ RewritesDone

-----------------------------------------------------------------------------
Environment ==
  \/ \E action \in {"start", "stop"} : PressListen(action)
  \/ ShutPanel
  \/ Conversation
  \/ \E how \in {"dropped", "ended"} : SocketBreaks(how)
  \/ MainMishap
  \/ (ScopeRequest /\ UNCHANGED <<sargentVars, deckVars>>)
  \/ (SargentMishap /\ UNCHANGED <<scopeVars, deckVars>>)

\* Every thread runs, and CodeScope answers or fails in the end.  The answer
\* thread turns for ever; the others only react, a bounded number of times, so
\* that fairness to them together is fairness to each.
Reactions ==
  \/ MainStep \/ EarsStep
  \/ (ScopeStep /\ UNCHANGED <<sargentVars, deckVars>>)
  \/ (SargentStep /\ UNCHANGED <<scopeVars, deckVars>>)

Next == Environment \/ AnswerStep \/ Reactions

Spec == Init /\ [][Next]_vars

FairSpec == Spec /\ WF_vars(AnswerStep) /\ WF_vars(Reactions)

-----------------------------------------------------------------------------
(***************************************************************************)
(* Properties.                                                             *)
(***************************************************************************)

\* Sargent answers a prompt again when its acknowledgement was lost; the user
\* hears the rewrite once.
RewriteSpokenOnce == \A p \in Prompt : spoken[p] <= 1

\* A question that is pending keeps the user from hanging up.  It does not stay
\* pending, whatever becomes of CodeScope and of the answer, as long as the
\* session goes on and its answer thread lives.
QuestionsEnd ==
  \A q \in Question :
    q \in pending ~> q \notin pending \/ transport = "none" \/ voice = "dead"

\* Once the panel is shut and its stop was sent, the session lets go of its
\* transport for good: whatever was pressed before, whatever fails and whichever
\* thread stops it, none is open, none is being opened, and what the other threads
\* still have to say is dropped.  This does not speak of a socket that was taken
\* while it was connecting and opened afterwards: its microphone stays open, and
\* no stop reaches it (NoHotMicrophone).
PanelClosedLetsGo == <>[](panel = "shut" => transport = "none" /\ (Captures => stray))

\* The comment at voice_deck_frontend/app.py:160: no microphone stays open with
\* no window attached to it.
NoHotMicrophone ==
  panel = "shut" /\ control = <<>> /\ main = "idle" => ~ Captures
=============================================================================
