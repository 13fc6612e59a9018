-------------------------- MODULE VoiceDeck_proofs --------------------------
(***************************************************************************)
(* For any questions, requests, prompts, sentences, agents and failures:   *)
(*                                                                         *)
(*   CodeScope by itself: types, the lock, and where the session settles.  *)
(*   Every request works on a copy, so what the session holds at rest      *)
(*   follows from what the copies hold while requests are under way.       *)
(*                                                                         *)
(*   The voice session over CodeScope and Sargent: types, the rewrites     *)
(*   that are spoken, the questions that wait for an answer, the panel     *)
(*   that is shut, and what CodeScope promises to a client that reads at   *)
(*   its own pace and hangs up.                                            *)
(***************************************************************************)
EXTENDS VoiceDeck, SequenceTheorems, TLAPS

-----------------------------------------------------------------------------
(***************************************************************************)
(* CodeScope by itself.                                                    *)
(***************************************************************************)

\* A question that has told the session of itself.
Told == {"running", "paused", "final", "unstarted", "failed"}
Opening == {"found", "cloning", "fetching"}

\* What a request has in hand while it is under way, and how much of an answer
\* has been sent.
Copies ==
  /\ \A a \in Ask : at[a] = "waiting" => session \in Session
  /\ \A a \in Ask : at[a] \in InLock => copy[a] \in Session
  /\ \A a \in Ask : at[a] \in Told => runner \in Agent
  /\ \A r \in Request : req[r] \in Opening \cup {"syncing"} => held[r] \in Session
  /\ \A a \in Ask : at[a] \in {"new", "waiting"} => wire[a] = <<>>
  /\ \A a \in Ask : at[a] \in {"taken", "running", "paused"} => Len(wire[a]) <= said[a]

ScopeTypeInv == ScopeTypeOK /\ Copies

\* What happens in the service, whoever asks and whoever hangs up.
ScopeMoves ==
  \/ ScopeStep \/ ScopeRequest
  \/ \E a \in Ask : AskArrives(a) \/ ClientHangsUp(a)

\* The service by itself does nothing else.
LEMMA ScopeOnlyMoves == [ScopeNext]_<<scopeVars, faults>> => [ScopeMoves]_scopeVars
BY DEF ScopeNext, ScopeMoves, Client

\* At first there is no session.
LEMMA InitScope == ScopeAlone => ScopeTypeInv
<1> SUFFICES ASSUME ScopeAlone PROVE ScopeTypeInv
  OBVIOUS
<1> USE CodeScopeAssumption DEF ScopeAlone, ScopeInit, Agent, AskPhase, InLock, Yielded, Over, ReqPhase,
        NoRunner, Told, Opening
<1>1. \A a \in Ask : wire[a] = <<>> /\ wire[a] \in Seq(Reply) /\ Len(wire[a]) = 0
  OBVIOUS
<1>2. wire \in [Ask -> Seq(Reply)]
  BY <1>1
<1>3. ScopeTypeOK
  <2>1. \A a \in Ask : at[a] = "new" /\ lock # a
    OBVIOUS
  <2>2. at \in [Ask -> AskPhase] /\ req \in [Request -> ReqPhase]
    OBVIOUS
  <2>3. /\ copy \in [Ask -> Session \cup {NoSession}] /\ held \in [Request -> Session \cup {NoSession}]
        /\ said \in [Ask -> 0..MaxSentences]
    OBVIOUS
  <2>4. runner \in Agent \cup {NoRunner} /\ born \in Agent /\ talked \in Agent
    OBVIOUS
  <2>5. \A a \in Ask : Len(wire[a]) <= MaxSentences + 1
    BY <1>1
  <2> HIDE DEF Agent, AskPhase, ReqPhase, NoRunner
  <2>6. \A a \in Ask : ~ (at[a] \in InLock) /\ ~ (lock = a)
    BY <2>1
  <2> QED
    BY <1>2, <2>2, <2>3, <2>4, <2>5, <2>6 DEF ScopeTypeOK
<1>4. Copies
  BY <1>1 DEF Copies
<1> QED
  BY <1>3, <1>4 DEF ScopeTypeInv

\* What is sent is one entry more, for those who listen.
LEMMA Sent ==
  ASSUME ScopeTypeInv, NEW a \in Ask, NEW what \in Reply, Send(a, what)
  PROVE  /\ wire' \in [Ask -> Seq(Reply)]
         /\ Len(wire'[a]) <= Len(wire[a]) + 1
         /\ \A b \in Ask \ {a} : wire'[b] = wire[b]
<1>1. CASE a \in Heard
  BY <1>1 DEF Send, ScopeTypeInv, ScopeTypeOK
<1>2. CASE a \notin Heard
  BY <1>2 DEF Send, ScopeTypeInv, ScopeTypeOK
<1> QED
  BY <1>1, <1>2

\* Every step keeps the types, the lock and what the copies hold.
LEMMA NextScope == ScopeTypeInv /\ [ScopeMoves]_scopeVars => ScopeTypeInv'
<1> SUFFICES ASSUME ScopeTypeInv, [ScopeMoves]_scopeVars PROVE ScopeTypeInv'
  OBVIOUS
<1> USE CodeScopeAssumption DEF ScopeTypeInv, ScopeTypeOK, Copies, Agent, AskPhase, InLock, Yielded, Over,
        ReqPhase, NoRunner, Told, Opening, scopeVars, askVars, otherVars, scopeHistory
<1>1. CASE UNCHANGED scopeVars
  BY <1>1
<1>2. CASE \E r \in Request : OpenFinds(r)
  BY <1>2 DEF OpenFinds, Joins, Session, Status
<1>3. CASE \E r \in Request : OpenPuts(r) \/ CloneBegins(r)
  <2>1. ASSUME NEW r \in Request, OpenPuts(r) PROVE ScopeTypeInv'
    BY <2>1 DEF OpenPuts, Stores
  <2>2. ASSUME NEW r \in Request, CloneBegins(r) PROVE ScopeTypeInv'
    BY <2>2 DEF CloneBegins
  <2> QED
    BY <1>3, <2>1, <2>2
<1>4. CASE \E r \in Request : OpenReady(r)
  <2> PICK r \in Request : OpenReady(r)
    BY <1>4
  <2>1. /\ req' = [req EXCEPT ![r] = "done"] /\ held' = [held EXCEPT ![r] = NoSession]
        /\ UNCHANGED <<runner, born, up, askVars, wire, gone, talked, overlapped, faults>>
    BY DEF OpenReady, OpenEnds, RequestEnds
  <2>2. clone' \in {"missing", "partial", "whole"} /\ cutOff' \subseteq cutOff
    BY DEF OpenReady, OpenEnds, Stores
  <2>3. held[r] \in Session /\ \E status \in Status : session' = [held[r] EXCEPT !.status = status]
    BY DEF OpenReady, OpenEnds, Stores, Status
  <2>4. session' \in Session
    <3> PICK status \in Status : session' = [held[r] EXCEPT !.status = status]
      BY <2>3
    <3> QED
      BY <2>3 DEF Session
  <2> QED
    BY <2>1, <2>2, <2>4
<1>5. CASE \E r \in Request : OpenFails(r)
  <2> PICK r \in Request : OpenFails(r)
    BY <1>5
  <2>1. /\ req' = [req EXCEPT ![r] = "done"] /\ held' = [held EXCEPT ![r] = NoSession]
        /\ UNCHANGED <<runner, born, up, askVars, wire, gone, talked, overlapped, faults>>
    BY DEF OpenFails, OpenEnds, RequestEnds
  <2>2. clone' \in {"missing", "partial", "whole"} /\ cutOff' \subseteq cutOff
    BY DEF OpenFails, OpenEnds, Stores
  <2>3. held[r] \in Session /\ \E status \in Status : session' = [held[r] EXCEPT !.status = status]
    BY DEF OpenFails, OpenEnds, Stores, Status
  <2>4. session' \in Session
    <3> PICK status \in Status : session' = [held[r] EXCEPT !.status = status]
      BY <2>3
    <3> QED
      BY <2>3 DEF Session
  <2> QED
    BY <2>1, <2>2, <2>4
<1>6. CASE \E r \in Request : SyncGets(r)
  BY <1>6 DEF SyncGets, Joins
<1>7. CASE \E r \in Request : SyncPuts(r)
  <2> PICK r \in Request : SyncPuts(r)
    BY <1>7
  <2>1. /\ req' = [req EXCEPT ![r] = "done"] /\ held' = [held EXCEPT ![r] = NoSession]
        /\ UNCHANGED <<clone, runner, born, up, askVars, wire, gone, talked, overlapped, faults>>
    BY DEF SyncPuts, RequestEnds
  <2>2. cutOff' \subseteq cutOff
    BY DEF SyncPuts, Stores
  <2>3. held[r] \in Session /\ (session' = session \/ session' = [held[r] EXCEPT !.status = "ready"])
    BY DEF SyncPuts, Stores
  <2>4. session' \in Session \/ session' = session
    <3>1. CASE session' = session
      BY <3>1
    <3>2. CASE session' = [held[r] EXCEPT !.status = "ready"]
      BY <2>3, <3>2 DEF Session, Status
    <3> QED
      BY <2>3, <3>1, <3>2
  <2> QED
    BY <2>1, <2>2, <2>4
<1>8. CASE \E a \in Ask : AskArrives(a)
  BY <1>8 DEF AskArrives
<1>9. CASE \E a \in Ask : TakeLock(a)
  BY <1>9 DEF TakeLock, Joins
<1>10. CASE \E a \in Ask : MissesClone(a)
  <2> PICK a \in Ask : MissesClone(a)
    BY <1>10
  <2>1. Send(a, "error")
    BY DEF MissesClone
  <2>2. at[a] = "taken" /\ said[a] \in 0..MaxSentences /\ Len(wire[a]) \in Nat
    BY DEF MissesClone
  <2>3. wire' \in [Ask -> Seq(Reply)] /\ Len(wire'[a]) <= MaxSentences + 1
        /\ \A b \in Ask \ {a} : wire'[b] = wire[b] /\ Len(wire'[b]) <= MaxSentences + 1
    BY <2>1, <2>2, Sent DEF Reply
  <2>4. /\ at' \in [Ask -> AskPhase] /\ at'[a] = "missing"
        /\ \A b \in Ask \ {a} : at'[b] = at[b]
    BY DEF MissesClone
  <2>5. /\ session' = session /\ clone' = clone /\ up' = up /\ lock' = lock /\ copy' = copy
        /\ runner' = runner /\ born' = born /\ said' = said
        /\ gone' = gone /\ req' = req /\ held' = held
        /\ talked' = talked /\ overlapped' = overlapped /\ cutOff' = cutOff
    BY DEF MissesClone
  <2>6. ScopeTypeOK'
    <3>1. \A b \in Ask : at'[b] \in InLock <=> lock' = b
      BY <2>2, <2>4, <2>5
    <3>2. \A b \in Ask : Len(wire'[b]) <= MaxSentences + 1
      BY <2>3
    <3> HIDE DEF Agent, AskPhase, ReqPhase, NoRunner, InLock, Copies
    <3> QED
      BY <2>3, <2>4, <2>5, <3>1, <3>2
  <2>7. Copies'
    BY <2>2, <2>3, <2>4, <2>5
  <2> QED
    BY <2>6, <2>7
<1>11. CASE \E a \in Ask : Thinks(a)
  <2> PICK a \in Ask : Thinks(a)
    BY <1>11
  <2>1. /\ at[a] = "taken" /\ copy[a] \in Session /\ cutOff' \subseteq cutOff
        /\ runner' \in Agent /\ session' = [copy[a] EXCEPT !.status = "thinking"]
        /\ at' = [at EXCEPT ![a] = "running"]
    BY DEF Thinks, Stores, Session
  <2>2. session' \in Session
    BY <2>1 DEF Session, Status
  <2>3. /\ at' \in [Ask -> AskPhase] /\ at'[a] = "running"
        /\ \A b \in Ask \ {a} : at'[b] = at[b]
    BY <2>1
  <2>4. UNCHANGED <<clone, born, up, lock, copy, said, wire, gone, otherVars, talked, overlapped>>
    BY DEF Thinks
  <2>5. \A b \in Ask : at'[b] \in InLock <=> lock' = b
    BY <2>1, <2>3, <2>4
  <2>6. Copies'
    BY <2>1, <2>2, <2>3, <2>4
  <2>7. ScopeTypeOK'
    <3> HIDE DEF Agent, AskPhase, ReqPhase, NoRunner, InLock, Copies
    <3> QED
      BY <2>1, <2>2, <2>3, <2>4, <2>5
  <2> QED
    BY <2>6, <2>7
<1>12. CASE \E a \in Ask : Speaks(a)
  <2> PICK a \in Ask : Speaks(a)
    BY <1>12
  <2>1. Send(a, "sentence")
    BY DEF Speaks
  <2>2. runner' \in Agent /\ born' \in Agent
    BY DEF Speaks, OpenAgent
  <2> QED
    <3>1. /\ wire' \in [Ask -> Seq(Reply)] /\ Len(wire'[a]) <= Len(wire[a]) + 1
          /\ \A b \in Ask \ {a} : wire'[b] = wire[b]
      BY <2>1, Sent DEF Reply
    <3>2. /\ at[a] = "running" /\ said[a] + 1 \in 0..MaxSentences /\ Len(wire[a]) <= said[a]
          /\ said' = [said EXCEPT ![a] = @ + 1] /\ at' = [at EXCEPT ![a] = "paused"]
          /\ Len(wire[a]) \in Nat
      BY DEF Speaks
    <3>3. /\ said' \in [Ask -> 0..MaxSentences] /\ said'[a] = said[a] + 1
          /\ \A b \in Ask \ {a} : said'[b] = said[b]
      BY <3>2
    <3>4. Len(wire'[a]) <= said'[a] /\ Len(wire'[a]) <= MaxSentences + 1
      BY <3>1, <3>2, <3>3
    <3>5. /\ at' \in [Ask -> AskPhase] /\ at'[a] = "paused"
          /\ \A b \in Ask \ {a} : at'[b] = at[b]
      BY <3>2
    <3>6. /\ session' = session /\ clone' = clone /\ up' = up /\ lock' = lock /\ copy' = copy
          /\ gone' = gone /\ req' = req /\ held' = held
          /\ talked' = talked /\ overlapped' = overlapped /\ cutOff' = cutOff
      BY DEF Speaks
    <3>7. ScopeTypeOK'
      <4>1. \A b \in Ask : at'[b] \in InLock <=> lock' = b
        BY <3>2, <3>5, <3>6
      <4>2. \A b \in Ask : Len(wire'[b]) <= MaxSentences + 1
        BY <3>1, <3>4
      <4> HIDE DEF Agent, AskPhase, ReqPhase, NoRunner, InLock, Copies
      <4> QED
        BY <2>2, <3>1, <3>3, <3>5, <3>6, <4>1, <4>2
    <3>8. Copies'
      BY <2>2, <3>1, <3>2, <3>3, <3>4, <3>5, <3>6
    <3> QED
      BY <3>7, <3>8
<1>13. CASE \E a \in Ask : Concludes(a)
  <2> PICK a \in Ask : Concludes(a)
    BY <1>13
  <2>1. Send(a, "final")
    BY DEF Concludes
  <2>2. runner' \in Agent /\ born' \in Agent /\ talked' \in Agent
    BY DEF Concludes, OpenAgent
  <2>3. at[a] = "running" /\ said[a] \in 0..MaxSentences /\ Len(wire[a]) \in Nat
    BY DEF Concludes
  <2>4. wire' \in [Ask -> Seq(Reply)] /\ Len(wire'[a]) <= MaxSentences + 1
        /\ \A b \in Ask \ {a} : wire'[b] = wire[b] /\ Len(wire'[b]) <= MaxSentences + 1
    BY <2>1, <2>3, Sent DEF Reply
  <2> QED
    BY <2>2, <2>4, ZenonT(30) DEF Concludes
<1>14. CASE \E a \in Ask : AgentFails(a)
  <2> PICK a \in Ask : AgentFails(a)
    BY <1>14
  <2>1. Send(a, "error")
    BY DEF AgentFails
  <2>2. runner' \in Agent /\ born' \in Agent
    BY DEF AgentFails, OpenAgent
  <2>3. at[a] = "running" /\ said[a] \in 0..MaxSentences /\ Len(wire[a]) \in Nat
    BY DEF AgentFails
  <2>4. wire' \in [Ask -> Seq(Reply)] /\ Len(wire'[a]) <= MaxSentences + 1
        /\ \A b \in Ask \ {a} : wire'[b] = wire[b] /\ Len(wire'[b]) <= MaxSentences + 1
    BY <2>1, <2>3, Sent DEF Reply
  <2> QED
    <3>1. at' = [at EXCEPT ![a] = "unstarted"] \/ at' = [at EXCEPT ![a] = "failed"]
      BY DEF AgentFails
    <3> DEFINE Rest == UNCHANGED <<session, clone, up, lock, copy, said, gone, otherVars, scopeHistory, faults>>
    <3>2. Rest
      BY DEF AgentFails
    <3>3. CASE at' = [at EXCEPT ![a] = "unstarted"]
      BY <2>2, <2>3, <2>4, <3>2, <3>3
    <3>4. CASE at' = [at EXCEPT ![a] = "failed"]
      BY <2>2, <2>3, <2>4, <3>2, <3>4
    <3> QED
      BY <3>1, <3>3, <3>4
<1>15. CASE \E a \in Ask : Resumes(a)
  BY <1>15 DEF Resumes
<1>16. CASE \E a \in Ask : EndsReady(a)
  BY <1>16 DEF EndsReady, Leaves, GiveLock, Session, Status
<1>17. CASE \E a \in Ask : EndsError(a)
  BY <1>17 DEF EndsError, Leaves, GiveLock, Session, Status
<1>18. CASE \E a \in Ask : Closes(a)
  BY <1>18 DEF Closes, LeftBy, GiveLock
<1>19. CASE ServiceCrashes \/ ServiceRestarts
  <2>1. CASE ServiceCrashes
    <3>1. \A a \in Ask : /\ at'[a] \in {"new"} \cup Over
                         /\ at'[a] = "new" => at[a] = "new"
      BY <2>1 DEF ServiceCrashes
    <3>2. at' \in [Ask -> AskPhase] /\ req' \in [Request -> {"new", "done"}]
      BY <2>1 DEF ServiceCrashes
    <3>3. /\ copy' \in [Ask -> Session \cup {NoSession}] /\ held' \in [Request -> Session \cup {NoSession}]
          /\ said' \in [Ask -> 0..MaxSentences]
      BY <2>1 DEF ServiceCrashes
    <3>4. \A a \in Ask : at'[a] \notin InLock /\ lock' # a
      BY <2>1, <3>1 DEF ServiceCrashes
    <3>5. cutOff' \subseteq {"status", "agent"}
      <4>1. \A a \in Ask : LeftBy(a) \subseteq {"status", "agent"}
        BY DEF LeftBy
      <4>2. UNION {LeftBy(a) : a \in Ask} \subseteq {"status", "agent"}
        BY <4>1
      <4> DEFINE Left == UNION {LeftBy(a) : a \in Ask}
                 Cut == IF \E r \in Request : req[r] \in {"cloning", "fetching"} THEN {"status"} ELSE {}
      <4>3. cutOff' = cutOff \cup Left \cup Cut
        BY <2>1 DEF ServiceCrashes
      <4>4. cutOff \subseteq {"status", "agent"} /\ Cut \subseteq {"status", "agent"}
        OBVIOUS
      <4> QED
        BY <4>2, <4>3, <4>4
    <3>6. /\ session' = session /\ clone' = clone /\ runner' = NoRunner /\ born' = born
          /\ up' = FALSE /\ lock' = NoAsk /\ wire' = wire /\ gone' = gone
          /\ talked' = talked /\ overlapped' = overlapped
      BY <2>1 DEF ServiceCrashes
    <3>7. ScopeTypeOK'
      <4>0. runner' \in Agent \cup {NoRunner} /\ up' \in BOOLEAN /\ lock' \in Ask \cup {NoAsk}
        BY <3>6
      <4>1. req' \in [Request -> ReqPhase]
        BY <3>2
      <4>2. \A a \in Ask : at'[a] \in InLock <=> lock' = a
        BY <3>4
      <4> HIDE DEF Agent, AskPhase, ReqPhase, NoRunner, InLock, Copies
      <4> QED
        BY <3>2, <3>3, <3>5, <3>6, <4>0, <4>1, <4>2
    <3>8. Copies'
      <4>1. \A a \in Ask : at'[a] \notin InLock \cup Told \cup {"waiting"}
        BY <3>1
      <4>2. \A r \in Request : req'[r] \notin Opening \cup {"syncing"}
        BY <3>2
      <4>3. \A a \in Ask : at'[a] \notin {"taken", "running", "paused"} /\ (at'[a] = "new" => wire'[a] = <<>>)
        BY <3>1, <3>6
      <4> HIDE DEF ScopeTypeOK, ScopeTypeInv
      <4> QED
        BY <4>1, <4>2, <4>3
    <3> QED
      BY <3>7, <3>8
  <2>2. CASE ServiceRestarts
    BY <2>2 DEF ServiceRestarts
  <2> QED
    BY <1>19, <2>1, <2>2
<1>20. CASE \E a \in Ask : ClientHangsUp(a)
  BY <1>20 DEF ClientHangsUp
<1> QED
  BY <1>1, <1>2, <1>3, <1>4, <1>5, <1>6, <1>7, <1>8, <1>9, <1>10, <1>11, <1>12, <1>13, <1>14,
     <1>15, <1>16, <1>17, <1>18, <1>19, <1>20 DEF ScopeMoves, ScopeStep, ScopeRequest

\* Every reachable state of the service is well typed, and its lock belongs to the
\* one question that is between taking and giving it back.
THEOREM ScopeTypeCorrect == ScopeSpec => []ScopeTypeOK
<1>1. ScopeTypeInv => ScopeTypeOK
  BY DEF ScopeTypeInv
<1> QED
  BY <1>1, InitScope, NextScope, ScopeOnlyMoves, PTL DEF ScopeSpec

-----------------------------------------------------------------------------
(***************************************************************************)
(* What the session holds.                                                 *)
(***************************************************************************)

UnderWay(r) == req[r] \in Opening \cup {"syncing"}

\* A session that is busy has somebody who will store it again, but for the status
\* that a question which was closed or cut has not stored.
BusyInv ==
  session # NoSession /\ session.status \in {"cloning", "thinking"} /\ "status" \notin cutOff =>
    \/ \E a \in Ask : at[a] \in Told
    \/ \E r \in Request : req[r] \in {"cloning", "fetching"}

\* The session and every copy of it name the agent that gave the last whole answer.
AgentNamed ==
  /\ IF session = NoSession THEN talked = 0 ELSE session.agent = talked
  /\ \A a \in Ask : at[a] \in InLock => copy[a].agent = talked
  /\ \A r \in Request : UnderWay(r) => held[r].agent = talked

\* As long as no two requests have overlapped they do so, but from the moment that an
\* answer is whole to the moment that its agent is stored, which the runner has.
AgentInv ==
  ~ overlapped =>
    /\ \A a \in Ask, r \in Request : ~ (at[a] \in InLock /\ UnderWay(r))
    /\ \A a \in Ask : at[a] = "final" => runner = talked
    /\ "agent" \notin cutOff /\ (\A a \in Ask : at[a] # "final") => AgentNamed

\* Each request that ends stores a session that is not busy.
LEMMA NextBusy == ScopeTypeInv /\ BusyInv /\ [ScopeMoves]_scopeVars => BusyInv'
<1> SUFFICES ASSUME ScopeTypeInv, BusyInv, [ScopeMoves]_scopeVars PROVE BusyInv'
  OBVIOUS
<1> USE NoSessionAssumption
    DEF BusyInv, ScopeTypeInv, ScopeTypeOK, Copies, Session, Status, InLock, Yielded, Over, Told, Opening,
        scopeVars, askVars, otherVars, scopeHistory
<1>1. CASE UNCHANGED scopeVars
  BY <1>1
<1>2. CASE \E r \in Request : OpenFinds(r)
  BY <1>2 DEF OpenFinds, Joins
<1>3. CASE \E r \in Request : OpenPuts(r)
  BY <1>3 DEF OpenPuts, Stores
<1>4. CASE \E r \in Request : CloneBegins(r)
  BY <1>4 DEF CloneBegins
<1>5. CASE \E r \in Request : OpenReady(r) \/ OpenFails(r)
  BY <1>5 DEF OpenReady, OpenFails, OpenEnds, Stores, RequestEnds
<1>6. CASE \E r \in Request : SyncGets(r)
  BY <1>6 DEF SyncGets, Joins
<1>7. CASE \E r \in Request : SyncPuts(r)
  BY <1>7 DEF SyncPuts, Stores, RequestEnds
<1>8. CASE \E a \in Ask : AskArrives(a) \/ TakeLock(a) \/ MissesClone(a) \/ Resumes(a)
  BY <1>8 DEF AskArrives, TakeLock, Joins, MissesClone, Resumes
<1>9. CASE \E a \in Ask : Thinks(a)
  BY <1>9 DEF Thinks, Stores
<1>10. CASE \E a \in Ask : Speaks(a) \/ Concludes(a) \/ AgentFails(a)
  BY <1>10 DEF Speaks, Concludes, AgentFails
<1>11. CASE \E a \in Ask : EndsReady(a) \/ EndsError(a)
  BY <1>11 DEF EndsReady, EndsError, Leaves
<1>12. CASE \E a \in Ask : Closes(a)
  BY <1>12 DEF Closes, LeftBy, GiveLock
<1>13. CASE ServiceCrashes \/ ServiceRestarts
  <2>1. \A a \in Ask : at[a] \in Told => "status" \in LeftBy(a)
    BY DEF LeftBy
  <2>2. CASE ServiceCrashes
    <3>1. /\ session' = session /\ cutOff \subseteq cutOff'
          /\ \A a \in Ask : LeftBy(a) \subseteq cutOff'
          /\ (\E r \in Request : req[r] \in {"cloning", "fetching"}) => "status" \in cutOff'
      <4> DEFINE Left == UNION {LeftBy(a) : a \in Ask}
                 Cut == IF \E r \in Request : req[r] \in {"cloning", "fetching"} THEN {"status"} ELSE {}
      <4>1. session' = session /\ cutOff' = cutOff \cup Left \cup Cut
        BY <2>2 DEF ServiceCrashes
      <4>2. \A a \in Ask : LeftBy(a) \subseteq Left
        OBVIOUS
      <4>3. (\E r \in Request : req[r] \in {"cloning", "fetching"}) => "status" \in Cut
        OBVIOUS
      <4> HIDE DEF Left, Cut
      <4> QED
        BY <4>1, <4>2, <4>3
    <3> QED
      BY <2>1, <3>1
  <2>3. CASE ServiceRestarts
    BY <2>3 DEF ServiceRestarts
  <2> QED
    BY <1>13, <2>2, <2>3
<1>14. CASE \E a \in Ask : ClientHangsUp(a)
  BY <1>14 DEF ClientHangsUp
<1> QED
  BY <1>1, <1>2, <1>3, <1>4, <1>5, <1>6, <1>7, <1>8, <1>9, <1>10, <1>11, <1>12, <1>13, <1>14
     DEF ScopeMoves, ScopeStep, ScopeRequest

\* A copy is taken when nobody else is at work, and the agent only changes with
\* the one copy that is stored.
LEMMA NextAgent == ScopeTypeInv /\ AgentInv /\ [ScopeMoves]_scopeVars => AgentInv'
<1> SUFFICES ASSUME ScopeTypeInv, AgentInv, [ScopeMoves]_scopeVars PROVE AgentInv'
  OBVIOUS
<1> USE NoSessionAssumption
    DEF AgentInv, AgentNamed, UnderWay, ScopeTypeInv, ScopeTypeOK, Copies, Session, InLock, Yielded, Over, Told,
        Opening, ReqPhase, scopeVars, askVars, otherVars, scopeHistory
<1>0. ASSUME Joins, ~ overlapped'
      PROVE  /\ ~ overlapped
             /\ \A a \in Ask : at[a] \notin InLock
             /\ \A r \in Request : ~ UnderWay(r)
  BY <1>0 DEF Joins, Working
<1>1. CASE UNCHANGED scopeVars
  BY <1>1
<1>2. CASE \E r \in Request : OpenFinds(r)
  BY <1>0, <1>2 DEF OpenFinds
<1>3. CASE \E r \in Request : OpenPuts(r)
  BY <1>3 DEF OpenPuts, Stores
<1>4. CASE \E r \in Request : CloneBegins(r)
  BY <1>4 DEF CloneBegins
<1>5. CASE \E r \in Request : OpenReady(r) \/ OpenFails(r)
  <2> PICK r \in Request : OpenReady(r) \/ OpenFails(r)
    BY <1>5
  <2>1. /\ UnderWay(r) /\ held[r] \in Session
        /\ session' = [held[r] EXCEPT !.status = "ready"] \/ session' = [held[r] EXCEPT !.status = "error"]
        /\ req' = [req EXCEPT ![r] = "done"] /\ held' = [held EXCEPT ![r] = NoSession]
        /\ cutOff' = cutOff \ {"status"}
        /\ UNCHANGED <<askVars, runner, talked, overlapped>>
    BY DEF OpenReady, OpenFails, OpenEnds, Stores, RequestEnds
  <2>2. session' # NoSession /\ session'.agent = held[r].agent
    BY <2>1 DEF Status
  <2> QED
    BY <2>1, <2>2
<1>6. CASE \E r \in Request : SyncGets(r)
  BY <1>0, <1>6 DEF SyncGets
<1>7. CASE \E r \in Request : SyncPuts(r)
  <2> PICK r \in Request : SyncPuts(r)
    BY <1>7
  <2>1. /\ UnderWay(r) /\ held[r] \in Session
        /\ session' = session \/ session' = [held[r] EXCEPT !.status = "ready"]
        /\ req' = [req EXCEPT ![r] = "done"] /\ held' = [held EXCEPT ![r] = NoSession]
        /\ cutOff' \in {cutOff, cutOff \ {"status"}}
        /\ UNCHANGED <<askVars, runner, talked, overlapped>>
    BY DEF SyncPuts, Stores, RequestEnds
  <2>2. session' = session \/ (session' # NoSession /\ session'.agent = held[r].agent)
    BY <2>1 DEF Status
  <2> QED
    BY <2>1, <2>2
<1>8. CASE \E a \in Ask : AskArrives(a) \/ MissesClone(a) \/ Resumes(a) \/ ClientHangsUp(a)
  BY <1>8 DEF AskArrives, MissesClone, Resumes, ClientHangsUp
<1>9. CASE \E a \in Ask : TakeLock(a)
  BY <1>0, <1>9 DEF TakeLock
<1>10. CASE \E a \in Ask : Thinks(a)
  <2> PICK a \in Ask : Thinks(a)
    BY <1>10
  <2>1. copy[a] \in Session /\ session' = [copy[a] EXCEPT !.status = "thinking"]
    BY DEF Thinks, Stores
  <2>2. session' # NoSession /\ session'.agent = copy[a].agent
    BY <2>1 DEF Status
  <2> QED
    BY <2>2 DEF Thinks, Stores
<1>11. CASE \E a \in Ask : Speaks(a) \/ Concludes(a) \/ AgentFails(a)
  <2> PICK a \in Ask : Speaks(a) \/ Concludes(a) \/ AgentFails(a)
    BY <1>11
  <2>1. CASE Speaks(a)
    BY <2>1 DEF Speaks
  <2>2. CASE Concludes(a)
    BY <2>2 DEF Concludes
  <2>3. CASE AgentFails(a)
    <3>a. /\ at[a] = "running" /\ UNCHANGED <<session, copy, otherVars, scopeHistory>>
          /\ \E how \in {"unstarted", "failed"} : at' = [at EXCEPT ![a] = how]
      BY <2>3 DEF AgentFails
    <3>1. /\ at[a] = "running" /\ lock = a
          /\ at'[a] \in {"unstarted", "failed"} /\ \A b \in Ask \ {a} : at'[b] = at[b]
          /\ UNCHANGED <<session, copy, otherVars, scopeHistory>>
      BY <3>a
    <3>2. \A b \in Ask : at[b] # "final" /\ at'[b] # "final" /\ (at'[b] \in InLock <=> at[b] \in InLock)
      BY <3>1
    <3> HIDE DEF ScopeTypeInv, ScopeTypeOK, Copies, InLock
    <3> QED
      BY <3>1, <3>2
  <2> QED
    BY <2>1, <2>2, <2>3
<1>12. CASE \E a \in Ask : EndsReady(a)
  <2> PICK a \in Ask : EndsReady(a)
    BY <1>12
  <2>1. at[a] = "final" /\ runner \in Agent /\ lock = a
    BY DEF EndsReady
  <2>2. session' = [status |-> "ready", agent |-> runner] /\ talked' = talked /\ runner' = runner
    BY DEF EndsReady, Leaves
  <2>3. session' # NoSession /\ session'.agent = runner
    BY <2>1, <2>2 DEF Status
  <2>4. \A b \in Ask : at'[b] \notin InLock
    BY <2>1 DEF EndsReady, Leaves, GiveLock
  <2> QED
    BY <2>1, <2>2, <2>3, <2>4 DEF EndsReady, Leaves
<1>13. CASE \E a \in Ask : EndsError(a)
  <2> PICK a \in Ask : EndsError(a)
    BY <1>13
  <2>1. at[a] \in InLock /\ copy[a] \in Session /\ copy[a].agent \in Agent /\ lock = a
    BY DEF EndsError
  <2>2. session' = [status |-> "error", agent |-> copy[a].agent] /\ talked' = talked
    BY DEF EndsError, Leaves
  <2>3. session' # NoSession /\ session'.agent = copy[a].agent
    BY <2>1, <2>2 DEF Status
  <2>4. \A b \in Ask : at'[b] \notin InLock
    BY <2>1 DEF EndsError, Leaves, GiveLock
  <2> QED
    BY <2>1, <2>2, <2>3, <2>4 DEF EndsError, Leaves
<1>14. CASE \E a \in Ask : Closes(a)
  BY <1>14 DEF Closes, LeftBy, GiveLock
<1>15. CASE ServiceCrashes \/ ServiceRestarts
  <2>1. CASE ServiceCrashes
    <3>1. \A a \in Ask : at'[a] \notin InLock
      BY <2>1 DEF ServiceCrashes
    <3>2. \A r \in Request : req'[r] \in {"new", "done"}
      BY <2>1 DEF ServiceCrashes
    <3> QED
      <4>1. /\ session' = session /\ talked' = talked /\ overlapped' = overlapped
            /\ cutOff \subseteq cutOff' /\ \A a \in Ask : LeftBy(a) \subseteq cutOff'
        BY <2>1 DEF ServiceCrashes
      <4>2. \A a \in Ask : at[a] = "final" => "agent" \in cutOff'
        BY <4>1 DEF LeftBy
      <4>3. \A r \in Request : ~ UnderWay(r)'
        BY <3>2
      <4> QED
        BY <3>1, <4>1, <4>2, <4>3
  <2>2. CASE ServiceRestarts
    BY <2>2 DEF ServiceRestarts
  <2> QED
    BY <1>15, <2>1, <2>2
<1> QED
  BY <1>1, <1>2, <1>3, <1>4, <1>5, <1>6, <1>7, <1>8, <1>9, <1>10, <1>11, <1>12, <1>13, <1>14, <1>15
     DEF ScopeMoves, ScopeStep, ScopeRequest

\* At first there is no session that could be busy or name an agent.
LEMMA InitSettled == ScopeAlone => BusyInv /\ AgentInv
BY DEF ScopeAlone, ScopeInit, BusyInv, AgentInv, AgentNamed, UnderWay, InLock, Yielded, Opening

\* A session at rest is ready or in error and names the agent that gave the last whole
\* answer, whichever requests were under way before, unless what was to say so was just
\* what a question or a request that was closed or cut had not stored (service.py:251-260),
\* or copies of requests that overlapped have overwritten each other.
THEOREM SessionSettlesEver == ScopeSpec => []SessionSettles
<1>1. ScopeTypeInv /\ BusyInv /\ AgentInv => SessionSettles
  BY DEF ScopeTypeInv, ScopeTypeOK, BusyInv, AgentInv, AgentNamed, SessionSettles, Working, InLock,
     Yielded, Told, UnderWay, Opening
<1> QED
  BY <1>1, InitScope, InitSettled, NextScope, ScopeOnlyMoves, NextBusy, NextAgent, PTL DEF ScopeSpec

-----------------------------------------------------------------------------
(***************************************************************************)
(* The voice session.  Its steps, by who takes them.                       *)
(***************************************************************************)

PanelTurn == ShutPanel \/ \E action \in {"start", "stop"} : PressListen(action)

MainTurn == MainStep \/ MainMishap

EarsTurn == Conversation \/ EarsStep

Breaks == \E how \in {"dropped", "ended"} : SocketBreaks(how)

ScopeTurn == (ScopeStep \/ ScopeRequest) /\ UNCHANGED <<sargentVars, deckVars>>

SargentTurn == (SargentStep \/ SargentMishap) /\ UNCHANGED <<scopeVars, deckVars>>

\* Nobody else takes a step.
LEMMA Turns ==
  Next => PanelTurn \/ MainTurn \/ EarsTurn \/ Breaks \/ AnswerStep \/ ScopeTurn \/ SargentTurn
BY DEF Next, Environment, Reactions, PanelTurn, MainTurn, EarsTurn, Breaks, ScopeTurn, SargentTurn

\* The answer thread reads an entry of the answer that it asked for, and may hang up.
Reads ==
  /\ voice = "asking" /\ wire[asking] # <<>>
  /\ wire' = [wire EXCEPT ![asking] = Tail(@)]
  /\ gone' = gone \/ gone' = gone \cup {asking}
  /\ UNCHANGED <<session, clone, runner, born, up, askVars, otherVars, scopeHistory>>

\* Whatever the session does, the service sees a request or nothing; what it has
\* sent is read, and its client may hang up.
LEMMA SeenByScope == [Next]_vars => [ScopeMoves]_scopeVars \/ Reads
<1> SUFFICES ASSUME [Next]_vars PROVE [ScopeMoves]_scopeVars \/ Reads
  OBVIOUS
<1>1. CASE UNCHANGED vars
  BY <1>1 DEF vars
<1>2. CASE PanelTurn
  BY <1>2 DEF PanelTurn, PressListen, ShutPanel
<1>3. CASE MainTurn
  BY <1>3 DEF MainTurn, MainStep, MainMishap, Start, StartAgain, Stop, Apply, Connects, ConnectFails,
    Closed
<1>4. CASE EarsTurn
  BY <1>4 DEF EarsTurn, Conversation, CallAsk, CallRevise, CallEndSession, EarsStep, ToolRemembers,
    ToolRefuses, TellResult, NoticeDrop, EarsStop, EarsClosed, EarsOnly
<1>5. CASE Breaks
  BY <1>5 DEF Breaks, SocketBreaks
<1>6. CASE AnswerStep
  <2>1. CASE Relay \/ RelayError
    <3>1. Reads
      BY <2>1 DEF Relay, RelayError, Reads
    <3> QED BY <3>1
  <2>2. CASE \E q \in Question : AskScope(q)
    BY <2>2, CodeScopeAssumption DEF AskScope, ScopeMoves, Question
  <2>3. CASE TakeQueue \/ AnswerEnds \/ AnswerBreaks \/ Apologize \/ ReadRewrites
    BY <2>3 DEF TakeQueue, AnswerEnds, AnswerBreaks, Apologize, ReadRewrites
  <2>4. CASE RelayRewrite \/ SkipRewrite \/ RewritesDone
    BY <2>4 DEF RelayRewrite, SkipRewrite, RewritesDone
  <2> QED BY <1>6, <2>1, <2>2, <2>3, <2>4 DEF AnswerStep
<1>7. CASE ScopeTurn
  BY <1>7 DEF ScopeTurn, ScopeMoves
<1>8. CASE SargentTurn
  BY <1>8 DEF SargentTurn
<1> QED BY <1>1, <1>2, <1>3, <1>4, <1>5, <1>6, <1>7, <1>8, Turns

(***************************************************************************)
(* Types.                                                                  *)
(***************************************************************************)

\* Sargent has in hand what was handed to it.
SargentInv == SargentTypeOK /\ (hand # NoPrompt => mail[hand] = "handed")

DeckTypes ==
  /\ faults \in 0..MaxFaults
  /\ panel \in {"open", "shut", "unsent"}
  /\ presses \in 0..MaxPresses
  /\ control \in Seq({"start", "stop"})
  /\ Len(control) <= presses + (IF panel = "shut" THEN 1 ELSE 0)
  /\ main \in {"idle", "connecting", "closing"}
  /\ transport \in Transport
  /\ stray \in BOOLEAN
  /\ transport = "opening" => main = "connecting"

EarsTypes ==
  /\ ears \in {"listening", "tool", "told", "failed", "closing", "leaving", "hanging up"}
  /\ tool \in Asked \cup {NoTool} /\ calls \in 0..MaxCalls
  /\ ears = "tool" <=> tool # NoTool
  /\ pending \subseteq Asked
  /\ queued \subseteq Question

VoiceTypes ==
  /\ serving \subseteq Question
  /\ voice \in {"idle", "scope", "asking", "sorry", "rewrites", "dead"}
  /\ asking \in Question \cup {NoAsk}
  /\ voice \in {"asking", "sorry"} <=> asking # NoAsk
  /\ batch \in Seq(Prompt) /\ Len(batch) <= Len(answers)
  /\ cursor \in 0..MaxAnswers /\ cursor <= Len(answers)
  /\ midway \subseteq {"ears", "voice"}

\* A prompt that the user is still to hear of: sent, and not spoken.
Unheard(p) == mail[p] # "unsent" /\ spoken[p] = 0

\* A rewrite was spoken only if its prompt was sent; while its prompt is with the
\* tool or awaited, it has not been spoken.
SpokenInv ==
  /\ spoken \in [Prompt -> {0, 1}]
  /\ \A p \in Prompt :
       /\ tool = p \/ p \in pending => Unheard(p)
       /\ mail[p] = "unsent" => spoken[p] = 0
       /\ spoken[p] <= Len(answers)
       /\ ~ (tool = p /\ p \in pending)

\* A rewrite that the answer thread was about to speak when its transport was taken
\* has not been spoken, and it is not awaited again.
MidwayInv ==
  "voice" \in midway =>
    /\ voice \in {"asking", "sorry", "rewrites"}
    /\ voice = "rewrites" =>
         /\ batch # <<>> /\ Unheard(Head(batch))
         /\ tool # Head(batch) /\ Head(batch) \notin pending

TypeInv ==
  /\ ScopeTypeInv /\ SargentInv /\ DeckTypes /\ EarsTypes /\ VoiceTypes
  /\ SpokenInv /\ MidwayInv

\* The types with what they rest on imply the type invariant.
LEMMA TypeImplies == TypeInv => TypeOK
<1> SUFFICES ASSUME TypeInv PROVE TypeOK
  OBVIOUS
<1>1. ScopeTypeOK /\ SargentTypeOK
  BY DEF TypeInv, ScopeTypeInv, SargentInv
<1>2. Len(answers) \in Nat /\ Len(answers) <= MaxAnswers /\ MaxAnswers \in Nat
  BY <1>1, SargentAssumption DEF SargentTypeOK
<1>3. Len(control) <= MaxPresses + 1
  BY VoiceDeckAssumption DEF TypeInv, DeckTypes
<1>4. spoken \in [Prompt -> 0..MaxAnswers]
  BY <1>2 DEF TypeInv, SpokenInv
<1>5. Len(batch) <= MaxAnswers
  BY <1>2 DEF TypeInv, VoiceTypes
<1> QED BY <1>1, <1>3, <1>4, <1>5 DEF TypeInv, DeckTypes, EarsTypes, VoiceTypes, TypeOK

\* At first nothing was pressed, asked, sent or said.
LEMMA InitType == Init => TypeInv
<1> SUFFICES ASSUME Init PROVE TypeInv
  OBVIOUS
<1>1. ScopeTypeInv
  BY InitScope DEF Init, ScopeAlone
<1>2. SargentInv
  BY SargentAssumption DEF Init, SargentInit, SargentInv, SargentTypeOK
<1>3. DeckTypes
  <2>1. control \in Seq({"start", "stop"}) /\ Len(control) = 0
    BY DEF Init
  <2>2. faults \in 0..MaxFaults /\ presses \in 0..MaxPresses /\ presses = 0 /\ panel = "open"
    BY MishapsAssumption, VoiceDeckAssumption DEF Init
  <2>3. Len(control) <= presses + (IF panel = "shut" THEN 1 ELSE 0)
    BY <2>1, <2>2
  <2>4. transport \in Transport /\ transport # "opening" /\ main = "idle" /\ stray \in BOOLEAN
    BY DEF Init, Transport
  <2> QED BY <2>1, <2>2, <2>3, <2>4 DEF DeckTypes
<1>4. EarsTypes
  BY VoiceDeckAssumption DEF Init, EarsTypes, NoTool
<1>5. VoiceTypes
  BY SargentAssumption DEF Init, SargentInit, VoiceTypes
<1>6. SpokenInv
  BY SargentAssumption DEF Init, SargentInit, SpokenInv, NoTool
<1>7. MidwayInv
  BY DEF Init, MidwayInv
<1> QED BY <1>1, <1>2, <1>3, <1>4, <1>5, <1>6, <1>7 DEF TypeInv

\* An entry that is read leaves the rest of the answer.
LEMMA ReadsType == ASSUME ScopeTypeInv, asking \in Ask, Reads PROVE ScopeTypeInv'
<1>1. /\ wire[asking] \in Seq(Reply) /\ wire[asking] # <<>>
      /\ Tail(wire[asking]) \in Seq(Reply) /\ Len(Tail(wire[asking])) = Len(wire[asking]) - 1
      /\ Len(wire[asking]) \in Nat
  BY DEF ScopeTypeInv, ScopeTypeOK, Reads
<1>2. wire' \in [Ask -> Seq(Reply)] /\ wire'[asking] = Tail(wire[asking])
      /\ \A a \in Ask \ {asking} : wire'[a] = wire[a]
  BY <1>1 DEF ScopeTypeInv, ScopeTypeOK, Reads
<1>3. \A a \in Ask : Len(wire'[a]) <= Len(wire[a]) /\ (wire[a] = <<>> => wire'[a] = <<>>)
  BY <1>1, <1>2 DEF ScopeTypeInv, ScopeTypeOK
<1>4. gone' \subseteq Ask
  BY DEF Reads, ScopeTypeInv, ScopeTypeOK
<1>5. /\ session' = session /\ clone' = clone /\ runner' = runner /\ born' = born /\ up' = up
      /\ lock' = lock /\ at' = at /\ copy' = copy /\ said' = said /\ req' = req /\ held' = held
      /\ talked' = talked /\ overlapped' = overlapped /\ cutOff' = cutOff
  BY DEF Reads, askVars, otherVars, scopeHistory
<1>6. \A a \in Ask : Len(wire[a]) \in Nat /\ Len(wire'[a]) \in Nat /\ said[a] \in Nat
  BY <1>2, CodeScopeAssumption DEF ScopeTypeInv, ScopeTypeOK
<1>7. \A a \in Ask : Len(wire'[a]) <= MaxSentences + 1
  BY <1>3, <1>6, CodeScopeAssumption DEF ScopeTypeInv, ScopeTypeOK
<1>8. ScopeTypeOK'
  BY <1>2, <1>4, <1>5, <1>7 DEF ScopeTypeInv, ScopeTypeOK
<1>9. Copies'
  BY <1>3, <1>5, <1>6 DEF ScopeTypeInv, Copies
<1> QED BY <1>8, <1>9 DEF ScopeTypeInv

\* Whoever is asked is a question of the service.
LEMMA AskingIsAsk == ASSUME VoiceTypes, voice = "asking" PROVE asking \in Ask /\ asking \in Question
BY CodeScopeAssumption DEF VoiceTypes, Question

\* The service keeps its types under the voice session.
LEMMA NextScopeType == TypeInv /\ [Next]_vars => ScopeTypeInv'
<1>1. ASSUME TypeInv, Reads PROVE ScopeTypeInv'
  BY <1>1, AskingIsAsk, ReadsType DEF TypeInv, Reads
<1> QED BY <1>1, SeenByScope, NextScope DEF TypeInv

\* Only its own steps and a prompt that is sent touch Sargent.
LEMMA SeenBySargent ==
  [Next]_vars =>
    \/ UNCHANGED sargentVars
    \/ \E p \in Prompt : CallRevise(p)
    \/ SargentTurn
<1> SUFFICES ASSUME [Next]_vars PROVE UNCHANGED sargentVars \/ (\E p \in Prompt : CallRevise(p)) \/ SargentTurn
  OBVIOUS
<1>1. CASE UNCHANGED vars
  BY <1>1 DEF vars
<1>2. CASE PanelTurn
  BY <1>2 DEF PanelTurn, PressListen, ShutPanel
<1>3. CASE MainTurn
  BY <1>3 DEF MainTurn, MainStep, MainMishap, Start, StartAgain, Stop, Apply, Connects, ConnectFails,
    Closed
<1>4. CASE EarsTurn
  BY <1>4 DEF EarsTurn, Conversation, CallAsk, CallEndSession, EarsStep, ToolRemembers,
    ToolRefuses, TellResult, NoticeDrop, EarsStop, EarsClosed, EarsOnly, sargentVars
<1>5. CASE Breaks
  BY <1>5 DEF Breaks, SocketBreaks
<1>6. CASE AnswerStep
  BY <1>6 DEF AnswerStep, TakeQueue, AskScope, Relay, RelayError, AnswerEnds, AnswerBreaks, Apologize,
    ReadRewrites, RelayRewrite, SkipRewrite, RewritesDone, VoiceOnly
<1>7. CASE ScopeTurn
  BY <1>7 DEF ScopeTurn
<1> QED BY <1>1, <1>2, <1>3, <1>4, <1>5, <1>6, <1>7, Turns

\* What Sargent has in hand was handed to it, and its answers only grow.
LEMMA NextSargent ==
  TypeInv /\ [Next]_vars =>
    /\ SargentInv'
    /\ Len(answers') \in Nat /\ Len(answers) <= Len(answers')
    /\ \A p \in Prompt : mail'[p] = "unsent" => mail[p] = "unsent"
<1> SUFFICES ASSUME TypeInv, [Next]_vars
             PROVE  /\ SargentInv'
                    /\ Len(answers') \in Nat /\ Len(answers) <= Len(answers')
                    /\ \A p \in Prompt : mail'[p] = "unsent" => mail[p] = "unsent"
  OBVIOUS
<1> USE SargentAssumption DEF TypeInv, SargentInv, SargentTypeOK
<1>1. CASE UNCHANGED sargentVars
  BY <1>1 DEF sargentVars
<1>2. ASSUME NEW p \in Prompt, CallRevise(p)
      PROVE  /\ SargentInv' /\ answers' = answers
             /\ \A q \in Prompt : mail'[q] = "unsent" => mail[q] = "unsent"
  BY <1>2 DEF CallRevise, SendPrompt
<1>3. CASE SargentTurn
  <2>1. ASSUME NEW p \in Prompt, TakePrompt(p)
        PROVE  /\ SargentInv' /\ answers' = answers
               /\ \A q \in Prompt : mail'[q] = "unsent" => mail[q] = "unsent"
    BY <2>1 DEF TakePrompt
  <2>2. CASE AnswerPrompt
    BY <2>2 DEF AnswerPrompt
  <2>3. CASE AckPrompt
    BY <2>3 DEF AckPrompt
  <2>4. CASE SargentRestarts
    BY <2>4 DEF SargentRestarts
  <2>5. CASE AnswerIsLost \/ AckFails
    BY <2>5 DEF AnswerIsLost, AckFails
  <2>6. CASE SargentCrashes
    BY <2>6 DEF SargentCrashes
  <2> QED BY <1>3, <2>1, <2>2, <2>3, <2>4, <2>5, <2>6 DEF SargentTurn, SargentStep, SargentMishap
<1> QED BY <1>1, <1>2, <1>3, SeenBySargent

\* The panel, the main thread and the transport keep their types: a transport that
\* is opening has the main thread waiting for it.
LEMMA NextDeck == TypeInv /\ [Next]_vars => DeckTypes'
<1> SUFFICES ASSUME TypeInv, [Next]_vars PROVE DeckTypes'
  OBVIOUS
<1>0. DeckTypes
  BY DEF TypeInv
<1>a. ASSUME NEW kind, Fault(kind) PROVE faults' \in 0..MaxFaults
  BY <1>0, <1>a, MishapsAssumption DEF Fault, DeckTypes
<1>1. CASE UNCHANGED vars
  BY <1>0, <1>1 DEF vars, deckVars, panelVars, mainVars, shared, DeckTypes
<1>2. CASE PanelTurn
  <2>1. CASE ShutPanel
    <3>1. faults' \in 0..MaxFaults
      BY <1>0, <1>a, <2>1 DEF ShutPanel, DeckTypes
    <3>2. /\ control' \in Seq({"start", "stop"})
          /\ Len(control') <= presses + (IF panel' = "shut" THEN 1 ELSE 0)
      BY <1>0, <2>1, VoiceDeckAssumption DEF ShutPanel, DeckTypes
    <3> QED BY <1>0, <2>1, <3>1, <3>2 DEF ShutPanel, DeckTypes, mainVars, shared
  <2>2. ASSUME NEW action \in {"start", "stop"}, PressListen(action) PROVE DeckTypes'
    <3>1. /\ control' \in Seq({"start", "stop"}) /\ Len(control') = Len(control) + 1
          /\ presses' = presses + 1 /\ presses' \in 0..MaxPresses
      BY <1>0, <2>2, VoiceDeckAssumption DEF PressListen, DeckTypes
    <3>2. Len(control') <= presses' + (IF panel' = "shut" THEN 1 ELSE 0)
      BY <1>0, <2>2, <3>1, VoiceDeckAssumption DEF PressListen, DeckTypes
    <3> QED BY <1>0, <2>2, <3>1, <3>2 DEF PressListen, DeckTypes, mainVars, shared
  <2> QED BY <1>2, <2>1, <2>2 DEF PanelTurn
<1>3. CASE MainTurn
  <2>1. ASSUME NEW action, Apply(action)
        PROVE  /\ control' \in Seq({"start", "stop"}) /\ UNCHANGED <<panel, presses, stray>>
               /\ Len(control') <= presses + (IF panel = "shut" THEN 1 ELSE 0)
    BY <1>0, <2>1, VoiceDeckAssumption DEF Apply, DeckTypes
  <2>2. CASE Start \/ StartAgain \/ Stop
    <3>1. faults' \in 0..MaxFaults
      BY <1>0, <1>a, <2>2 DEF Start, StartAgain, Stop, Take, DeckTypes
    <3> QED BY <1>0, <2>1, <2>2, <3>1 DEF Start, StartAgain, Stop, Take, DeckTypes, Transport, shared, Apply
  <2>3. CASE Connects \/ Closed
    BY <1>0, <2>3 DEF Connects, Closed, DeckTypes, Transport, shared, panelVars
  <2>4. CASE ConnectFails
    <3>1. faults' \in 0..MaxFaults
      BY <1>0, <1>a, <2>4 DEF ConnectFails, DeckTypes
    <3> QED BY <1>0, <2>4, <3>1 DEF ConnectFails, DeckTypes, Transport, panelVars
  <2> QED BY <1>3, <2>2, <2>3, <2>4 DEF MainTurn, MainStep, MainMishap
<1>4. CASE EarsTurn
  <2>1. UNCHANGED <<panelVars, main, stray>>
    BY <1>4 DEF EarsTurn, Conversation, CallAsk, CallRevise, CallEndSession, EarsStep, ToolRemembers,
      ToolRefuses, TellResult, NoticeDrop, EarsStop, EarsClosed, EarsOnly, mainVars
  <2>2. transport' \in {transport, "none"}
    BY <1>4 DEF EarsTurn, Conversation, CallAsk, CallRevise, CallEndSession, EarsStep, ToolRemembers,
      ToolRefuses, TellResult, NoticeDrop, EarsStop, EarsClosed, Take
  <2>3. faults' \in 0..MaxFaults
    BY <1>0, <1>a, <1>4 DEF EarsTurn, Conversation, CallAsk, CallRevise, CallEndSession, EarsStep,
      ToolRemembers, ToolRefuses, TellResult, NoticeDrop, EarsStop, EarsClosed, Take, DeckTypes
  <2> QED BY <1>0, <2>1, <2>2, <2>3 DEF DeckTypes, Transport, panelVars
<1>5. CASE Breaks
  <2>1. faults' \in 0..MaxFaults
    BY <1>a, <1>5 DEF Breaks, SocketBreaks
  <2> QED BY <1>0, <1>5, <2>1 DEF Breaks, SocketBreaks, DeckTypes, Transport, panelVars, mainVars
<1>6. CASE AnswerStep
  <2>1. UNCHANGED <<panelVars, mainVars, transport, faults>>
    BY <1>6 DEF AnswerStep, TakeQueue, AskScope, Relay, RelayError, AnswerEnds, AnswerBreaks, Apologize,
      ReadRewrites, RelayRewrite, SkipRewrite, RewritesDone, VoiceOnly, AskArrives
  <2> QED BY <1>0, <2>1 DEF DeckTypes, panelVars, mainVars
<1>7. CASE ScopeTurn
  <2>1. faults' \in 0..MaxFaults
    BY <1>0, <1>a, <1>7 DEF ScopeTurn, ScopeStep, ScopeRequest, OpenFinds, OpenPuts, CloneBegins,
      OpenReady, OpenFails, OpenEnds, SyncGets, SyncPuts, TakeLock, MissesClone, Thinks, Speaks,
      Concludes, AgentFails, Resumes, EndsReady, EndsError, Leaves, Closes, ServiceCrashes,
      ServiceRestarts, DeckTypes
  <2> QED BY <1>0, <1>7, <2>1 DEF ScopeTurn, deckVars, panelVars, mainVars, shared, DeckTypes
<1>8. CASE SargentTurn
  <2>1. faults' \in 0..MaxFaults
    BY <1>0, <1>a, <1>8 DEF SargentTurn, SargentStep, SargentMishap, TakePrompt, AnswerPrompt, AckPrompt,
      SargentRestarts, AnswerIsLost, AckFails, SargentCrashes, DeckTypes
  <2> QED BY <1>0, <1>8, <2>1 DEF SargentTurn, deckVars, panelVars, mainVars, shared, DeckTypes
<1> QED BY <1>1, <1>2, <1>3, <1>4, <1>5, <1>6, <1>7, <1>8, Turns

\* What the tool has in hand, and what is pending and queued, are questions and prompts.
LEMMA NextEars == TypeInv /\ [Next]_vars => EarsTypes'
<1> SUFFICES ASSUME TypeInv, [Next]_vars PROVE EarsTypes'
  OBVIOUS
<1>0. EarsTypes /\ VoiceTypes
  BY DEF TypeInv
<1> USE VoiceDeckAssumption, SargentAssumption, CodeScopeAssumption DEF NoTool, Asked, Question
<1>1. ASSUME UNCHANGED earVars, pending' \subseteq pending, queued' \subseteq queued PROVE EarsTypes'
  BY <1>0, <1>1 DEF EarsTypes, earVars
<1>2. CASE UNCHANGED vars \/ PanelTurn \/ Breaks \/ ScopeTurn \/ SargentTurn
  BY <1>1, <1>2 DEF vars, deckVars, shared, PanelTurn, PressListen, ShutPanel, Breaks, SocketBreaks,
    ScopeTurn, SargentTurn
<1>3. CASE MainTurn
  BY <1>1, <1>3 DEF MainTurn, MainStep, MainMishap, Start, StartAgain, Stop, Apply, Take, Connects,
    ConnectFails, Closed, shared
<1>4. CASE AnswerStep
  <2>1. UNCHANGED earVars /\ pending' \subseteq pending /\ queued' \subseteq queued
    BY <1>4 DEF AnswerStep, TakeQueue, AskScope, Relay, RelayError, AnswerEnds, AnswerBreaks, Apologize,
      ReadRewrites, RelayRewrite, SkipRewrite, RewritesDone, VoiceOnly
  <2> QED BY <1>1, <2>1
<1>5. CASE EarsTurn
  <2>1. CASE \E q \in Question : CallAsk(q)
    BY <1>0, <2>1 DEF CallAsk, EarsTypes, EarsOnly
  <2>2. CASE \E p \in Prompt : CallRevise(p)
    BY <1>0, <2>2 DEF CallRevise, EarsTypes, EarsOnly
  <2>3. CASE ToolRemembers
    BY <1>0, <2>3 DEF ToolRemembers, EarsTypes, EarsOnly
  <2>4. CASE ToolRefuses \/ TellResult \/ CallEndSession \/ NoticeDrop \/ EarsClosed
    BY <1>0, <2>4 DEF ToolRefuses, TellResult, CallEndSession, NoticeDrop, EarsClosed, EarsTypes, EarsOnly
  <2>5. CASE EarsStop
    BY <1>0, <2>5 DEF EarsStop, Take, EarsTypes
  <2> QED BY <1>5, <2>1, <2>2, <2>3, <2>4, <2>5 DEF EarsTurn, Conversation, EarsStep
<1> QED BY <1>2, <1>3, <1>4, <1>5, Turns

\* A thread loses its transport under its hands only to a stop, and a thread that goes
\* on is not about to use it any more.
LEMMA MidwayMoves ==
  [Next]_vars =>
    \/ midway' \subseteq midway
    \/ /\ \E t \in Using : midway' = midway \cup {t}
       /\ pending' = {}
       /\ UNCHANGED <<answerVars, sargentVars, tool>>
<1> DEFINE Taken == /\ \E t \in Using : midway' = midway \cup {t}
                    /\ pending' = {}
                    /\ UNCHANGED <<answerVars, sargentVars, tool>>
<1> SUFFICES ASSUME [Next]_vars PROVE midway' \subseteq midway \/ Taken
  OBVIOUS
<1>1. CASE UNCHANGED vars \/ PanelTurn \/ Breaks \/ ScopeTurn \/ SargentTurn
  BY <1>1 DEF vars, deckVars, shared, PanelTurn, PressListen, ShutPanel, Breaks, SocketBreaks,
    ScopeTurn, SargentTurn
<1>2. CASE MainTurn
  <2>1. CASE Stop
    BY <2>1 DEF Stop, Apply, Take, earVars
  <2>2. CASE Start \/ StartAgain \/ Connects \/ Closed \/ ConnectFails
    BY <2>2 DEF Start, StartAgain, Connects, Closed, ConnectFails, shared
  <2> QED BY <1>2, <2>1, <2>2 DEF MainTurn, MainStep, MainMishap
<1>3. CASE EarsTurn
  <2>1. CASE EarsStop
    BY <2>1 DEF EarsStop, Take, sargentVars
  <2>2. CASE Conversation \/ ToolRemembers \/ ToolRefuses \/ TellResult \/ NoticeDrop \/ EarsClosed
    BY <2>2 DEF Conversation, CallAsk, CallRevise, CallEndSession, ToolRemembers, ToolRefuses, TellResult,
      NoticeDrop, EarsClosed, EarsOnly
  <2> QED BY <1>3, <2>1, <2>2 DEF EarsTurn, EarsStep
<1>4. CASE AnswerStep
  BY <1>4 DEF AnswerStep, TakeQueue, AskScope, Relay, RelayError, AnswerEnds, AnswerBreaks, Apologize,
    ReadRewrites, RelayRewrite, SkipRewrite, RewritesDone, VoiceOnly
<1> QED BY <1>1, <1>2, <1>3, <1>4, Turns

\* What the answer thread has in hand was asked or answered before.
LEMMA NextVoice == TypeInv /\ [Next]_vars => VoiceTypes'
<1> SUFFICES ASSUME TypeInv, [Next]_vars PROVE VoiceTypes'
  OBVIOUS
<1>0. VoiceTypes /\ queued \subseteq Question
  BY DEF TypeInv, EarsTypes
<1>a. /\ answers \in Seq(Prompt) /\ answers' \in Seq(Prompt)
      /\ Len(answers) \in Nat /\ Len(answers') \in Nat /\ Len(answers) <= Len(answers')
      /\ Len(answers) <= MaxAnswers /\ MaxAnswers \in Nat
  BY NextSargent, SargentAssumption DEF TypeInv, SargentInv, SargentTypeOK
<1>b. midway' \subseteq {"ears", "voice"}
  BY <1>0, MidwayMoves DEF VoiceTypes, Using
<1>1. ASSUME UNCHANGED answerVars, cursor' = cursor \/ cursor' = Len(answers)
      PROVE  VoiceTypes'
  BY <1>0, <1>1, <1>a, <1>b DEF VoiceTypes, answerVars
<1>2. CASE UNCHANGED vars \/ PanelTurn \/ Breaks \/ ScopeTurn \/ SargentTurn
  BY <1>1, <1>2 DEF vars, deckVars, shared, PanelTurn, PressListen, ShutPanel, Breaks, SocketBreaks,
    ScopeTurn, SargentTurn
<1>3. CASE MainTurn
  BY <1>1, <1>3 DEF MainTurn, MainStep, MainMishap, Start, StartAgain, Stop, Apply, Take, Connects,
    ConnectFails, Closed, shared
<1>4. CASE EarsTurn
  BY <1>1, <1>4 DEF EarsTurn, Conversation, CallAsk, CallRevise, CallEndSession, EarsStep, ToolRemembers,
    ToolRefuses, TellResult, NoticeDrop, EarsStop, EarsClosed, EarsOnly, Take
<1>5. CASE AnswerStep
  <2> USE CodeScopeAssumption DEF VoiceTypes, Question, sargentVars
  <2>0. answers' = answers
    BY <1>5 DEF AnswerStep, TakeQueue, AskScope, Relay, RelayError, AnswerEnds, AnswerBreaks, Apologize,
      ReadRewrites, RelayRewrite, SkipRewrite, RewritesDone, VoiceOnly
  <2>1. CASE TakeQueue
    BY <1>0, <1>a, <1>b, <2>0, <2>1 DEF TakeQueue
  <2>2. CASE \E q \in Question : AskScope(q)
    BY <1>0, <1>a, <1>b, <2>0, <2>2 DEF AskScope
  <2>3. CASE Relay \/ RelayError
    BY <1>0, <1>a, <1>b, <2>0, <2>3 DEF Relay, RelayError
  <2>4. CASE AnswerEnds \/ AnswerBreaks
    BY <1>0, <1>a, <1>b, <2>0, <2>4 DEF AnswerEnds, AnswerBreaks
  <2>5. CASE Apologize
    <3>1. /\ voice' \in {"dead", "scope"} /\ serving' \in {serving, {}} /\ asking' = NoAsk
          /\ UNCHANGED <<answers, spoken, queued, cursor>>
      BY <2>0, <2>5 DEF Apologize, Dies
    <3>2. CASE Raises
      BY <1>0, <1>b, <2>5, <3>1, <3>2 DEF Apologize, Dies
    <3>3. CASE ~Raises
      BY <1>0, <1>b, <2>5, <3>1, <3>3 DEF Apologize
    <3> QED BY <3>2, <3>3
  <2>6. CASE ReadRewrites
    <3>1. /\ cursor \in 0..Len(answers)
          /\ batch' = SubSeq(answers, cursor + 1, Len(answers))
      BY <1>0, <1>a, <2>6 DEF ReadRewrites
    <3>2. batch' \in Seq(Prompt) /\ Len(batch') <= Len(answers)
      BY <1>a, <3>1
    <3> QED BY <1>0, <1>a, <1>b, <2>0, <2>6, <3>2 DEF ReadRewrites
  <2>7. CASE RelayRewrite \/ SkipRewrite
    <3>1. /\ Tail(batch) \in Seq(Prompt) /\ Len(Tail(batch)) <= Len(answers)
      BY <1>0, <1>a, <2>7 DEF RelayRewrite, SkipRewrite
    <3>2. batch' \in {Tail(batch), <<>>}
      BY <2>7 DEF RelayRewrite, SkipRewrite, Dies
    <3>3. batch' \in Seq(Prompt) /\ Len(batch') <= Len(answers')
      <4>1. CASE batch' = Tail(batch)
        BY <2>0, <3>1, <4>1
      <4>2. CASE batch' = <<>>
        BY <1>a, <2>0, <4>2
      <4> QED BY <3>2, <4>1, <4>2
    <3>4. CASE RelayRewrite
      BY <1>0, <1>a, <1>b, <2>0, <3>3, <3>4 DEF RelayRewrite, Dies
    <3>5. CASE SkipRewrite
      BY <1>0, <1>a, <1>b, <2>0, <3>3, <3>5 DEF SkipRewrite
    <3> QED BY <2>7, <3>4, <3>5
  <2>8. CASE RewritesDone
    BY <1>0, <1>a, <1>b, <2>0, <2>8 DEF RewritesDone
  <2> QED BY <1>5, <2>1, <2>2, <2>3, <2>4, <2>5, <2>6, <2>7, <2>8 DEF AnswerStep
<1> QED BY <1>2, <1>3, <1>4, <1>5, Turns

\* A rewrite is only spoken while its prompt is awaited, and then it is not awaited
\* any more.
LEMMA NextSpoken == TypeInv /\ [Next]_vars => SpokenInv'
<1> SUFFICES ASSUME TypeInv, [Next]_vars PROVE SpokenInv'
  OBVIOUS
<1>0. SpokenInv
  BY DEF TypeInv
<1>a. /\ Len(answers) \in Nat /\ Len(answers') \in Nat /\ Len(answers) <= Len(answers')
      /\ \A p \in Prompt : mail'[p] = "unsent" => mail[p] = "unsent"
  BY NextSargent DEF TypeInv, SargentInv, SargentTypeOK
<1>1. ASSUME spoken' = spoken, pending' \subseteq pending, tool' = tool \/ tool' \notin Prompt
      PROVE  SpokenInv'
  BY <1>0, <1>1, <1>a DEF SpokenInv, Unheard
<1>2. CASE UNCHANGED vars \/ PanelTurn \/ Breaks \/ ScopeTurn \/ SargentTurn
  BY <1>1, <1>2 DEF vars, deckVars, shared, answerVars, earVars, PanelTurn, PressListen, ShutPanel,
    Breaks, SocketBreaks, ScopeTurn, SargentTurn
<1>3. CASE MainTurn
  BY <1>1, <1>3 DEF MainTurn, MainStep, MainMishap, Start, StartAgain, Stop, Apply, Take, Connects,
    ConnectFails, Closed, shared, answerVars, earVars
<1>4. CASE EarsTurn
  <2> USE VoiceDeckAssumption, SargentAssumption, CodeScopeAssumption DEF EarsOnly, answerVars, NoTool
  <2>1. CASE \E q \in Question : CallAsk(q)
    BY <1>1, <2>1 DEF CallAsk, Question
  <2>2. ASSUME NEW p \in Prompt, CallRevise(p) PROVE SpokenInv'
    <3>1. mail[p] = "unsent" /\ mail'[p] = "sent" /\ tool' = p /\ pending' = pending /\ spoken' = spoken
      BY <2>2 DEF CallRevise, SendPrompt, TypeInv, SargentInv, SargentTypeOK
    <3> QED BY <1>0, <1>a, <3>1 DEF SpokenInv, Unheard
  <2>3. CASE ToolRemembers
    <3>1. pending' = pending \cup {tool} /\ tool' = NoTool /\ spoken' = spoken /\ mail' = mail
      BY <2>3 DEF ToolRemembers
    <3> QED BY <1>0, <1>a, <3>1 DEF SpokenInv, Unheard
  <2>4. CASE ToolRefuses \/ TellResult \/ CallEndSession \/ NoticeDrop \/ EarsClosed
    BY <1>1, <2>4 DEF ToolRefuses, TellResult, CallEndSession, NoticeDrop, EarsClosed
  <2>5. CASE EarsStop
    BY <1>1, <2>5 DEF EarsStop, Take
  <2> QED BY <1>4, <2>1, <2>2, <2>3, <2>4, <2>5 DEF EarsTurn, Conversation, EarsStep
<1>5. CASE AnswerStep
  <2>1. CASE RelayRewrite
    <3> DEFINE p == Head(batch)
    <3>1. p \in Prompt /\ 1 <= Len(answers)
      BY <1>a, <2>1 DEF RelayRewrite, TypeInv, VoiceTypes
    <3>2. /\ pending' = pending \ {p} /\ tool' = tool /\ mail' = mail /\ answers' = answers
          /\ spoken' = spoken \/ spoken' = [spoken EXCEPT ![p] = @ + 1]
      BY <2>1 DEF RelayRewrite, VoiceOnly, earVars, sargentVars
    <3>3. spoken[p] = 0 /\ tool # p /\ mail[p] # "unsent"
      <4>1. CASE p \in pending
        BY <1>0, <3>1, <4>1 DEF SpokenInv, Unheard
      <4>2. CASE "voice" \in midway
        BY <2>1, <3>1, <4>2 DEF RelayRewrite, TypeInv, MidwayInv, Unheard
      <4> QED BY <2>1, <4>1, <4>2 DEF RelayRewrite
    <3> HIDE DEF p
    <3>4. CASE spoken' = spoken
      BY <1>1, <3>2, <3>4
    <3>5. CASE spoken' = [spoken EXCEPT ![p] = @ + 1]
      <4>1. spoken'[p] = 1 /\ (\A q \in Prompt \ {p} : spoken'[q] = spoken[q])
            /\ spoken' \in [Prompt -> {0, 1}]
        BY <1>0, <3>1, <3>3, <3>5 DEF SpokenInv
      <4> QED BY <1>0, <3>1, <3>2, <3>3, <4>1 DEF SpokenInv, Unheard
    <3> QED BY <3>2, <3>4, <3>5
  <2>2. CASE ~ RelayRewrite
    <3>1. spoken' = spoken /\ pending' \subseteq pending /\ tool' = tool
      BY <1>5, <2>2 DEF AnswerStep, TakeQueue, AskScope, Relay, RelayError, AnswerEnds, AnswerBreaks,
        Apologize, ReadRewrites, SkipRewrite, RewritesDone, VoiceOnly, earVars
    <3> QED BY <1>1, <3>1
  <2> QED BY <2>1, <2>2
<1> QED BY <1>2, <1>3, <1>4, <1>5, Turns

\* While the answer thread stands before the transport that it lost, the rewrite in its
\* hand stays unspoken.
LEMMA NextMidway == TypeInv /\ [Next]_vars => MidwayInv'
<1> SUFFICES ASSUME TypeInv, [Next]_vars, "voice" \in midway' PROVE MidwayInv'
  BY DEF MidwayInv
<1>0. /\ MidwayInv /\ SpokenInv /\ batch \in Seq(Prompt)
      /\ \A p \in Prompt : mail'[p] = "unsent" => mail[p] = "unsent"
  BY NextSargent DEF TypeInv, VoiceTypes
<1>1. CASE midway' \subseteq midway
  <2>0. "voice" \in midway
    BY <1>1
  <2>1. ASSUME UNCHANGED <<voice, batch, spoken>>, pending' \subseteq pending,
               tool' = tool \/ tool' \notin Prompt
        PROVE  MidwayInv'
    BY <1>0, <2>0, <2>1 DEF MidwayInv, Unheard
  <2>2. CASE UNCHANGED vars \/ PanelTurn \/ Breaks \/ ScopeTurn \/ SargentTurn
    BY <2>1, <2>2 DEF vars, deckVars, shared, answerVars, earVars, PanelTurn, PressListen, ShutPanel,
      Breaks, SocketBreaks, ScopeTurn, SargentTurn
  <2>3. CASE MainTurn
    BY <2>1, <2>3 DEF MainTurn, MainStep, MainMishap, Start, StartAgain, Stop, Apply, Take, Connects,
      ConnectFails, Closed, shared, answerVars, earVars
  <2>4. CASE EarsTurn
    <3> USE VoiceDeckAssumption, SargentAssumption, CodeScopeAssumption DEF EarsOnly, answerVars, NoTool
    <3>1. CASE \E q \in Question : CallAsk(q)
      BY <2>1, <3>1 DEF CallAsk, Question
    <3>2. ASSUME NEW p \in Prompt, CallRevise(p) PROVE MidwayInv'
      <4>1. /\ mail[p] = "unsent" /\ tool' = p /\ pending' = pending
            /\ UNCHANGED <<voice, batch, spoken>>
        BY <3>2 DEF CallRevise, SendPrompt
      <4> QED BY <1>0, <2>0, <4>1 DEF MidwayInv, Unheard
    <3>3. CASE ToolRemembers
      <4>1. /\ pending' = pending \cup {tool} /\ tool' = NoTool /\ UNCHANGED <<voice, batch, spoken>>
        BY <3>3 DEF ToolRemembers
      <4> QED BY <1>0, <2>0, <4>1 DEF MidwayInv, Unheard
    <3>4. CASE ToolRefuses \/ TellResult \/ CallEndSession \/ NoticeDrop \/ EarsClosed
      BY <2>1, <3>4 DEF ToolRefuses, TellResult, CallEndSession, NoticeDrop, EarsClosed
    <3>5. CASE EarsStop
      BY <2>1, <3>5 DEF EarsStop, Take
    <3> QED BY <2>4, <3>1, <3>2, <3>3, <3>4, <3>5 DEF EarsTurn, Conversation, EarsStep
  <2>5. CASE AnswerStep
    <3>1. \E q \in Question : AskScope(q)
      BY <2>5 DEF AnswerStep, TakeQueue, Relay, RelayError, AnswerEnds, AnswerBreaks, Apologize,
        ReadRewrites, RelayRewrite, SkipRewrite, RewritesDone, VoiceOnly
    <3> QED BY <1>0, <2>0, <3>1 DEF AskScope, MidwayInv
  <2> QED BY <2>2, <2>3, <2>4, <2>5, Turns
<1>2. ASSUME NEW t \in Using, midway' = midway \cup {t}, pending' = {},
             UNCHANGED <<answerVars, sargentVars, tool>>
      PROVE  MidwayInv'
  <2>1. UNCHANGED <<voice, batch, spoken, mail>>
    BY <1>2 DEF answerVars, sargentVars
  <2>2. CASE "voice" \in midway
    BY <1>0, <1>2, <2>1, <2>2 DEF MidwayInv, Unheard
  <2>3. CASE "voice" \notin midway
    <3>1. t = "voice"
      BY <1>2, <2>3
    <3>2. \/ voice \in {"asking", "sorry"}
          \/ voice = "rewrites" /\ batch # <<>> /\ Head(batch) \in pending
      BY <3>1 DEF Using
    <3>3. batch # <<>> => Head(batch) \in Prompt
      BY <1>0
    <3> QED BY <1>0, <1>2, <2>1, <3>2, <3>3 DEF MidwayInv, SpokenInv, Unheard
  <2> QED BY <2>2, <2>3
<1> QED BY <1>1, <1>2, MidwayMoves

\* Every step keeps the types and what they rest on.
LEMMA NextType == TypeInv /\ [Next]_vars => TypeInv'
BY NextScopeType, NextSargent, NextDeck, NextEars, NextVoice, NextSpoken, NextMidway DEF TypeInv

\* Every reachable state of the voice session, with CodeScope and Sargent, is well
\* typed: a transport that opens has the main thread waiting for it, and the tool and
\* the answer thread have in hand what they are at.
THEOREM TypeCorrect == Spec => []TypeOK
BY InitType, NextType, TypeImplies, PTL DEF Spec

\* No rewrite is spoken twice, however often Sargent answers the prompt again and
\* however often the session is stopped and started in between.
THEOREM RewriteSpokenOnceEver == Spec => []RewriteSpokenOnce
<1>1. TypeInv => RewriteSpokenOnce
  BY DEF TypeInv, SpokenInv, RewriteSpokenOnce
<1> QED BY <1>1, InitType, NextType, PTL DEF Spec

-----------------------------------------------------------------------------
(***************************************************************************)
(* What CodeScope promises, promised to the voice session.                 *)
(***************************************************************************)

\* Reading what was sent and hanging up leave the session and its copies alone.
LEMMA ReadsSettled ==
  /\ BusyInv /\ Reads => BusyInv'
  /\ AgentInv /\ Reads => AgentInv'
BY DEF Reads, BusyInv, AgentInv, AgentNamed, UnderWay, askVars, otherVars, scopeHistory

\* CodeScope's session settles as well when its client is the voice session, which
\* reads an answer at its own pace, hangs up in the middle of one when its transport
\* is gone, and is stopped and started at any time.
THEOREM SessionSettlesHere == Spec => []SessionSettles
<1>1. ScopeTypeInv /\ BusyInv /\ AgentInv => SessionSettles
  BY DEF ScopeTypeInv, ScopeTypeOK, BusyInv, AgentInv, AgentNamed, SessionSettles, Working, InLock,
     Yielded, Told, UnderWay, Opening
<1>2. Init => BusyInv /\ AgentInv
  BY InitSettled DEF Init, ScopeAlone
<1>3. TypeInv /\ BusyInv /\ AgentInv /\ [Next]_vars => BusyInv' /\ AgentInv'
  BY SeenByScope, ReadsSettled, NextBusy, NextAgent DEF TypeInv
<1>4. TypeInv => ScopeTypeInv
  BY DEF TypeInv
<1> QED BY <1>1, <1>2, <1>3, <1>4, InitType, NextType, PTL DEF Spec

-----------------------------------------------------------------------------
(***************************************************************************)
(* The panel that is shut.                                                 *)
(***************************************************************************)

\* The stop of a shut panel is the last request that the session will read; once it
\* is read there is no transport.
StopIsLast ==
  panel = "shut" =>
    IF control = <<>> THEN transport = "none" ELSE control[Len(control)] = "stop"

\* Nothing is asked of the session after the stop.
LEMMA NextStop == TypeInv /\ StopIsLast /\ [Next]_vars => StopIsLast'
<1> SUFFICES ASSUME TypeInv, StopIsLast, [Next]_vars, panel' = "shut"
             PROVE  IF control' = <<>> THEN transport' = "none" ELSE control'[Len(control')] = "stop"
  BY DEF StopIsLast
<1>0. control \in Seq({"start", "stop"}) /\ (transport = "opening" => main = "connecting")
  BY DEF TypeInv, DeckTypes
<1>1. ASSUME UNCHANGED panelVars, transport = "none" => transport' = "none"
      PROVE  IF control' = <<>> THEN transport' = "none" ELSE control'[Len(control')] = "stop"
  BY <1>1 DEF StopIsLast, panelVars
<1>2. CASE UNCHANGED vars \/ Breaks \/ ScopeTurn \/ SargentTurn
  BY <1>1, <1>2 DEF vars, deckVars, shared, Breaks, SocketBreaks, ScopeTurn, SargentTurn
<1>3. CASE PanelTurn
  BY <1>0, <1>3 DEF PanelTurn, PressListen, ShutPanel
<1>4. CASE MainTurn
  <2>1. CASE Connects \/ ConnectFails \/ Closed
    BY <1>1, <2>1 DEF Connects, ConnectFails, Closed, shared
  <2>2. CASE Start \/ StartAgain \/ Stop
    <3>1. panel = "shut" /\ control # <<>> /\ control' = Tail(control) /\ control[Len(control)] = "stop"
      BY <2>2 DEF Start, StartAgain, Stop, Apply, StopIsLast
    <3>2. CASE Tail(control) = <<>>
      <4>1. Head(control) = "stop"
        <5>1. Len(control) = 1
          <6>1. Len(Tail(control)) = Len(control) - 1 /\ Len(control) \in Nat
            BY <1>0, <3>1, HeadTailProperties
          <6>2. Len(Tail(control)) = 0
            BY <1>0, <3>1, <3>2, HeadTailProperties, EmptySeq
          <6> QED BY <6>1, <6>2
        <5> QED BY <1>0, <3>1, <5>1
      <4> QED BY <2>2, <3>1, <3>2, <4>1 DEF Start, StartAgain, Stop, Apply, Take
    <3>3. CASE Tail(control) # <<>>
      <4>1. Tail(control)[Len(Tail(control))] = control[Len(control)]
        BY <1>0, <3>1, <3>3
      <4> QED BY <3>1, <3>3, <4>1
    <3> QED BY <3>2, <3>3
  <2> QED BY <1>4, <2>1, <2>2 DEF MainTurn, MainStep, MainMishap
<1>5. CASE EarsTurn
  BY <1>1, <1>5 DEF EarsTurn, Conversation, CallAsk, CallRevise, CallEndSession, EarsStep, ToolRemembers,
    ToolRefuses, TellResult, NoticeDrop, EarsStop, EarsClosed, EarsOnly, Take
<1>6. CASE AnswerStep
  BY <1>1, <1>6 DEF AnswerStep, TakeQueue, AskScope, Relay, RelayError, AnswerEnds, AnswerBreaks,
    Apologize, ReadRewrites, RelayRewrite, SkipRewrite, RewritesDone, VoiceOnly
<1> QED BY <1>2, <1>3, <1>4, <1>5, <1>6, Turns

\* Once the stop of a shut panel has been read there is no transport, and there is
\* none ever after: no press that was made before and no thread that is late opens
\* one.  (That the stop is read is PanelClosedLetsGo.)
THEOREM ShutStaysSilent == Spec => [](panel = "shut" /\ control = <<>> => transport = "none")
<1>1. Init => StopIsLast
  BY DEF Init, StopIsLast
<1>2. StopIsLast => (panel = "shut" /\ control = <<>> => transport = "none")
  BY DEF StopIsLast
<1> QED BY <1>1, <1>2, InitType, NextType, NextStop, PTL DEF Spec

-----------------------------------------------------------------------------
(***************************************************************************)
(* The questions that are pending.                                         *)
(***************************************************************************)

\* A question whose answer is complete, or has failed, in the service.
Concluded == {"missing", "final", "unstarted", "failed", "ended"}

\* The last entry of an answer is the one after which nothing is pending.
Closing(q) == wire[q] # <<>> /\ wire[q][Len(wire[q])] \in {"final", "error"}

\* A question that is pending is one that the answer thread will come to, or is at.
PendingIsServed ==
  \A q \in Question : q \in pending => q \in queued \cup serving \/ asking = q \/ voice = "dead"

\* It holds because the tool does not queue a question that the thread still has, the
\* thread has none left when it is idle, and the entry that ends an answer is still to
\* be read as long as its question is pending.
ServedInv ==
  /\ PendingIsServed
  /\ tool \in Question => tool \notin queued \cup serving \cup {asking}
  /\ voice \in {"idle", "rewrites"} => serving = {}
  /\ \A q \in Question : asking = q /\ q \in pending /\ at[q] \in Concluded => Closing(q)

\* Whatever is appended to an answer is its last entry.
LEMMA AppendCloses ==
  ASSUME NEW q \in Question, ScopeTypeInv, NEW what \in {"final", "error"}, Send(q, what)
  PROVE  Closing(q)'
<1>1. wire[q] \in Seq(Reply) /\ wire'[q] = Append(wire[q], what) /\ what \in Reply
  BY CodeScopeAssumption DEF Send, Question, ScopeTypeInv, ScopeTypeOK, Reply
<1>2. wire'[q] # <<>> /\ Len(wire'[q]) = Len(wire[q]) + 1 /\ Len(wire[q]) \in Nat
  BY <1>1
<1> QED BY <1>1, <1>2 DEF Closing

\* The service concludes an answer with an entry that closes it, and adds none after.
LEMMA ConcludesClosing ==
  ASSUME ScopeTypeInv, ScopeStep \/ ScopeRequest, NEW q \in Question, at'[q] \in Concluded
  PROVE  Closing(q)' \/ (at[q] \in Concluded /\ wire'[q] = wire[q])
<1> USE CodeScopeAssumption DEF Concluded, Question
<1>0. at \in [Ask -> AskPhase] /\ wire \in [Ask -> Seq(Reply)] /\ q \in Ask
  BY DEF ScopeTypeInv, ScopeTypeOK
<1>1. ASSUME NEW a \in Ask, MissesClone(a)
      PROVE  Closing(q)' \/ (at[q] \in Concluded /\ wire'[q] = wire[q])
  <2>1. CASE a = q
    BY <1>1, <2>1, AppendCloses DEF MissesClone
  <2>2. CASE a # q
    BY <1>0, <1>1, <2>2 DEF MissesClone, Send
  <2> QED BY <2>1, <2>2
<1>2. ASSUME NEW a \in Ask, Concludes(a)
      PROVE  Closing(q)' \/ (at[q] \in Concluded /\ wire'[q] = wire[q])
  <2>1. CASE a = q
    BY <1>2, <2>1, AppendCloses DEF Concludes
  <2>2. CASE a # q
    BY <1>0, <1>2, <2>2 DEF Concludes, Send
  <2> QED BY <2>1, <2>2
<1>3. ASSUME NEW a \in Ask, AgentFails(a)
      PROVE  Closing(q)' \/ (at[q] \in Concluded /\ wire'[q] = wire[q])
  <2>1. CASE a = q
    BY <1>3, <2>1, AppendCloses DEF AgentFails
  <2>2. CASE a # q
    BY <1>0, <1>3, <2>2 DEF AgentFails, Send
  <2> QED BY <2>1, <2>2
<1>4. ASSUME NEW a \in Ask, TakeLock(a) \/ Thinks(a) \/ Speaks(a) \/ Resumes(a)
      PROVE  at[q] \in Concluded /\ wire'[q] = wire[q]
  BY <1>0, <1>4 DEF TakeLock, Thinks, Speaks, Resumes, Send
<1>5. ASSUME NEW a \in Ask, EndsReady(a) \/ EndsError(a) \/ Closes(a)
      PROVE  at[q] \in Concluded /\ wire'[q] = wire[q]
  BY <1>0, <1>5 DEF EndsReady, EndsError, Closes, Leaves, GiveLock
<1>6. CASE ServiceRestarts
  BY <1>0, <1>6 DEF ServiceRestarts, askVars
<1>7. CASE ServiceCrashes
  BY <1>0, <1>7 DEF ServiceCrashes
<1>8. ASSUME NEW r \in Request,
             \/ OpenPuts(r) \/ CloneBegins(r) \/ OpenReady(r) \/ OpenFails(r) \/ SyncPuts(r)
             \/ OpenFinds(r) \/ SyncGets(r)
      PROVE  at[q] \in Concluded /\ wire'[q] = wire[q]
  BY <1>0, <1>8 DEF OpenPuts, CloneBegins, OpenReady, OpenFails, OpenEnds, SyncPuts, OpenFinds, SyncGets,
    askVars
<1> QED BY <1>1, <1>2, <1>3, <1>4, <1>5, <1>6, <1>7, <1>8 DEF ScopeStep, ScopeRequest

\* An entry that is read and does not close the answer leaves the one that does.
LEMMA ReadsClosing ==
  ASSUME ScopeTypeInv, NEW q \in Question, asking = q, Reads, Closing(q),
         Head(wire[q]) \notin {"final", "error"}
  PROVE  Closing(q)'
<1> DEFINE w == wire[q]
<1>1. w \in Seq(Reply) /\ w # <<>> /\ wire'[q] = Tail(w)
  BY CodeScopeAssumption DEF Reads, Question, ScopeTypeInv, ScopeTypeOK
<1>2. w[Len(w)] \in {"final", "error"} /\ Head(w) \notin {"final", "error"}
  BY DEF Closing
<1> HIDE DEF w
<1>3. Len(w) \in Nat \ {0} /\ Head(w) = w[1]
  BY <1>1
<1>4. Len(w) # 1
  BY <1>2, <1>3
<1>5. Len(Tail(w)) = Len(w) - 1 /\ Tail(w) \in Seq(Reply)
  BY <1>1, HeadTailProperties
<1>6. Tail(w) # <<>>
  <2>1. Len(Tail(w)) # 0
    BY <1>3, <1>4, <1>5
  <2> QED BY <2>1, EmptySeq
<1>7. Tail(w)[Len(w) - 1] = w[Len(w)]
  <2>1. Len(w) - 1 \in 1..Len(Tail(w)) /\ (Len(w) - 1) + 1 = Len(w)
    BY <1>3, <1>4, <1>5
  <2>2. \A i \in 1..Len(Tail(w)) : Tail(w)[i] = w[i + 1]
    BY <1>1
  <2> QED BY <2>1, <2>2
<1> QED BY <1>1, <1>2, <1>5, <1>6, <1>7 DEF Closing

\* At first no question is pending.
LEMMA InitServed == Init => ServedInv
BY SargentAssumption, VoiceDeckAssumption, CodeScopeAssumption
   DEF Init, ServedInv, PendingIsServed, Question, NoTool

\* Every step of the answer thread keeps what is pending in somebody's hands.
LEMMA AnswersServed == TypeInv /\ ServedInv /\ AnswerStep => ServedInv'
<1> SUFFICES ASSUME TypeInv, ServedInv, AnswerStep PROVE ServedInv'
  OBVIOUS
<1>0. VoiceTypes /\ ScopeTypeInv /\ queued \subseteq Question
  BY DEF TypeInv, EarsTypes
<1>1. tool' = tool
  BY DEF AnswerStep, TakeQueue, AskScope, Relay, RelayError, AnswerEnds, AnswerBreaks, Apologize,
    ReadRewrites, RelayRewrite, SkipRewrite, RewritesDone, VoiceOnly, earVars
<1>2. CASE TakeQueue
  BY <1>0, <1>1, <1>2 DEF TakeQueue, ServedInv, PendingIsServed, Closing, scopeVars, askVars, VoiceTypes
<1>3. ASSUME NEW q \in Question, AskScope(q) PROVE ServedInv'
  <2>1. at'[q] \notin Concluded /\ asking = NoAsk
    BY <1>0, <1>3, CodeScopeAssumption DEF AskScope, AskArrives, Concluded, ScopeTypeInv, ScopeTypeOK,
      Question, VoiceTypes
  <2>2. /\ asking' = q /\ serving' = serving \ {q} /\ voice' = "asking"
        /\ pending' = pending /\ queued' = queued /\ q \in serving /\ voice = "scope"
    BY <1>3 DEF AskScope
  <2>3. \A r \in Question : r # NoAsk
    BY CodeScopeAssumption DEF Question
  <2>4. PendingIsServed'
    BY <2>1, <2>2, <2>3 DEF ServedInv, PendingIsServed
  <2>5. tool \in Question => tool \notin queued' \cup serving' \cup {asking'}
    BY <2>2 DEF ServedInv
  <2> QED BY <1>1, <2>1, <2>2, <2>4, <2>5 DEF ServedInv
<1>4. CASE Relay \/ RelayError
  <2>1. Reads /\ asking \in Question /\ asking' = asking /\ voice = "asking" /\ voice' \in {"asking", "sorry"}
        /\ queued' = queued /\ serving' = serving /\ pending' \subseteq pending /\ at' = at
        /\ (Head(wire[asking]) \in {"final", "error"} => asking \notin pending')
    BY <1>0, <1>4, AskingIsAsk DEF Relay, RelayError, Reads, askVars
  <2>2. \A q \in Question : asking' = q /\ q \in pending' /\ at'[q] \in Concluded => Closing(q)'
    BY <1>0, <2>1, ReadsClosing DEF ServedInv
  <2> QED BY <1>1, <2>1, <2>2 DEF ServedInv, PendingIsServed
<1>5. CASE AnswerEnds
  <2>1. asking \in Question /\ asking \notin pending
    BY <1>0, <1>5, AskingIsAsk DEF AnswerEnds, ServedInv, Concluded, Closing
  <2> QED BY <1>0, <1>1, <1>5, <2>1, CodeScopeAssumption
        DEF AnswerEnds, ServedInv, PendingIsServed, Question
<1>6. CASE AnswerBreaks
  BY <1>0, <1>1, <1>6 DEF AnswerBreaks, ServedInv, PendingIsServed, Closing, scopeVars, askVars
<1>7. CASE Apologize
  BY <1>0, <1>1, <1>7, CodeScopeAssumption
     DEF Apologize, Dies, ServedInv, PendingIsServed, Question
<1>8. CASE ReadRewrites \/ SkipRewrite \/ RewritesDone
  BY <1>0, <1>1, <1>8 DEF ReadRewrites, SkipRewrite, RewritesDone, ServedInv, PendingIsServed, Closing,
    scopeVars, askVars
<1>9. CASE RelayRewrite
  BY <1>0, <1>1, <1>9, CodeScopeAssumption DEF RelayRewrite, Dies, ServedInv, PendingIsServed, Closing,
    scopeVars, askVars, Question, VoiceTypes
<1> QED BY <1>2, <1>3, <1>4, <1>5, <1>6, <1>7, <1>8, <1>9 DEF AnswerStep

\* So does every other step.
LEMMA NextServed == TypeInv /\ ServedInv /\ [Next]_vars => ServedInv'
<1> SUFFICES ASSUME TypeInv, ServedInv, [Next]_vars PROVE ServedInv'
  OBVIOUS
<1>0. EarsTypes /\ VoiceTypes /\ ScopeTypeInv
  BY DEF TypeInv
<1>1. ASSUME UNCHANGED <<queued, tool, answerVars, scopeVars>>, pending' \subseteq pending
      PROVE  ServedInv'
  BY <1>1 DEF ServedInv, PendingIsServed, Closing, answerVars, scopeVars, askVars
<1>2. CASE UNCHANGED vars \/ PanelTurn \/ Breaks \/ SargentTurn
  BY <1>1, <1>2 DEF vars, deckVars, shared, earVars, PanelTurn, PressListen, ShutPanel, Breaks,
    SocketBreaks, SargentTurn
<1>3. CASE MainTurn
  BY <1>1, <1>3 DEF MainTurn, MainStep, MainMishap, Start, StartAgain, Stop, Apply, Take, Connects,
    ConnectFails, Closed, shared, earVars
<1>4. CASE ScopeTurn
  <2>1. UNCHANGED <<pending, queued, tool, answerVars>>
    BY <1>4 DEF ScopeTurn, deckVars, shared, earVars
  <2>2. \A q \in Question : asking' = q /\ q \in pending' /\ at'[q] \in Concluded => Closing(q)'
    BY <1>0, <1>4, <2>1, ConcludesClosing DEF ScopeTurn, ServedInv, Closing, answerVars
  <2> QED BY <2>1, <2>2 DEF ServedInv, PendingIsServed, answerVars
<1>5. CASE EarsTurn
  <2> USE VoiceDeckAssumption, SargentAssumption, CodeScopeAssumption DEF NoTool, Question
  <2>1. ASSUME NEW q \in Question, CallAsk(q) PROVE ServedInv'
    BY <2>1 DEF CallAsk, EarsOnly, ServedInv, PendingIsServed, Closing, answerVars, scopeVars, askVars
  <2>2. ASSUME NEW p \in Prompt, CallRevise(p) PROVE ServedInv'
    BY <2>2 DEF CallRevise, EarsOnly, ServedInv, PendingIsServed, Closing, answerVars, scopeVars, askVars
  <2>3. CASE ToolRemembers
    BY <2>3 DEF ToolRemembers, EarsOnly, ServedInv, PendingIsServed, Closing, answerVars, scopeVars, askVars
  <2>4. CASE ToolRefuses
    BY <2>4 DEF ToolRefuses, EarsOnly, ServedInv, PendingIsServed, Closing, answerVars, scopeVars, askVars
  <2>5. CASE TellResult \/ CallEndSession \/ NoticeDrop \/ EarsClosed
    BY <1>1, <2>5 DEF TellResult, CallEndSession, NoticeDrop, EarsClosed, EarsOnly
  <2>6. CASE EarsStop
    BY <1>1, <2>6 DEF EarsStop, Take
  <2> QED BY <1>5, <2>1, <2>2, <2>3, <2>4, <2>5, <2>6 DEF EarsTurn, Conversation, EarsStep
<1> QED BY <1>2, <1>3, <1>4, <1>5, AnswersServed, Turns

\* A question that is pending, and so keeps the user from hanging up, is queued, served
\* or being asked, unless the answer thread is dead: however its answer goes, it is not
\* left to nobody.  (That it is then answered is QuestionsEnd.)
THEOREM PendingIsServedEver == Spec => []PendingIsServed
<1>1. ServedInv => PendingIsServed
  BY DEF ServedInv
<1> QED BY <1>1, InitType, NextType, InitServed, NextServed, PTL DEF Spec

=============================================================================
