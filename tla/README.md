# MegaDesk in TLA+

MegaDesk is a canvas of nodes: small processes that talk through one Redis server with two
databases (db0 for streams and signals, db1 for what must survive them). Nobody sees the whole
system while it runs. This directory models the parts of it where processes interleave, die, retry
and report for each other, checks them with TLC on small instances, and proves the most important
invariants with TLAPS for instances of any size.

Everything here is translated from the code under `src/`; the lines of every definition are in
`PROJECT.json` (`map`).

## 1. The system

| Component | Code | State it keeps | Operations | Hard about it |
|---|---|---|---|---|
| Supervisor singleton | `supervisor/redis_provision.py`, `__main__.py`, `stream_server.py`, `supervisor_client.py` | `SUPERVISOR:SINGLETON` (owner, TTL 10 s), `SUPERVISOR:ALIVE` (TTL 5 s) | acquire (SET NX, EXISTS, SET), refresh (GET, SET NX, EXPIRE), release (GET, DEL), two-phase shutdown | none of the three is atomic; the heartbeat thread writes while the main thread cleans up; a second process may steal |
| Node lifecycle | `supervisor/engine.py`, `process_registry.py`, `stream_server.py`, `megadesk_contracts/node_runtime.py` | in-memory registry, `RUNNINGNODES:<uid>`, `NODEHB:<uid>`, `NODE:SHUTDOWN[:<uid>]`, streams `LAUNCHREQUEST`, `KILLREQUEST`, `NODEEXIT` | launch, kill, reap, reconcile, kill_all, beat, stop | listener and reaper share the registry without a lock around their sequences; the Supervisor may die and leave its nodes |
| MachineFactory | `MachineFactoryManager/*`, `AgentHandler/*` | `AGENTHANDLER:<guid>` (registry), `WORKORDER` stream, `FINISHED:<repo>` streams, containers and Redis sidecars | take an order, launch, mark running, reap, cancel; start up, work, tear down | manager and sandbox write one hash and both may report; docker answers "gone" when it fails |
| CloudFactory | `CloudFactoryManager/*`, `cloud_factory_frontend/app.py` | `CLOUDRUN:<agent>` hashes (db1), `CLOUDORDER` and `CLOUDFINISHED` streams, `_pending`, `_attempts`, `_blocked_until` in memory | launch with retries, poll, hand off, reject, cancel | a launch that is repeated costs a second pull request; the operator writes the same stream as the manager |
| Work graph | `AgentHandler/graph/*`, `wire/graph.py` | LangGraph state, `kanban.json` in the clone, `GRAPHRUN:<guid>` hash and `GRAPHEVENT` stream | pathfinder, workhorse, git, orchestrator, dispatcher, ralph, test, report | cycles bounded by a recursion limit; cards identified by an id that the agent chose; a progress write may fail alone |
| Human gates | `HumanGates/WorkDispatcher`, `HumanGates/AutoIntegrate`, `PRManager`, `human_gate.py` | lists of issues and pull requests in memory, labels on GitHub | poll, dispatch, relabel, dismiss, pull | poll thread and UI thread exchange lists that are stale when applied |
| CodeScope | `CodeScopeManager/*` | sessions, clones, runners, consumer-group cursors | open, sync, ask (streamed), close | an answer is streamed under a lock; delivery is at least once |
| Sargent | `SargentManager/*` | consumer-group cursor | ask | answer, then acknowledge |
| VoiceDeck | `VoiceDeckManager/session.py` | session, pending scope asks, controls stream | start, stop, relay, speak | three loops over one session |
| Canvas graph and API | `engine/graph_model.py`, `display_engine.py`, `canvas_api.py`, `graph_bar.py`, `main.py` | graph files, `Graphs/CURRENT`, members, command cursor | boot, host, close, load, save as, delete, exit, drain commands | what is saved at the exit is what the next start shows; a load fails half way; replies are lost or late |
| Notepad | `notepad_frontend/*`, `notepad_tools` | notes in a folder, an editor with a copy of one | edit, rename, delete, retarget, append by voice | every operation writes the editor's copy back first |
| Log sessions | `log_session.py` | one JSON file | read, change, write | processes that start one after the other |
| Frontends, wire encodings, scripts | `*_frontend`, `wire/*`, `scripts/*` | none of their own | show, encode, install | |

How they interact. The canvas starts a Supervisor and asks it for nodes over db0 streams; the
Supervisor starts the node processes, among them the two factory managers. A ticket leaves a human
gate (or a voice tool) as a signal on the `WORKORDER` or `CLOUDORDER` channel; the factory copies it
to the stream of that name, runs it, and reports on `FINISHED:<repo>` or `CLOUDFINISHED`. The two
factories share their vocabulary of statuses and the contract that a launch that never happened and
a run that failed are told apart.

What makes each correct:

* **Singleton**: whoever fights for the lock, exactly one Supervisor is left, and an orderly
  shutdown leaves nothing behind.
* **Nodes**: no process escapes the registry, no live node is taken off the running list, an exit is
  published once, a kill and the kill switch work, a corpse disappears.
* **MachineFactory**: an order is reported once and truthfully, only dead runs are reaped, nobody
  waits for ever, a sandbox that is up has its Redis and one that is gone has none.
* **CloudFactory**: one run and one agent for each order, a rejected run stops, every order is
  answered and every run settles.
* **Work graph**: the board is worked off by rank, no card twice, a run ends, and is reported by its
  teardown or, where that is not reached, by the manager.
* **Human gates**: a ticket is dispatched once; a label that could not be changed is seen again.
* **CodeScope, Sargent, VoiceDeck**: each ask comes to an end, also after its asker has gone, and the
  session then holds what the last request has stored; a rewrite is spoken once.
* **Canvas**: the next start shows the board of this one; a command is applied at most once and not
  passed over, and its tool is told the truth.
* **Notepad**: what somebody put into a note stays there until he takes it out.

Sections 4 and 6 say where the code keeps less than that.

## 2. Modules

`X.tla` is the specification of a component, `MCX.tla` gives TLC its model values, the `.cfg` files
are the runs, and `X_proofs.tla` holds the theorems about it. How they hang together:

    SandboxRun                 the contract of one run, abstract
      ^ refined by MachineFactory   (for every order, seen from the manager)
      ^ refined by WorkGraph        (for one run, seen from inside the sandbox)
    Mishaps                    one budget of failures for a composed specification
      <- CodeScope  <-+
      <- Sargent    <-+- VoiceDeck      panel, session, CodeScope and Sargent together
      <- Notepad    <--- Canvas         the canvas and the pad it hosts
    SupervisorSingleton, NodeLifecycle, CloudFactory, HumanGates stand alone

A composed module writes down the joint steps: `CodeScope` leaves the reading of an answer to its
client, `VoiceDeck` supplies the client. An operator with the comment "Changed form for the checks"
is a definition as a plausible mistake would have it; no next-state relation uses one, and each
property is shown to fail when its definition is put in place (`mutants` in `PROJECT.json`).

### SupervisorSingleton

One process of `Proc` is one `python -m supervisor`, named by its owner token. `pc` is where its
main thread is, `hb` where its heartbeat thread is, `stop` is `SupervisorServer._stop`, `joined`
whether it has passed the joins in `stop()`, so that the second round of clear and release of
`_shutdown` is told from the first. A step is one Redis command. `CanvasBoot` and `CanvasEnsure` are
`main.py` with `DEV_FLUSH_MODE` and `ensure_supervisor_running`; `StartByHand` asks nobody.
`LaunchNode` stands for the listener, so that a shutdown has something to leave behind. With the
fault `redis`, an EXISTS that fails counts as "not alive" (`LooksAlive`), so that a live Supervisor is
stolen from, and an error that nobody catches ends a process that is starting, perhaps with the lock
(`StartFails`, `pc = "failed"`).

Left out: times. A key expires when its writer has stopped refreshing it; with the fault `stall`
also when it has not. A second signal during a shutdown is not modelled.

### NodeLifecycle

The Supervisor process of the previous module, seen from inside: `lpc` is where the listener thread
is, `rpc` where the reaper thread is, and each of their Redis commands and each access to the
registry is a step of its own, so that `kill`, `launch`, `reap_exits` and `reconcile_stale`
interleave as they do under the GIL. `hash`, `flag`, `hb` and `exits` are the Redis keys. A node
goes from `starting` through `beating` to `stopping`; `young` is the 20 seconds in which
`is_reported_node_alive` believes a pid. What the reaper swallows is modelled where it is swallowed: a
scan that fails ends the pass, a hash that cannot be read is passed over, and a heartbeat that cannot be
read counts as none (`ScanFails`, `CheckFails`), so that the hash of a living node of an *earlier*
Supervisor goes.

Left out: reuse of a pid by another program, `Popen` and `registry.store` as two steps (nothing
happens between them that another thread sees), `EXISTS` and `XADD` of `reap_exits` as two steps,
the order of the requests in one batch beyond launches before kills.

### MachineFactory

`pc` and `cur` are the manager thread and the order it is working on, `box` is the container of a
run together with the place where its `AgentHandler` is, `sidecar` the Redis beside it. `hash` is the
status field of `AGENTHANDLER:<guid>` and is `"ghost"` when HSET has created a hash that
`parse_agent_handler` refuses. `finished` are the entries of `FINISHED:<repo>`. `missing` is
`_missing_since` with the grace time as one bit.

Assumed: an outage of docker and one pass of the loop are shorter than `ORPHAN_GRACE_SEC` (30 s).
`GraceEnds` therefore needs a container that is not up, and does not happen inside a pass of
`poll_runs`. `cancel` has no caller outside the tests; it is a fault here, so that what the other
operations promise without it can be told. Two managers at once are not modelled.

### CloudFactory

`pending`, `todo` and `kept` are `_pending` before, during and after a pass of `poll_orders`, as
numbers of entries for each order; `attempts` and `blocked` are `_attempts` and `_blocked_until`.
`reg` is the status in the `CLOUDRUN` hash, `handed` whether it has a `pr_url`. `vm` is the agent at
Cursor and `pr` whether it has opened a pull request. `finished` is `CLOUDFINISHED`, and `recent` the
orders with an entry among the 200 that are read.

`hit` is the history of the mishaps that a property has to name: the order that a killed manager held
(`forgotten`), the run it had marked and not reported (`cutOff`), the agent it had not registered
(`unregistered`) or could not cancel (`uncancelled`), the order whose report is no longer read
(`flooded`).

Left out: an agent that was created and would not accept its work; the plain `AgentError` branch of
`handle_order`, which this runtime does not take at a launch; Redis failing for a caller of
`cancel`. `MAX_LAUNCH_ATTEMPTS` is a parameter: 3 in the code, 2 in the run, which has a first
attempt, a retry and a last one all the same.

### SandboxRun

The contract of one run: `open` (in the registry), `up` (its container runs), `reports` (what
`FINISHED` says of it). A run is registered before it exists, told by its sandbox at most once and
first, told by the manager only when the sandbox is not up, and taken off the registry after it was
told, or untold when its order is off the stream. Both refinements are the property `KeepsContract`
of their module; the mappings are one `INSTANCE ... WITH` each.

### WorkGraph

`AgentHandler.run_graph` with the two topologies of `graph/build.py`. `node` and `phase` say which
node runs and where in it the process is, `failed` is `state["failed_node"]`, `visits` what
LangGraph counts against the recursion limit. `board` is the kanban board as the dispatcher's reply
left it: cards with an id and a priority that an agent chose, so they may repeat or tie, and
`worked` records which cards an agent was given. `Before`, `NextTodo` and `MarkDone` are the pure
functions of `kanban.py`. `shown`, `run` and `events` are the three places of `GraphReporter`, and
each of its writes may fail alone (`lost`). The last event of a node is the greatest of its places in
the stream (`EventsOf`, `LastEvent`). `hash` and `reports` are the sandbox's view of the
registry; `ReapReports` and `ReapDeletes` are the manager's reaper for this one run, in the two
commands it consists of.

Left out: what an agent does with the clone, beyond whether its turn succeeded and which card it was
about; git, beyond whether branch and pull request came about.

### HumanGates

One module for three programs of one shape; `kind` says which is looked at. `poll` is what the poll
thread has read and not yet put on `queue` (`_ui_queue`), so a list may be old when
`ApplyList` applies it. `rows`, `shown`, `hidden` and `sequence` are the board in memory, `tags` the
labels or verdicts on GitHub, `relabels` who is between publishing an order and changing the labels:
the UI thread or the voice tools, which have a `draft` of their own. `jobs`, `clones` and `disk` are
the checkouts of `PRManager`. `spell` and `epoch` are history: how often an item left and came back,
how often the gate was connected.

Left out: the order in `_sequence` and the row that a drag leaves behind in it when a list arrives
while the mouse is down; two `gh` calls of one click as two steps.

### CodeScope

One session of the HTTP service. `at` is where the thread of each question is, `lock` is
`_ask_lock`, `copy` the session object it works on: `get` hands out a copy and `put` stores a whole
one. An answer is a generator that is suspended with the lock held; `Closes` is the server closing
it at a yield when the client went away; a service that dies leaves it `"cut"`. `runner` is the cached
`CursorRunner` and `born` counts agents, so that the conversation that answered last can be told
from the one the session names. `req` and `held` are `POST /repos` and
`POST /sessions/{id}/sync` in flight.

### Sargent and VoiceDeck

`Sargent` is one consumer of a group: `TakePrompt`, `AnswerPrompt`, `AckPrompt`, each of which may
fail after the one before. `VoiceDeck` extends `CodeScope` and `Sargent` and adds the panel, the
three threads of `session.py` (`main`, `ears`, `voice`) and what they share without a lock:
`transport`, `pending`, `queued`, `cursor`. A transport is `opening` before its socket is there,
`dropped` when the socket broke and `ended` when the far side closed it, which no loop notices.
`stray` is a socket and microphone that no field refers to any more. `midway` are the threads that had
found a transport and lose it before they use it: `_speak`, `_route_tool` and `pump_events` each check
`self.transport` and read it again. Such a stop counts as a failure, so that the budget covers it. The
answer thread dies for good when the socket fails under it (`session.py:505`) or is taken from under it,
which is `voice = "dead"`.

### Canvas and Notepad

`Notepad` is the pad: `files` the notes in each folder, `pad` its notes, its current note and what
the editor shows (`body`). A text is the set of pieces that were put into it, so that a lost piece is
seen. `Canvas` extends it with the graph files (`disk`), the remembered graph (`pointer`), the
members, the close buttons that were pressed and the command stream with its replies (`told` is what
the voice tool heard). `Frame` is a disjunction of what a turn of `main()`'s loop does, one step at a
time and in any order, which contains the order of the loop; a callback of the user interface is a step,
too. Writing a graph or a note in place leaves a broken file when the process dies in the middle.

Loading a graph is `load_from`, `remember_last_graph` and `host_all_members`, which fail apart: a record
that passes the check of the file and cannot be made a member (`Malformed`), a pointer that cannot be
written (`CannotRemember`), a member that cannot be given its node (`Unhostable`). `Switch` and `Halts`
are what is left then, and `failed` remembers which part the last load or save-as did not get done. At
the start the same errors end `main()` (`BootFails`).

A title is not always the name of a file (`Stem`): `odd` becomes `note`. `misnamed` are the notes that a
command added to under such a title.

Left out: positions and parameters of members; which backends are launched (module NodeLifecycle).

## 3. Runs

| Run | Instance | States | What it shows |
|---|---|---|---|
| `singleton_cleanup` | 3 processes; crash, signal, flush | 915,706 | `NothingLeftBehind`: after an orderly shutdown no process that is gone owns the lock or a node, and when all are gone there is no key |
| `singleton_settles` | 3 processes; flush, Redis errors | 224,015 | `SurvivorHoldsLock`, `SettlesToOne`, `BootedIsServed`: however the lock is stolen, also from a Supervisor that is alive, one remains and goes on serving, unless a Redis error ended one that was starting with the lock |
| `node_registry` | 2 nodes; Redis errors | 1,501,580 | `NoOrphans`, `ExitPublishedOnce`, `NeverUnlisted`: no process escapes the registry, no exit is published twice, no live node is taken off the list |
| `node_ends` | 1 node; crash, signal, stall; 1 restart | 17,328 | `CorpseIsDropped`, `KillTakesEffect`, `SwitchedOffStops` |
| `machine_reports` | 2 orders, any 2 mishaps of 7 kinds | 580,833 | `ReportedOnce`; `KeepsContract`: every order's run implements `SandboxRun` |
| `machine_settles` | 2 orders, 1 mishap, not docker | 83,706 | `SandboxHasRedis`, `EveryRunReported`, `SidecarsReleased` |
| `cloud_runs` | 1 order published twice, 3 agents, any 2 mishaps of 4 kinds | 186,246 | `OneRunPerOrder`, `OrderAnswered`, `RejectedRunStops`, `EveryRunSettles` |
| `work_graph` | both graphs, boards of up to 3 cards with ids 0..1 and priorities 0..2, 7 visits, any 2 mishaps of 4 kinds | 426,990 | `OneNodeLit`, `TimelineAgrees`: what the monitor shows; `BoardIsWorkedOff`: finished work went through the board by rank, no id twice, and left out only cards that repeat the id of one that was worked on; `EveryRunTold`; `KeepsContract`: the run implements `SandboxRun` from inside |
| `human_gates` | each of 3 gates, 2 repositories, number 1 in both, 3 interferences of 8 kinds, 2 orders, 1 list under way | 583,288 | `TakenWasSent`, `OneAgentPerConflict`, `BoardSettles` |
| `code_scope` | 2 questions, 2 other requests, 1 crash, answers of up to 2 sentences, 2 agents | 236,000 | `SessionSettles`, `EveryAskEnds`: the lock is given back, and a session at rest says what happened last, but for what a closed question had not stored |
| `voice_deck` | 1 question, 1 prompt, 1 other request, 2 presses, 1 tool call, 1 mishap of 5 kinds | 319,655 | `RewriteSpokenOnce`, `QuestionsEnd`, `PanelClosedLetsGo` |
| `canvas` | 2 graphs, 5 members (the pad, a node, one without front-end, one that cannot be built, one that cannot be hosted), 2 calls or 1 text, 3 titles of which one is not a file name, 2 folders, 2 callbacks, 1 failure of 4 kinds (crash, Redis, a pointer that cannot be written, a front-end that cannot be built), 3 disks to start with | 616,014 | `NextBootRestores`, `ToldTheTruth`, `TextsAreKept`, `CommandsAreKept` |

The type invariants of `MachineFactory`, `CodeScope`, `VoiceDeck` and `Canvas` are checked in these
runs and proved as well. Those of the other components were checked in the same way until they were
proved (section 5), and the runs do not repeat them. What a theorem says beyond the runs' properties was
checked with these configurations, too, before it was proved. The factory runs check for
deadlock; the others do not, because a run in its sandbox ends, and so does a finite supply of
processes, presses or requests.

**Bounds.** They bound how often the environment acts, never what the program may do.

* Three processes are what the lock needs: a holder, a thief, and a third that sees the result of
  both. Two nodes let the listener work on one while the reaper works on the other; nodes do not
  interact otherwise. That run has no shutdown: `node_ends` has, and `NoOrphansEver` and
  `NeverUnlistedEver` below hold with signals too.
* Two orders let one be launched while another is reaped; runs share nothing but the thread. In the
  CloudFactory the orders share the thread and the window of 200 reports, which is the fault
  `flood`, so one order that is published twice is enough for one order's launches, and the theorem
  below covers the rest.
* Three cards over two ids and three priorities contain a repeated id, a tie and an inversion; with
  seven visits the limit is hit by a board of three and not by a board of one. The theorems have no
  bound on either.
* Two repositories that both have a number 1 are what the gates can confuse; one list that waits is
  an old list, and a poll that is under way is a second. Three interferences are a click's window with
  something before, in and after it.
* Two questions contend for the lock; the composed run needs one, as the lock is then CodeScope's
  business. Two presses are a start and a stop, and the panel's own close comes on top.
* Two graphs are a switch and a delete; a member without front-end is what a save could lose. Calls and
  texts are tried apart (`Session`): two calls, so that one has a command before it, or a text to add
  by voice or by hand. The theorems have them together, and any number of each.

A budget of mishaps bounds how often something fails, not where: every failure, or pair of them, is
tried at every place. Liveness is checked after the last one, without an assumption that failures
stop by themselves.

**Fairness.** Weak fairness of a thread says that the operating system schedules it; each thread's
actions are one disjunction because the code decides which one is next. `RunsDue` has strong
fairness: the loop comes back to it in every pass, and the 10 seconds between two polls do pass.
`GraceEnds` has strong fairness for the same reason. In the singleton the last Redis error is
assumed to come at some time (`RedisRecovers`), since a heartbeat that always fails keeps no lock.
In `WorkGraph` agents' turns end and the manager polls. That a turn ends is an assumption about Cursor:
neither the runner (`runner.py:245`) nor the client (`client.py:142,183`) of CodeScope has a timeout, and
its fairness assumes the same. In `HumanGates` the poll thread and the UI
thread go on (`PollNext`, `UiNext`), and `gh` ends or times out. In `CodeScope` every request has its
thread. In `VoiceDeck` the answer thread turns for ever and has a fairness of its own; what else
reacts does so a bounded number of times. In `Canvas` the loop turns (`Frame`). Clients, operators,
presses, signals and crashes are never fair. Expiry of a heartbeat key is fair once the node is no
longer running.

## 4. Where the code and its documents part

Each of these statements is an invariant or property of its module that the code does not keep. The
`.cfg` of that name has TLC print the shortest way there (`tlc -config machine_ghost.cfg
MCMachineFactory`); they are kept beside the runs for whoever changes that code.

* `singleton_listed` (`ServedNodesAreListed`): a Supervisor that lost the lock runs `kill_all`, which
  deletes **every** `RUNNINGNODES` hash, those of the Supervisor that replaced it included. Its nodes
  run on, unlisted (`engine.py:168`).
* `node_orphan_kill` (`KillRequestStopsProcess`): a `KILLREQUEST` for a node that outlived its
  Supervisor deletes the hash and leaves the process alone, so that it can no longer be found
  (`supervisor.md:153`).
* `node_silent_exit` (`NaturalDeathIsPublished`): a node that ends before its hash is written is
  dropped without a `NODEEXIT` (`supervisor.md:188`).
* `machine_ghost` (`HashNamesOrder`): a sandbox that finishes before the manager marks it running
  leaves a hash without a `ticket_id`, which every poll skips and nothing deletes
  (`machine-factory-pipeline.md:112`).
* `cloud_relaunch` (`OneLaunchPerOrder`): when Redis fails between the minting of an agent and its
  registration, the order is launched again, next to an agent that nothing knows of
  (`test_cloudfactory_flow.py:149`).
* `gate_voice` (`TakenWasSignalled`): "A `PUBLISH` is the only execution signal"
  (`machine-factory-pipeline.md:56`), but `handle_send_ticket` of the voice tools only adds the order
  to the stream and then marks the ticket as taken.
* `voice_hot_mic` (`NoHotMicrophone`): the comment at `voice_deck_frontend/app.py:160` says that no
  microphone stays open without a window. A transport that is stopped while it is still
  connecting has no socket to close yet; the socket opens all the same, with its microphone, and no
  field refers to it any more.
* `notepad_wipe` (`EveryTextIsKept`): text appended by voice to a title that is not a file name goes to
  the note with the safe name, while the pad makes the other title current, so that the next look at the
  editor writes an empty text back (`pad.py:140-153`).
* `graph_torn` (`LoadsWholeOrNot`): "leaves the open graph untouched" (`graph_model.py:181-183`,
  `node_protocol.md:245`; `display_engine.py:251-252`). The file is checked before the board is torn
  down, but a member that cannot be built raises after it, and the bar only shows the error
  (`graph_model.py:187-189`, `graph_bar.py:126`). The board is then empty or half full, under the new
  path, and the next save overwrites the new file with what was built. At the start the same error
  ends `main()`, although its comment says "Start empty rather than not at all" (`main.py:287`).
* `card_skipped` (`EveryCardIsWorked`): Ralph "loops until the board is empty" (`work-graph.md:111-112`;
  `prompts.py:242`). `mark_done` ticks off every card with the id of the one that was worked on
  (`kanban.py:99-115`), so that a card whose id the dispatcher has repeated is given to nobody.
* `row_stays` (`RowIsDeleted`): the hashes of the monitor "are always deleted" (`work-graph.md:40,116-118`),
  but a run that hits the recursion limit, or is killed, never reaches its teardown, and its `GRAPHRUN`
  row stays.

Windows that no document speaks about are excused in the property that meets them, by name and for the
run, order or session concerned alone:

* `SurvivorHoldsLock`, `BootedIsServed`: a Supervisor that died of a Redis error while it was starting
  with the lock (`pc = "failed"`). Whoever it took the lock from stops as well.
* `OrderAnswered`: the order that the manager held when it was killed. `EveryRunSettles`: the run whose
  hash was final and which was not reported when the manager was lost (`cutOff`; `manager.py:328`).
  `RejectedRunStops`: the agent that was lost before its registration, or whose cancel Cursor refused
  there (`manager.py:189-201`), and the order whose rejection is no longer among the 200.
* `ReportedOnce`: the order whose reporter was cut off between its two commands, or whose cancel missed
  its container.
* `OneAgentPerConflict` is about one spell and one connection of the gate; a retarget away and back
  begins another, in which a conflict may get a second agent.
* `SessionSettles`: what a question that was closed, or a request that was cut, had not stored, until
  something is stored again: its status, or the agent of an answer whose last sentence was just sent
  (`service.py:251-260`). The agent also after requests that overlapped.
* `QuestionsEnd`: an answer thread that a broken socket, or a stop between a check and its use, has
  ended. `PanelClosedLetsGo`: the socket of `voice_hot_mic`.
* `NextBootRestores`: a graph that was broken at the start or deleted since, and, after a load or save-as
  that failed half way, the part that it did not get done.
* `CommandsAreKept`: a canvas that is deaf because its first read of the stream's end failed and the
  cursor became `"$"`.
* `TextsAreKept`: a file that the process died over, and the notes of `notepad_wipe`.

Two statements are not checked by any property. `ExitPublishedOnce` does not tell a natural exit from
another, as `supervisor.md:210` does. And `NeverUnlisted` is about the nodes of this Supervisor's
registry: of a node that outlived an earlier one, a heartbeat that cannot be read is taken for none, and
its hash is dropped though it lives (`node_runtime.py:126`, `CheckFails`).

## 5. Proofs

All theorems are for any sets of processes, nodes, orders, agents and repositories, boards of any size,
and any bounds. They assume no more than the named `ASSUME`s of the modules, which TLC evaluates, and
what each theorem says itself. The one that is there for the provers, `VoiceDeckAssumption`, keeps what
is asked of CodeScope and what is sent to Sargent apart, as their ids are in the code.

Every invariant and every action property of the runs is proved. Liveness cannot be (below), but what
the code must do for it is mostly safety: that whatever is owed is still in somebody's hands, and that
an end, once it is reached, is a true one. These halves are proved on their own: `NeverForgotten`,
`NoRunForgotten`, `OrderNeverForgotten`, `EndsAreTrueEver`, `PendingIsServedEver`, `ShutStaysSilent`,
`KillsAreKept`. What is left to fairness is that the one who has it in his hands goes
on.

* `SupervisorSingleton_proofs`: `TypeCorrect`. `CleanShutdown` proves `NothingLeftBehind` where joins do
  not time out and Redis does not fail. It is not inductive: that a process which is gone does not own
  the lock depends on where the main thread is in its *second* round of release, and on the heartbeat
  thread having ended before it (`CleanupInv`). `Survival` proves `SurvivorHoldsLock` where nobody is
  signalled or crashes. Flushes, stalls and Redis errors are allowed, at the start too, with the exception
  that the property states: a process that died while it started with the lock. The invariant says that
  whoever holds the key, or is about to take it, has not been told to stop (`SurvivorInv`).
* `NodeLifecycle_proofs`: `TypeCorrect`. `NoOrphansEver` proves `NoOrphans` when the Supervisor does not
  crash and no join times out; a node leaves the registry only when it is dead or when the listener is
  about to terminate it. `NeverUnlistedEver` proves the action property `NeverUnlisted` with no
  assumption at all; its invariant (`DropInv`) says what the reaper still knows when it drops a hash:
  the keys were read before the ids of the registry, so a key that is not among the ids belongs to no
  node that has been launched since. `ExitPublishedOnceEver` proves `ExitPublishedOnce`: a node whose
  exit was published is out of the registry and of the snapshot that the reaper still works on, and its
  id never comes back (`Reported`). `RunningListComplete`: a running node of the registry has its hash,
  unless Redis fails. `KillsAreKept` is the safety half of `KillTakesEffect`: if Redis does not fail,
  the kill of a managed node is on the stream, in the batch or being carried out until its process has
  ended (`Doomed`), because the next batch is read only when the last one is done (`Drained`).
* `MachineFactory_proofs`: `TypeCorrect`, `ReportedOnceEver`, `KeepsContractEver`,
  `SandboxHasRedisEver`. They are about one order at a time, with the exception the properties state
  themselves: an order whose cancel missed its container. For every other order the invariant (`RunInv`)
  says what the manager and the sandbox know of each other's writes: an order is launched once and is
  fresh until then (`Launched`); a sandbox that has not reported has its hash (`Reports`); and the
  manager reports a run only while its sandbox is not up and its hash is there, because a run that was
  missing for the time of grace is not up (`Reaped`). Then a hash that is still there when the run was
  reported belongs to a reporter that is about to delete it (`Once`), and every step is one of the
  contract or a stutter. `SandboxHasRedisEver` assumes that docker answers: whoever stops a sidecar then
  knows that its sandbox is gone or was never started. `NeverForgotten` is the safety half of
  `EveryRunReported`, and has no exception for a cancel: a run that was ever in the registry stays there
  until the stream tells of it or its order is trimmed, since whoever deletes the hash has told first
  (`ToldFirst`).
* `CloudFactory_proofs`: `TypeCorrect`, which needs the count of an order's entries in the queues
  (`QueueInv`) and what the manager holds at each place (`RunInv`). `OneRun` proves `OneRunPerOrder`:
  from the moment the registry has been asked until the run is in it (`Alone`) the order has no other
  run, since a run gets its order before it is registered and nothing else registers.
  `OrderNeverForgotten`, the safety half of `OrderAnswered`: an order that the manager holds is, for
  ever, still held, or has a run or a report, unless the manager is killed with it; the invariant
  follows the order through the places where it is in no queue (`HeldInv`). `EndsAreTrueEver`, the half
  of `RejectedRunStops` and `EveryRunSettles`: the hash of a run says that it is over only when its
  machine does no work any more and a report is there or about to come, unless the manager was lost
  between the mark on this very hash and the report (`cutOff`); mishaps anywhere else excuse nothing
  (`EndInv`).
* `WorkGraph_proofs`: `TypeCorrect`; `OneNodeLitEver` proves `OneNodeLit`; `TimelineAgreesEver` proves
  `TimelineAgrees`; `BoardIsWorkedOffEver` proves `BoardIsWorkedOff`; `KeepsContractEver` proves that a
  run implements `SandboxRun`, as initial states that map to initial ones and a step of the contract or
  a stutter for each action. What the monitor shows is not inductive: it needs where the process is in
  the node that is lit, and that every node that was left has been closed in `shown` before the next
  opens, whichever of the reporter's writes were lost. The timeline agrees because, while no write was
  lost, what the reporter holds, the row and the last event of each node are the same at every step
  (`Agreed`), and an event changes the last one of its own node only (`NewEvent`, by the greatest
  element of a set of places, `Greatest`). `NoRunForgotten`, the safety half of `EveryRunTold`: when the
  hash of a run is gone, the stream has its report, unless its order was trimmed (`Accounted`). The
  board needs the ranks of the cards: those which are done are stood for by those that were worked on, each
  by itself or by a more urgent one of its id (`StandsFor`), and the one at hand is the least of the rest,
  with ties and repeated ids as the dispatcher invented them. The lemmas on `NextTodo` and `MarkDone`
  state what `kanban.py` promises about them.
* `HumanGates_proofs`: `TypeCorrect`; `TakenWasSentEver` proves `TakenWasSent`; `OneAgentEver` proves
  `OneAgentPerConflict`. The first needs that whoever is about to relabel an item has its order out
  (`SentFirst`, `TakenInv`), and that orders are only ever appended. The second is about lists that are
  old: its invariant (`ConflictInv`) says that every list which waits for the UI thread is genuine for
  the spell and the epoch it was read in (`AllGenuine`), that they are in the order in which they were
  read (`AllNumbered`), that a pull request which was sent and has not left the list since is either
  marked as dismissed or not on the board (`SentIsHidden`, `SentIsOff`), and that a mark is only dropped
  when the list that lacks it is newer than the click (`LackingIsOut`). A click then acts on a row that
  cannot have been sent in the same spell.
* `VoiceDeck_proofs`, first for CodeScope by itself: `ScopeTypeCorrect` (`ScopeTypeOK`; the lock belongs
  to the one question that is between taking and giving it back) and `SessionSettlesEver`
  (`SessionSettles`). What requests have in their hands is in `Copies`; a session that is busy has
  somebody who will store it again, unless the request that would have was closed or cut and nothing was
  stored since (`BusyInv`); and as long as no two requests have overlapped, the session and every copy of
  it name the agent that gave the last whole answer, but from the moment it is whole to the moment it is
  stored (`AgentInv`).

  Then for the voice session over CodeScope and Sargent. The joint steps are cut into turns, one for
  each thread or service (`Turns`), and a lemma for each part says what it leaves to the others
  (`SeenByScope`, `SeenBySargent`). `TypeCorrect` proves `TypeOK` from the types of the four parts.
  `SessionSettlesHere` carries `SessionSettles` over to a client that reads an answer at its own pace
  and may close it at any sentence. `RewriteSpokenOnceEver` proves `RewriteSpokenOnce`: a rewrite is
  spoken only while its prompt is awaited, a prompt is sent once, and it is not awaited again after
  that, whatever Sargent repeats (`SpokenInv`), and a thread whose transport was taken under it does not
  speak at all (`MidwayInv`). `PendingIsServedEver`, the safety half of
  `QuestionsEnd`: a question that is pending, so that the user cannot hang up by voice, is queued,
  served or being asked, unless the answer thread is dead; for that the entry that ends its answer must
  still be to be read (`ServedInv`). `ShutStaysSilent`, the safety half of `PanelClosedLetsGo`: once
  the stop of a shut panel has been read there is no transport ever after, because that stop is the last
  command on its stream (`StopIsLast`). Like the property it says nothing of a socket that was given up
  while it was connecting.
* `Canvas_proofs`: `TypeCorrect`, with the pad open only while its member has its node;
  `ToldTheTruthEver`, because a call is on the stream once and only before it was applied (`ApiInv`);
  `CommandsAreKeptEver` proves the action property `CommandsAreKept` from the same invariant;
  `NextBootRestoresEver`, because the graph that is open is the one that is remembered, unless that
  failed or it was put up in place of one that could not be read (`Remembered`), and its file shows the
  board, or is one that could not be built (`ShowsBoard`); `TextsAreKeptEver`, for any titles, because
  what the pad has of its folder is what is in the files and its editor is up to date after every
  operation (`NotesInv`), so that the text that is written back first is never an old one, except for the
  notes that `misnamed` names. `notepad_wipe.cfg` shows that this exception is needed.

Each of these modules has a theorem `TypeCorrect` about its type invariant. The other listed theorems
are properties that a run checks, except `RunningListComplete` and the safety halves named above. The
leaves cite a longer time limit where a step came near the default one.

Only model-checked: every liveness property, since the prover has no rules for fairness and `ENABLED`.
For `SettlesToOne`, `BootedIsServed`, `CorpseIsDropped`, `SwitchedOffStops`, `SidecarsReleased`,
`BoardSettles` and `EveryAskEnds` there is no half of their own, either; some of them lean on a proved
invariant (`SurvivorHoldsLock`, `NoOrphans`, `SessionSettles`). The pure functions of the models are
proved where a theorem needs them (`NextTodo`, `MarkDone`, `ParseKanban`, `Flush`, `Saved`).

## 6. Not modelled

* **Log sessions**: a JSON file that processes write one after the other; nothing of the running
  system reads it back.
* **`host.py` of the contracts**: imported by nothing in the repository. Discovery, parameters and the
  field encodings hold no state; what their parsing decides (a hash that does not parse is skipped) is
  in the modules that use them.
* **GraphScope, VisionBoard and the factory panels**: they show what others write. A selection in
  VisionBoard that is zoomed while it is dragged stays a question of its drawing.
* **The start of the Redis containers** (`provision_redis`): a failure ends the process before any
  state exists.
* **The batch that a crashed Supervisor had read** (`stream_server.py:103`): requests that were read
  and not handled when it dies are lost, as is a message published to nobody; no document promises
  otherwise.
* **CODEQ:ASK** in `CodeScopeManager/manager.py`: a consumer that nothing starts any more.
* **Two pads over one folder**: a board may hold them, since the Catalog drops any number of pads and all
  begin with the same default folder; every hosted pad then applies a command (`notepad.md:20-21`), each
  with a copy of the notes of its own. `Canvas` has one pad, so `TextsAreKept` says nothing of two.
* **Two canvases** at once: nothing here starts a second.
* **Callbacks in the middle of an operation**: a callback of Dear PyGui is a step, and so is what the loop
  does. Dear PyGui runs callbacks on a thread of its own, and the code has no lock between it and the
  loop, so that in the build the two may also meet inside an operation.
* **Files that cannot be read or written while the canvas runs**: a save that raises OSError, and a note
  that the pad cannot read when it is hosted. A note that was torn by a crash is a file of its own
  state here, and empty.
* **Two launches for two members of one endpoint** (`display_engine.py:150`): a node of NodeLifecycle is one
  launch, and nothing limits an endpoint to one process.
* **`_resize_scroll()` at `auto_integrate_app.py:534`**: a name that no class defines; drawing only.
* **Scripts, expansions, deployment**: one-shot tools.

What could follow: safety halves of `BoardSettles` (a board that is shown is a list that was read) and of
`EveryAskEnds`; a refinement of `SandboxRun` by `CloudFactory`, whose runs close and report in another
order; the composition of `HumanGates` with a factory's inbox.
