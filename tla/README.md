# A formal model of Agentarium (ATM, Agent Terrarium)

Agentarium is a FastAPI server in which a few agents, played by an LLM or by a
mock, live in a small world. A *simulation* advances tick by tick; in each tick
one agent acts. Ticks come from an automatic loop, from REST calls and from
WebSocket commands, and browsers observe the events over a WebSocket.

This directory holds TLA+ models of that server, translated from its Python
source, the TLC instances that check them, and proofs for TLAPS. Paths below
are relative to the repository.

1. [The system and its components](#1-the-system-and-its-components)
2. [Plan](#2-plan)
3. [Modules and the code](#3-modules-and-the-code)
4. [Runs](#4-runs)
5. [Fairness](#5-fairness)
6. [Proofs](#6-proofs)
7. [Where the code and its documents disagree](#7-where-the-code-and-its-documents-disagree)
8. [What is not modelled](#8-what-is-not-modelled)
9. [Running the checks](#9-running-the-checks)

## 1. The system and its components

Everything except the SystemMonitor's thread runs on one asyncio event loop.
The code between two awaits is therefore one step, and everything hard happens
at the awaits: what was read before one may be stale after it, a task may be
cancelled at it, and other coroutines run meanwhile.

| component | state | operations | what makes it correct |
| --- | --- | --- | --- |
| `SimulationManager` (`service/terrarium/simulation_manager.py`) | `simulations`, `tasks`, `locks`; `state.status`, `world.tick` | create, ensure, start (also resume), pause, stop, run_tick, close, the loop `_run_loop` | ticks exclude each other; a RUNNING simulation is driven by a loop; the registered task is alive; a stop quiesces; failed ticks do not end the loop |
| `WorldManager`, `WorldClock` (`service/world/`) | clock, weather, stores, places, needs, relationships | create_world, advance, apply_passive_needs, resolve_action | values within limits, the two records of a place agree, the clock is exact, relationships change by talk only |
| `AgentManager` and actors (`service/agent/`) | memories, action history, flags `use_llm`, `allow_mock_fallback` | choose_actor, decide_action, remember; `MockAgentActor`, `LLMAgentActor` | what the validator accepts the world can do; memories are the agent's own turns |
| `LLMManager` and providers (`llm/`) | provider, HTTP client | generate_json, generate, close | which answers are tried again, with which complaint; a decision ends |
| `EventManager`, `TimelineService` (`service/terrarium/event_manager.py`, `service/timeline/`) | two bounded lists per simulation | emit, publish, list_events, list_items | both hold the newest events in emission order |
| `WebSocketHandler` and the endpoint (`infra/websocket/`, `terrarium_router.py`) | `active_connections`, `session_map`, marks on each socket | init, process, destroy, disconnect_all, send_to_connection, broadcast_to_session | the registries agree, a client sees nothing twice and misses nothing but what a cancelled broadcast kept from it, no connection is left behind |
| `AppFactory`, `AppContext`, `SystemMonitor` (`atm_web_server.py`, `app_context.py`, `modules/`) | the parts of the context, their connections, the monitor's thread | startup, shutdown; start and stop of the thread | whatever step of the start fails, what was opened is released, in a safe order |
| RabbitMQ, Redis, database (`infra/`) | a connection each | connect, consume_multi, disconnect; first-run initialisation | as above |
| message intake (`messaging/`, `infra/rabbitmq/`, `infra/redis_stream/`) | connections, handlings under way; the brokers' ready, unacknowledged and pending messages | consume, processor, dispatch_event, acknowledge, reconnect | what a broker forgets has been handled; nothing is handled again without a fault; no message blocks its queue |
| browser client (`examples/terrarium_client.html`) | session id, state, timeline, sockets, timers, calls under way | create, start, control, connect, reconnect, poll, and each answer's arrival | one socket lives; the timeline repeats nothing and is in order until an event comes late; no click waits for ever; what is polled is shown in the end |
| RAG, Gemini, OpenAI, MongoDB, logger, schemas, SQL, prompts | | | not modelled, see section 8 |

Interactions: REST routes and WebSocket commands call the SimulationManager. It
calls AgentManager and WorldManager inside the simulation's lock, and
EventManager for each event. EventManager appends to its list, TimelineService
appends to the other and broadcasts through the WebSocketHandler, which awaits
each observer's socket; a slow observer thus holds up whoever emits, inside the
tick lock or not. LLMAgentActor calls LLMManager, which awaits the provider's
HTTP request, also inside the lock. AppFactory makes all of it and takes it
down.

Hard behaviour, listed line by line under `hazards` in `PROJECT.json`: values
read before an emit and used after it (`task_alive` in `start`, the STOPPED
test of `run_tick`, the list a broadcast walks), cancellation of a tick at each
of its awaits, those inside a broadcast included, decisions that fail half way
through a tick, registration and snapshot of an observer against concurrent
emits, events that reach an observer out of order, bounded lists and memories,
falsy configuration values, a start that breaks off anywhere, acknowledgements
on connections that have ended, and answers, timers and socket events that reach
the page after the session they belong to.

## 2. Plan

Modules in order, most important behaviour first. Items 1 to 9 exist.

1. `SimulationSession`: the abstract promise of a simulation: a status machine
   and one tick at a time. `SimulationManager`: the real one, which implements
   it. Proof: type, mutual exclusion, registry, loops, the lock's queue, what
   still ticks after a pause or a stop, refinement.
2. `WorldManager`, `AgentActors`: the rules of the world and of the actors, as
   action operators.
3. `TerrariumTick`: composes both into the inside of a tick. Proof: limits,
   places, accepted answers, log, relationships, memories, calendar.
4. `EventTimeline`: the two event lists. `ObserverFeed`: what an observer is
   promised. `WebSocketHandler`: composes the lists with the observers, and
   implements the promise. Proof: the history, the greeting, the clean-up, the
   registries, the order of each source, every event exactly once unless its
   broadcast is cancelled, refinement.
5. `AppLifecycle`: start and shutdown of all parts. Proof: everything released.
6. `DecisionCalls`: what a decision promises to the tick that waits for it.
   `LlmDecision`: the three layers of a decision, which implements it. Proof:
   complaints, retries, refinement.
7. `TerrariumTick` shown to ask for decisions as `DecisionCalls` promises, so
   that the tick's view and the decision's meet in one contract.
8. `MessageIntake`: RabbitMQ's deliveries and the Redis stream's pending
   entries, with lost connections, lost replies and crashes. Proof: what is
   settled was handled, repetition.
9. `TerrariumClient`: the page with its two channels to the server. Proof: one
   socket, nobody waits in vain, the list of events.
10. Left: a composition of `SimulationManager` with `EventTimeline` (the
    timeline tells each simulation's life in order).

## 3. Modules and the code

`map` in `PROJECT.json` gives the lines of each definition. Definitions
commented `Mutant:` are deliberate bugs, which nothing uses: substituted for the
definition they stand next to, each makes TLC find a property violated, so
every property is known to depend on the code it is about.

**SimulationManager** models one simulation id; simulations share nothing but
the shutdown. A process is a request slot (`Req`) or an auto-tick task
(`Loop`), and `pc[p]` names the await it is suspended at. An emit suspends only
when an observer's send does, so the model lets a call go on, or be suspended,
at each. `lock` and `waiters` are the asyncio.Lock with its FIFO queue;
`cancelled` holds tasks with a CancelledError under way. STARTED and RESUMED
are not told apart. Calls refused early end in `"refused"`. The `except
Exception` around the loop as a whole is unreachable, since everything inside
has its own. History variables (`mine`, `lastStart`, `lastAction`) record event
labels and restrict nothing.

**SimulationSession** is the abstract specification: `status`, `tick`, the
agent that acts, and who was admitted to a tick while the session was open. The
refinement shows what the code guarantees: whoever ticks was admitted while
the session was open, *not* that it still is (section 7).

**WorldManager / AgentActors / TerrariumTick.** The world is a set of variables
with the code's arithmetic, including `getattr(...) or 6`, which turns a
configured 0 into the default. Agents are numbered in creation order, which is
that of the round robin. The wording rules of a speech (length, forbidden
phrases, similarity) are a verdict that may fall either way, since
`LlmAnswersBadly` is always possible; the rules about the world are kept. An
LLM's answer may fill `reply_relationship_delta` and `reply_emotion`, which no
rule looks at (section 7): a talk with them also changes how the partner sees
the speaker, and the partner's emotion. The mock leaves them at their defaults. A
tick is cut where it can be suspended, cancelled or fail. `mode` is how
decisions are configured (`use_llm`, `allow_mock_fallback`), chosen once from
`Modes`. `AskMock` and
`MockDecides` are one step of the code, cut so that the mock decides after the
needs have changed; nothing can happen between them. Target fields that an
action's kind does not use are ignored by the code and empty in the model. The
initial needs and relationships are within limits, which the request schema
does not enforce (`agent_schema.py:115`).

**EventTimeline / WebSocketHandler.** An event is its number within its
simulation. `todo[p]` is the rest of the list copy that a broadcast walks.
Starlette's WebSocket is external: `send_json` writes when called and returns
when the peer has taken the message, raises once the peer is gone. `stop` and
`close` cancel an auto-tick wherever it is suspended, at a send too: `Cancel`
ends the broadcast of a task of `Loop` there, and those it has not come to never
hear of the event. `missed` remembers for each connection what it was kept from
and restricts nothing. A connection
is used once; a reconnection is another connection. Registration, snapshot and
the first write of the greeting have no await between them and are one step.
At the shutdown the server has stopped accepting connections. The `else` at
`websocket_handler.py:120` is unreachable: the connection of a processed
message has a session. A connection that asks for an unknown simulation is
registered before it is rejected: should the simulation be made meanwhile, it
hears its events until the rejection has been sent and the socket closed.

**ObserverFeed** is the abstract specification of a feed: how far each
simulation is, what each observer has asked for, and what it has heard. It knows
no registries, broadcasts or failures. One step may be heard by one observer and
lose several, as one leg of a broadcast does. The mapping takes `SESSION_CONNECTED`,
or the error in its place, for the snapshot; events and states for what they
tell; and other answers, which the detailed model does not tell apart either
(`Notice`), for notices. `PhaseOf` reads whether an observer
follows from the registration mark alone, so that whoever is registered may be
written to and nobody else ever is.

**AppLifecycle.** `at` is the step of the lifespan. A step of the start may raise
where it depends on something outside: the log file, a connection, the files of
the first run, and the settings (`provider`, `rules`). What raises goes straight
to the shutdown, with the parts made so far. `rules` is false for settings that
`TerrariumConfig` accepts and `WorldManager`'s constructor refuses. A close that raises is
logged and not repeated, so it counts as tried. uvicorn ends the lifespan when
no request is in flight. `loops` tells registered loops from orphans, whose
possible existence `doc_OneAutoLoop` shows. The monitor's thread runs beside,
with `Interval` and `JoinTimeout` of which only the order matters.

**LlmDecision / DecisionCalls.** A decision from the prompt to its end: the
provider's classification of what the server answers, the JSON parser, the
validator and the attempts. The server's answers are a set with one member for
each case the code tells apart, closed client and non-object JSON included.
`DecisionCalls` is the contract between decision and tick; `LlmDecision` and
`TerrariumTick` both implement it, the former through `attempt`, the latter
through `try`.

**MessageIntake.** RabbitMQ, Redis and their libraries are external: a queue
holds ready and unacknowledged messages, a stream has ids, and its group a
cursor and pending entries. A handling is a task with two awaits, the handler
and the acknowledgement. Which way `dispatch_event` takes is the message's
`kind`, chosen at the start, so that a poisonous message stays one. An
acknowledgement remembers the number of the connection its message came over:
`epoch`. Faults are lost connections, a lost reply of Redis and the end of the
process. `given`, `ended` and `clean` are history. No code starts the stream
consumer and no event has a handler yet (section 8): these parts are modelled as
written.

**TerrariumClient.** One page, the server's side of its requests, and the
browser's sockets. Every change of a session adds one status to its `log`, and
entry *n* is also timeline item *n*, so that a snapshot and a page of the
timeline are both named by the length they were taken at. The server promises no
order between broadcasts of different tasks, and a cancelled one leaves out
observers: a socket therefore delivers any entry that is new or was left out
before (`late`), and some never. `overtaken` remembers that the page has put a
late one on top of its list, until the list is replaced. A request is served in
one step and its answer arrives in another. `calls` are the page's suspended
async functions; settled promises resume before the next browser event, so
what runs up to the next await is one step. `createSimulationPromise` is the
condition that a call is in `"create"`, `"openNew"` or `"first"`; those who
await it are at `"join"`. `reconnectTimer` names the newest timer only; `strays`
counts those whose id was overwritten.

## 4. Runs

The runs named `doc_...` end in a violation: section 7. The others pass.

| run | instance | shows |
| --- | --- | --- |
| `manager_safety` | 3 requests, 4 loop identities, 2 agents, `MaxTick` 3 | `TypeOK`, `TickMutex`, `TickIsolated`, `RegisteredTaskLives`, `RunningIsDriven`, `LateAutoTicksWereQueued`, `LoopsBoundedByRequests`, `NobodyOvertakes`, `ImplementsSession` |
| `manager_liveness` | 2 requests, 3 loops, `MaxTick` 3, no symmetry | `StopQuiesces`, `RunningTicks`, `CallsEnd` |
| `tick_llm` | 2 agents, 2 locations; an LLM, the mock, and an LLM with fallback; a day of 4 ticks that starts at 3 and turns to night at 1; 5 ticks | `TypeOK`, `PlacesAgree`, `LogTellsWorld`, `AcceptedMeansDone`, `MemoriesAreOwnTurns`, `ClockIsExact`, `ImplementsCalls` |
| `observers` | 1 simulation, 2 connections, 2 tasks that may be cancelled, 2 events, lists of 2, 1 request | `TypeOK`, `NewsOnceUnlessCancelled`, `ImplementsFeed` |
| `observer_sessions` | 2 simulations, 2 connections, 1 task that may be cancelled, 1 event each, 1 request | `RegistriesAgree`, `EndpointCleansUp`, `ShutdownClears` |
| `observer_liveness` | 2 simulations, 2 connections, 1 task that may be cancelled, lists of 1, 1 event each, 1 request, no symmetry | `LostIsForgotten` |
| `lifecycle` | all 1024 configurations | `EverythingIsReleased`, `LoopsEndBeforeTheirLlm`, `DeliveriesFindManagers` |
| `decision` | 3 attempts, 2 decisions, every answer | `ComplaintsAreAboutTheLastAnswer`, `ImplementsCalls`, `DecisionsEnd` |
| `intake` | 1 message of RabbitMQ, 2 stream entries, each of every kind, 2 faults | `SettledWasHandled`, `HandledAgainForFaultsOnly`, `IntakeDrains` |
| `client` | 2 sessions, 2 sockets, 2 calls at once, logs of up to 2 by auto-ticks, 2 buttons or failures | `TypeOK`, `OneLiveSocket`, `OnceAndNewestFirst`, `NobodyWaitsInVain`, `StateCatchesUp` |

Why the bounds are enough:

* Three requests and four loops allow a start, a stop and a manual tick to be
  suspended at once while a displaced loop is alive; no behaviour needs a fourth
  request, and `LoopsBoundedByRequests` shows that the number of loop
  identities never stops a start. `MaxTick` bounds ticks that are done or
  queued, so that nothing that waits is stuck at the bound; three ticks pass
  the round robin of two agents.
* The world's numbers are chosen so that every limit is reached: two units of
  food and one of water run out, needs saturate within the ticks, the initial
  relationship is two points from a limit and deltas are three. The
  reply's delta, 7, is one that only the world's clamp brings into range. The odd
  calendar has its night before its day and turns to a second day.
* A snapshot of one event is shorter than a list of two, and an event it leaves
  out is not news. Two observers are what a broadcast needs to be interrupted or
  cancelled between them, and two tasks to overtake each other. One request is
  what an endpoint needs to lose its peer in the processor or in an answer. That
  full lists keep the newest is the theorem `HistoryIsAlwaysRecent`.
* Interval and join timeout are the code's; two decisions in a row are what a
  complaint would need to outlive its decision.
* Each message of the intake is independent of the others but for the stream's
  cursor, which two entries show. Two faults are a delivery on a second
  connection while the task of the first still runs, and a fault in that.
* The page needs two sessions for answers of a former one, two sockets for one
  that closes beside one that opens, two calls for answers that overtake each
  other. Two buttons or failures are a stop and a new start, or a lost socket and
  a button. A greeting of one item is shorter than the list it replaces. `Limit`,
  200 in the code, is 9 here, more than any log grows to; what holds for shorter
  lists is the theorem `ListIsInOrder`.

`CHECK_DEADLOCK FALSE` is in each configuration because each instance stops: at
its bounds, after the shutdown, and in `intake` and `client` when nobody sends
or clicks any more. Symmetry is used in safety runs only, over
requests, loops, connections and tasks, none of which the models order.

## 5. Fairness

* `SimulationManager`: the event loop runs every ready coroutine, asyncio.Lock
  is FIFO, the emits end (below) and a decision ends or fails (`DecisionsEnd`,
  which rests on the HTTP client's timeout of `timeout_seconds`, 120 by
  default). So every suspended process goes on: weak fairness for each. Nobody
  is obliged to call anything.
* `WebSocketHandler`: a send to a peer that takes nothing ends with the ASGI
  server's keepalive, which is outside of the repository; a command's call
  ends by `CallsEnd`. Nobody is obliged to connect, send or emit.
* `LlmDecision`: of the LLM server nothing is assumed. Weak fairness of
  `TimesOut` says that the client's timeout comes when no answer does, and the
  mock answers by itself.
* `MessageIntake`: the process is started again and connections are made again
  (`Start`, `Relink`, `Reconnect`: the supervisor, `connect_robust` and the
  consumer's loop), the brokers deliver, and handlers end. Faults are bounded
  and nobody is obliged to send.
* `TerrariumClient`: the server answers a request or the network fails it, the
  browser runs what is ready, sockets open or fail and, once closed, report it,
  and the poll timer fires. Nobody is obliged to press a button.

## 6. Proofs

The proof modules extend their component's module; all assumptions are the named
`ASSUME`s on constants (sizes are positive, sets disjoint, None is no message and NoMood no mood, rules in the ranges of their
schema). The bounds `MaxTick`, `MaxEmits`,
`MaxRequests`, `MaxDecisions`, `MaxFaults`, `MaxTicks` and `MaxInputs` are arbitrary numbers in them, so the theorems hold for runs of
any length.

| module | theorems | inductive invariant |
| --- | --- | --- |
| `SimulationManagerProofs` | `TypeCorrect`, `MutualExclusion`, `Isolation`, `ActionsInTickOrder`, `RunningSimulationIsDriven`, `RegistryHoldsLiveTask`, `LoopsAreBounded`, `QueueHoldsTheWaiting`, `NoLostWakeUp`, `TicksKeepTheirTurn`, `OnlyQueuedTicksFollowAStop`, `OnlyQueuedAutoTicksFollowAPause`, `SerialStartsKeepOneLoop`, `Implementation` | `TickInv`: whoever is in a tick holds the lock, what it advanced to is the world's tick until it leaves. `LabelInv`: no event is labelled ahead of the world's tick. `RegistryInv`: the registered task is alive, a RUNNING simulation has a task or a start call about to make one, and a stop under way has already set the status. `DriverInv`: loops, and start calls about to make one, are at most the requests; there is none while the registry of an open simulation is empty. `QueueInv`: the lock's queue holds exactly who waits for it, each once. `OneLoopInv`: a loop that runs uncancelled is the registered one, and a start call about to make one finds none |
| `TerrariumTickProofs` | `TypeCorrect`, `PlacesAlwaysAgree`, `AcceptedDecisionsAreDone`, `LogFollowsWorld`, `BondsChangeByTalk`, `MemoriesAreOfOwnTurns`, `ClockAlwaysExact`, `TicksAskAsPromised` | `LogInv`: at each await, which of the tick's events are still to be told. `MemoryInv`: the tick in progress is newer than every memory and its agent is the one whose turn it is. `CallInv`: an attempt is counted exactly while the LLM is asked |
| `WebSocketHandlerProofs` | `ObserversInvariant`, `HistoryIsAlwaysRecent`, `EndpointsCleanUp`, `AllAreGreetedFirst`, `DestroyedHearNothing` | `ObserverInv`: both lists are the window of the newest numbers; only processes at the sending places send; endpoints before and after their lifetime are unregistered; who is registered has been greeted unless its peer is gone |
| `ObserverProofs` | `ObserversTypeCorrect`, `RegistriesAlwaysAgree`, `ShutdownLeavesNobody`, `SourcesStayInOrder`, `NewsArrivesUnlessCancelled`, `EveryoneHasAFeed` | `BookInv`: the three registries agree; who sends has somebody to send to; once `disconnect_all` has begun nobody registers, and who is registered is in its list. `OrderInv`: a broadcast under way goes to accepted connections, each once, tells nothing that is ahead of its simulation, and may follow what those it has still to come to have heard from its sender. `NewsInv`: an event newer than a connection's snapshot, unless missed, is on its wire at one place or owed to it by one process, never both; no other event is. `MissedInv`: only accepted connections miss anything, and only what has happened |
| `AppLifecycleProofs` | `TypeCorrect`, `StartedIsReleased`, `ServersAreComplete`, `LoopsFindTheirLlm`, `MessagesFindManagers` | `LifeInv`: three tables of steps: what must be closed by which step of the shutdown (`TakenDown`), what must be there by which step of the start (`PutUp`), and what holds throughout |
| `LlmDecisionProofs` | `TypeCorrect`, `PromptsCorrectTheLastAnswer`, `ErrorsAreFinal`, `MockDecidesNothing`, `DecisionsKeepTheirPromise` | `DecisionInv`: prompts and answers are paired: one prompt more than answers while a call is open, and every answer that has a prompt after it is JSON that was refused |
| `MessageIntakeProofs` | `TypeCorrect`, `SettledMessagesWereHandled`, `RepetitionNeedsFaults` | `IntakeInv`: what waits for its acknowledgement has been handled; a message that is ready again was handed over once for each fault at most; ids are unique, and the group has handed over what its cursor has passed |
| `TerrariumClientProofs` | `TypeCorrect`, `PageHasOneSocket`, `WaitsAreAnswered`, `ListIsInOrder` | `ClientInv`: every call is at a place its operation has and about a session that exists; the live socket is the page's; a waiting call names a socket on its way. `FeedInv`: whatever the page shows, a socket carries or an answer brings is in the log; while nothing late has been put on top, an item shown ahead of what an open socket has read is shown with all between |

All steps of a broadcast go through `Proceed`; `ObserverProofs` shows once what
such a leg does to the connections (`LegEffect`) and then argues about legs
only. The list without some members (`Without`) is built from the ranks of the
positions that stay instead of by recursion, so that the prover can reason about
it (`RankIsOnto`, `WithoutFacts`).

None of the properties is inductive alone. Mutual exclusion, for instance,
says nothing about who holds the lock; `RunningIsDriven` fails one step after a
state in which a stop had not yet set the status.

`Implementation`, `DecisionsKeepTheirPromise`, `TicksAskAsPromised` and
`EveryoneHasAFeed` are refinements: initial states map to initial states and
every step to a step of the abstract specification or a stutter, under the
invariant. `EveryoneHasAFeed` is about the legs of broadcasts again
(`LegIsFeedStep`) and about what adds to a wire outside of them: the greeting
(`AcceptIsFeedStep`) and answers.

Two theorems have a hypothesis beside `Spec`, and each hypothesis is needed.
`ListIsInOrder` supposes `FewBehind`: no open socket has more unread items
than the page's list holds, 200 in the code; with `Limit` 2 TLC finds a list with
a hole once a socket is further behind. `SerialStartsKeepOneLoop` supposes `StartsAreSerial`:
while a start call awaits the emit after which it makes its loop, no other start
goes on. The code does not enforce it, and `doc_OneAutoLoop` is what happens
otherwise.

Proved and in no run, as what a run can show of them adds nothing to the
theorem: `ServingMeansComplete`, which the sequence of the start gives,
`MockProviderNeverDecides`, `HistoryIsRecent`, `GreetedFirst`,
`NothingToDestroyed`, `EachSourceInOrder`, `ActionTicksGrow`, `BondsGrowByTalk`,
`OnlyJsonIsTriedAgain`, `QueueMovesOn`, `StoppedSpendsItsQueue`, and the `TypeOK` of `AppLifecycle`, `LlmDecision` and
`MessageIntake`.

Only model-checked: all liveness, as the prover does not do ENABLED.

## 7. Where the code and its documents disagree

Two of them are runs whose single property states what a document or message
says; TLC finds the counterexample.

| run | what happens |
| --- | --- |
| `doc_StoppedNeverAdvances` | a tick that queued on the lock before a stop advances the STOPPED simulation. By `OnlyQueuedTicksFollowAStop` such ticks are the only ones |
| `doc_OneAutoLoop` | two start calls with interleaved emits create two loops, one of which survives `stop`. By `SerialStartsKeepOneLoop`, starts that overlap are the only way |

The others follow from the modelled steps, and no run is spent on them:

* `simulation_manager.py:290`: an automatic tick that queued before a pause
  begins while PAUSED (README.md:598 lists that they stop). It is the only one
  its loop still makes (`OnlyQueuedAutoTicksFollowAPause`).
* `simulation_manager.py:168`: stopping or closing cancels an auto-tick in the
  middle of its broadcast too (`websocket_handler.py:237`). The event is in both
  lists, and the observers still to come stay registered and never get it.
* `simulation_manager.py:214`: a failed decision uses up its agent's turn
  (README.md:150 has the round robin so that no turn is skipped).
* `agent_manager.py:133`: a failing Ollama does not fall back to the mock
  (README.md:602): `TerrariumConfig` has no `allow_mock_fallback` field, so the
  mode `"fallback"` of `TerrariumTick` needs a change of the configuration class.
* `llm_actor.py:225`: the rule against a third OBSERVE, WAIT or TALK in a row
  reads `action_history`, which nothing writes.
* `agent_schema.py:144`: the comment calls the `reply_*` fields internal and no
  part of the LLM's answer, but the answer is validated as a whole `AgentAction`
  and may fill them (`exclude` is about output). No rule of `_validate_action`
  reads them, and `world_manager.py:262` applies them: the LLM that plays one
  agent decides what its partner feels.
* `world_config.py:12`: settings that `TerrariumConfig` accepts, such as a day of
  3 ticks or an hour of 24, raise when `WorldManager` is made and end the start.
* `world_config.py:30`: a day configured to start at hour 0 starts at hour 6
  (`OrDefault`), though the schema allows 0 (`world_config.py:14`).
* `terrarium_router.py:232`: SIMULATION_STATE answers WebSocket requests only; a
  change made over REST or by a loop is followed by none (src/README.md:406).
* `websocket_handler.py:106`: an exception other than KeyError and ValueError is
  answered without the type TERRARIUM_ERROR (src/README.md:408).
* `world_manager.py:51`: an agent with an unknown location does not get the one
  that the log line says it is corrected to: `self._log` is not defined and
  creating the world raises.
* `simulation_manager.py:217`: the RELATIONSHIP_CHANGED and EMOTION_CHANGED
  events that `resolve_action` returns are never published, though
  `timeline_service.py:66` has a category for them.
* `llm_manager.py:83`: the provider `mock` serves every call of the LLM manager and
  no decision of an agent (`MockProviderNeverDecides`).
* `rabbitmq_handler.py:72`: a message whose handler raised is acknowledged like
  any other: the callback swallows the exception that `message.process` would
  act on.
* `redis_stream_consumer.py:39`: an entry whose handler raised, whose reply was
  lost or whose process ended stays pending for ever: the consumer asks for new
  entries only. `stop` (`:75`) reads an attribute that nobody sets.
* `terrarium_client.html:605`: the timer that disconnects 150 ms after a stop
  is not bound to its session. If a new session is created within that time, its
  socket is closed as intended and never reconnected.
* `terrarium_client.html:566`: an answer is shown whatever has been asked or
  received since: older than the socket's news, or about a former session. The
  next poll repairs the state (`StateCatchesUp`) and nothing repairs the
  timeline. A late STOPPED of a former session also keeps a lost socket from
  being reconnected.
* `terrarium_client.html:607`: the tail of a pause, resume or tick that overlaps
  a stop starts the polling again that the stop has ended.
* `terrarium_client.html:1072`: a 404 for the address's session resets the page
  even when a new session has been created meanwhile.
* `terrarium_client.html:1011`: an event is put on top of the timeline whenever it
  comes. One that was overtaken on its way stands above newer ones until the
  list is replaced.
* `terrarium_client.html:670`: a reconnection's greeting replaces up to 200
  timeline items by the newest 20.
* `system_monitor.py:38`: "system monitor stopped" is logged after a join of 5
  seconds, while the thread sleeps for 10.
* `db_init.py:33`: the first run on an empty database looks for a file that the
  repository does not have.

## 8. What is not modelled

* The client's drawing: map, cards, formatting, and the identifiers by which
  items are recognised (created_at, tick and summary where an item has none).
* `decide_reply`, `reply`, `record_action`, `record_dialogue`: no caller. The
  fields of an action that they would fill are modelled, as an LLM may fill them.
* `reply_content`, `reply_narration`, `reply_reason` and `reply_source`: wording.
* The Redis key-event listener is never started; its loop over a backup's fields
  also overwrites the `key` it dispatches and deletes afterwards. `ws_processor` has no caller. The map of events
  (`conf/atm-event-map.cfg.json`) names no handler.
* `stream`, `rag_generate`, `health_check`, the RAG manager, MongoDB, and the
  Gemini and OpenAI providers: not reachable from the service.
* REST responses, narration, titles, prompts, logging: wording without state.
* Order of broadcasts from *different* sources at one observer: the code does
  not promise any, `EachSourceInOrder` says what it keeps, and the page's model
  takes events in any order.
* Persistence: there is none; a restart begins empty.

## 9. Running the checks

    tlc -config SimulationManager.cfg MCSimulationManager.tla
    tlapm SimulationManagerProofs.tla

and likewise for the other configurations and proof modules; `PROJECT.json`
pairs each run with its module. `observer_liveness`
takes two to three minutes, `tick_llm`, `observers`, `client` and `intake` one to
two, `manager_liveness` up to one, the others seconds. In the
modules proved about, string values that a proof compares are written without
blanks where the prover's SMT encoding needs it.
