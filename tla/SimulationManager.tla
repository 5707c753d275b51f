--------------------------- MODULE SimulationManager ---------------------------
(***************************************************************************)
(* The SimulationManager of one simulation id: lifecycle requests, manual  *)
(* ticks, the auto-tick loops and the asyncio.Lock they share.             *)
(*                                                                         *)
(* Everything runs on one asyncio event loop, so the code between two      *)
(* awaits is one step.  A process is a request handler (Req) or an         *)
(* auto-tick task (Loop); pc[p] names the await at which p is suspended:   *)
(*                                                                         *)
(*   idle, refused   a request slot between two calls; refused: the last   *)
(*                   call raised (KeyError, ValueError or a failed tick)   *)
(*   ensured         start: the emit of SIMULATION_CREATED inside ensure   *)
(*   startLive/Dead  start: the emit of STARTED/RESUMED; the suffix is the *)
(*                   value task_alive had before the await                 *)
(*   stopping        stop: the emit of SIMULATION_STOPPED                  *)
(*   joining         stop: gather on the cancelled task                    *)
(*   off             a task that was never created, or is done             *)
(*   top             a task that is new, or asleep before its next turn    *)
(*   waiting         run_tick: queued on the lock                          *)
(*   started         run_tick: the emits of TICK_STARTED and world events  *)
(*   deciding        run_tick: the actor's decision (an LLM call)          *)
(*   acted           run_tick: the emit of the action's event              *)
(*                                                                         *)
(* Emits after which a call touches no shared state any more (create,      *)
(* pause, the loop's failure notice) are not suspension points here.       *)
(* World, needs and memories are the business of other modules; this one   *)
(* keeps the tick number and the round-robin turn.                         *)
(***************************************************************************)
EXTENDS Naturals, Sequences, FiniteSets, SequencesExt

CONSTANTS
    Req,      \* concurrent request handlers
    Loop,     \* identities for auto-tick tasks
    None,     \* Python's None
    NAgents,  \* number of agents in the simulation
    MaxTick   \* bound: no tick is requested that would pass it

ASSUME ProcessesAreDistinct ==
    /\ Req \cap Loop = {}
    /\ None \notin Req \cup Loop
ASSUME RequestsAreFinite == IsFiniteSet(Req)
ASSUME NAgentsAssumption == NAgents \in Nat \ {0}
ASSUME MaxTickAssumption == MaxTick \in Nat

Proc == Req \cup Loop

VARIABLES
    status,     \* state.status; "NONE" while the id is not in simulations
    tick,       \* state.world.tick
    task,       \* tasks.get(simulation_id)
    pc,         \* where each process is suspended
    lock,       \* the process that holds locks[simulation_id]
    waiters,    \* the lock's FIFO queue
    cancelled,  \* tasks with a CancelledError on its way to them
    awaited,    \* the task a stop call is gathering
    closed,     \* the server is shutting down
    actor,      \* run_tick's local: the agent that acts
    mine,       \* history: the tick number the lock holder advanced to
    lastStart,  \* history: the tick label of the newest TICK_STARTED event
    lastAction  \* history: the tick label of the newest action event

vars == <<status, tick, task, pc, lock, waiters, cancelled, awaited, closed,
          actor, mine, lastStart, lastAction>>
taskVars == <<task, cancelled, awaited, closed>>
tickVars == <<tick, lock, waiters, actor, mine, lastStart, lastAction>>

Status == {"NONE", "CREATED", "RUNNING", "PAUSED", "STOPPED"}
TickPc == {"started", "deciding", "acted"}
ReqPc  == {"idle", "refused", "ensured", "startLive", "startDead", "stopping",
           "joining", "waiting"} \cup TickPc
LoopPc == {"off", "top", "waiting"} \cup TickPc
Agent  == 0 .. (NAgents - 1)

TypeOK ==
    /\ status \in Status
    /\ tick \in Nat
    /\ task \in Loop \cup {None}
    /\ pc \in [Proc -> ReqPc \cup LoopPc]
    /\ \A r \in Req : pc[r] \in ReqPc
    /\ \A l \in Loop : pc[l] \in LoopPc
    /\ lock \in Proc \cup {None}
    /\ waiters \in Seq(Proc)
    /\ cancelled \in SUBSET Loop
    /\ awaited \in [Req -> Loop \cup {None}]
    /\ closed \in BOOLEAN
    /\ actor \in [Proc -> Agent \cup {None}]
    /\ mine \in [Proc -> Nat]
    /\ lastStart \in Nat
    /\ lastAction \in Nat

Init ==
    /\ status = "NONE"
    /\ tick = 0
    /\ task = None
    /\ pc = [p \in Proc |-> IF p \in Req THEN "idle" ELSE "off"]
    /\ lock = None
    /\ waiters = <<>>
    /\ cancelled = {}
    /\ awaited = [r \in Req |-> None]
    /\ closed = FALSE
    /\ actor = [p \in Proc |-> None]
    /\ mine = [p \in Proc |-> 0]
    /\ lastStart = 0
    /\ lastAction = 0

-----------------------------------------------------------------------------
(* Helpers *)

Alive(l) == pc[l] # "off"

\* task is not None and not task.done()
TaskAlive == task # None /\ Alive(task)

\* A request slot between two calls; it takes a new one until the shutdown.
Idle(r) == pc[r] \in {"idle", "refused"}
Free(r) == Idle(r) /\ ~closed

Goto(p, label) == pc' = [pc EXCEPT ![p] = label]

\* Mutant: the index does not wrap around.
TurnWithoutWrap(t) == t - 1

\* The agent of tick t: index (tick - 1) % n of the agent list.
Turn(t) == (t - 1) % NAgents

\* Mutant: the new task is not stored in tasks.
CreateTaskUnregistered(r) ==
    \E l \in Loop :
        /\ pc[l] = "off"
        /\ \A q \in Req : awaited[q] # l
        /\ pc' = [pc EXCEPT ![r] = "idle", ![l] = "top"]
        /\ UNCHANGED task

\* loop.create_task(_run_loop(id)), registered under the id; r's call ends.
CreateTask(r) ==
    \E l \in Loop :
        /\ pc[l] = "off"
        /\ \A q \in Req : awaited[q] # l
        /\ task' = l
        /\ pc' = [pc EXCEPT ![r] = "idle", ![l] = "top"]

\* Bound: a tick is only requested while it keeps the counter within MaxTick.
TickBudget == tick + Len(waiters) < MaxTick

-----------------------------------------------------------------------------
(* Lifecycle requests *)

\* POST create, and get on an id that is missing.
Create(r) ==
    /\ Free(r)
    /\ \/ /\ status = "NONE"
          /\ status' = "CREATED"
          /\ Goto(r, "idle")
       \/ /\ status # "NONE"
          /\ Goto(r, "refused")
          /\ UNCHANGED status
    /\ UNCHANGED <<taskVars, tickVars>>

\* Mutant: a RUNNING simulation with a live task gets another one.
StartBodyWithoutReturn(r) ==
    \/ /\ status = "STOPPED"
       /\ Goto(r, "refused")
       /\ UNCHANGED <<status, task>>
    \/ /\ status = "RUNNING"
       /\ CreateTask(r)
       /\ UNCHANGED status
    \/ /\ status \in {"CREATED", "PAUSED"}
       /\ status' = "RUNNING"
       /\ Goto(r, IF TaskAlive THEN "startLive" ELSE "startDead")
       /\ UNCHANGED task

\* start from the status check on, up to its emit or its return.
StartBody(r) ==
    \/ /\ status = "STOPPED"
       /\ Goto(r, "refused")
       /\ UNCHANGED <<status, task>>
    \/ /\ status = "RUNNING" /\ TaskAlive
       /\ Goto(r, "idle")
       /\ UNCHANGED <<status, task>>
    \/ /\ status = "RUNNING" /\ ~TaskAlive
       /\ CreateTask(r)
       /\ UNCHANGED status
    \/ /\ status \in {"CREATED", "PAUSED"}
       /\ status' = "RUNNING"
       /\ Goto(r, IF TaskAlive THEN "startLive" ELSE "startDead")
       /\ UNCHANGED task

\* POST start or resume; ensure creates a missing simulation first.
Start(r) ==
    /\ Free(r)
    /\ \/ /\ status = "NONE"
          /\ status' = "CREATED"
          /\ Goto(r, "ensured")
          /\ UNCHANGED task
       \/ /\ status # "NONE"
          /\ StartBody(r)
    /\ UNCHANGED <<tickVars, cancelled, awaited, closed>>

StartAfterEnsure(r) ==
    /\ pc[r] = "ensured"
    /\ StartBody(r)
    /\ UNCHANGED <<tickVars, cancelled, awaited, closed>>

\* The end of start: task_alive is the value read before the emit.
StartAfterEmit(r) ==
    /\ \/ /\ pc[r] = "startLive"
          /\ Goto(r, "idle")
          /\ UNCHANGED task
       \/ /\ pc[r] = "startDead"
          /\ CreateTask(r)
    /\ UNCHANGED <<status, tickVars, cancelled, awaited, closed>>

Pause(r) ==
    /\ Free(r)
    /\ \/ /\ status = "RUNNING"
          /\ status' = "PAUSED"
          /\ Goto(r, "idle")
       \/ /\ status # "RUNNING"
          /\ Goto(r, IF status = "NONE" THEN "refused" ELSE "idle")
          /\ UNCHANGED status
    /\ UNCHANGED <<taskVars, tickVars>>

Stop(r) ==
    /\ Free(r)
    /\ \/ /\ status \in {"NONE", "STOPPED"}
          /\ Goto(r, IF status = "NONE" THEN "refused" ELSE "idle")
          /\ UNCHANGED status
       \/ /\ status \notin {"NONE", "STOPPED"}
          /\ status' = "STOPPED"
          /\ Goto(r, "stopping")
    /\ UNCHANGED <<taskVars, tickVars>>

\* tasks.pop and task.cancel, after the emit of SIMULATION_STOPPED.
StopCancel(r) ==
    /\ pc[r] = "stopping"
    /\ task' = None
    /\ \/ /\ TaskAlive
          /\ cancelled' = cancelled \cup {task}
          /\ awaited' = [awaited EXCEPT ![r] = task]
          /\ Goto(r, "joining")
       \/ /\ ~TaskAlive
          /\ Goto(r, "idle")
          /\ UNCHANGED <<cancelled, awaited>>
    /\ UNCHANGED <<status, tickVars, closed>>

StopReturn(r) ==
    /\ pc[r] = "joining"
    /\ ~Alive(awaited[r])
    /\ awaited' = [awaited EXCEPT ![r] = None]
    /\ Goto(r, "idle")
    /\ UNCHANGED <<status, tickVars, task, cancelled, closed>>

-----------------------------------------------------------------------------
(* run_tick *)

\* The first stretch under the lock: world_manager.advance, then the append
\* of TICK_STARTED.
Advance(p) ==
    /\ lock' = p
    /\ tick' = tick + 1
    /\ mine' = [mine EXCEPT ![p] = tick + 1]
    /\ lastStart' = tick + 1
    /\ Goto(p, "started")
    /\ UNCHANGED <<status, taskVars, actor, lastAction>>

\* Mutant: the tick body runs outside the lock.
AcquireNowUnlocked(p) ==
    /\ Advance(p)
    /\ UNCHANGED waiters

\* Mutant: who finds the lock free takes it, though others wait.
AcquireNowBarging(p) ==
    /\ lock = None
    /\ Advance(p)
    /\ UNCHANGED waiters

\* lock.acquire() without suspension: free, and nobody queued but waiters
\* whose future is cancelled already.
AcquireNow(p) ==
    /\ lock = None
    /\ ToSet(waiters) \subseteq cancelled
    /\ Advance(p)
    /\ UNCHANGED waiters

\* lock.acquire() that has to queue.
Enqueue(p) ==
    /\ lock # None \/ waiters # <<>>
    /\ waiters' = Append(waiters, p)
    /\ Goto(p, "waiting")
    /\ UNCHANGED <<status, taskVars, tick, lock, actor, mine, lastStart,
                   lastAction>>

EnterTick(p) ==
    /\ TickBudget
    /\ AcquireNow(p) \/ Enqueue(p)

\* Mutant: a stopped simulation is not refused.
TickAnyStatus(r) ==
    /\ Free(r)
    /\ \/ /\ status = "NONE"
          /\ Goto(r, "refused")
          /\ UNCHANGED <<status, taskVars, tickVars>>
       \/ /\ status # "NONE"
          /\ EnterTick(r)

\* POST tick and the WebSocket TICK command: the status is read here, before
\* the lock, and never again.
Tick(r) ==
    /\ Free(r)
    /\ \/ /\ status \in {"NONE", "STOPPED"}
          /\ Goto(r, "refused")
          /\ UNCHANGED <<status, taskVars, tickVars>>
       \/ /\ status \notin {"NONE", "STOPPED"}
          /\ EnterTick(r)

\* The head of the queue is woken by a release.
Acquire(p) ==
    /\ pc[p] = "waiting"
    /\ p \notin cancelled
    /\ lock = None
    /\ waiters # <<>> /\ Head(waiters) = p
    /\ waiters' = Tail(waiters)
    /\ Advance(p)

\* Passive needs, choose_actor and the call of decide_action.
Decide(p) ==
    /\ pc[p] = "started"
    /\ p \notin cancelled
    /\ actor' = [actor EXCEPT ![p] = Turn(tick)]
    /\ Goto(p, "deciding")
    /\ UNCHANGED <<status, taskVars, tick, lock, waiters, mine, lastStart,
                   lastAction>>

\* The decision arrives: resolve_action, remember, and the append of the
\* action's event, labelled with the tick read now.
Resolve(p) ==
    /\ pc[p] = "deciding"
    /\ p \notin cancelled
    /\ lastAction' = tick
    /\ Goto(p, "acted")
    /\ UNCHANGED <<status, taskVars, tick, lock, waiters, actor, mine,
                   lastStart>>

\* Where a process goes when run_tick returns: the caller, or the sleep.
AfterTick(p) == IF p \in Req THEN "idle" ELSE "top"

\* async with releases the lock on every way out; p's locals are gone.
LeaveTick(p, label) ==
    /\ lock' = None
    /\ actor' = [actor EXCEPT ![p] = None]
    /\ mine' = [mine EXCEPT ![p] = 0]
    /\ Goto(p, label)
    /\ UNCHANGED <<status, taskVars, tick, waiters, lastStart, lastAction>>

FinishTick(p) ==
    /\ pc[p] = "acted"
    /\ p \notin cancelled
    /\ LeaveTick(p, AfterTick(p))

\* Mutant: the lock is not released when the decision fails.
FailTickKeepsLock(p) ==
    /\ pc[p] = "deciding"
    /\ p \notin cancelled
    /\ Goto(p, IF p \in Req THEN "refused" ELSE "top")
    /\ UNCHANGED <<status, taskVars, tickVars>>

\* decide_action raises: a request answers with an error, a loop logs it,
\* publishes a notice and sleeps.
FailTick(p) ==
    /\ pc[p] = "deciding"
    /\ p \notin cancelled
    /\ LeaveTick(p, IF p \in Req THEN "refused" ELSE "top")

-----------------------------------------------------------------------------
(* _run_loop *)

\* Mutant: no finally clause.
ExitRegistered(l) ==
    /\ Goto(l, "off")
    /\ UNCHANGED task

\* A loop that is done, with the finally clause: it unregisters only itself.
Exit(l) ==
    /\ Goto(l, "off")
    /\ task' = IF task = l THEN None ELSE task

\* Mutant: the loop only looks for STOPPED.
LoopTickThoughPaused(l) ==
    /\ pc[l] = "top"
    /\ l \notin cancelled
    /\ status \in {"RUNNING", "PAUSED"}
    /\ EnterTick(l)

\* One pass of the while loop.  PAUSED: it goes back to sleep, no step.
LoopTick(l) ==
    /\ pc[l] = "top"
    /\ l \notin cancelled
    /\ status = "RUNNING"
    /\ EnterTick(l)

\* Mutant: the loop does not look for STOPPED.
LoopReturnNotOnStop(l) ==
    /\ pc[l] = "top"
    /\ l \notin cancelled
    /\ status \notin {"RUNNING", "PAUSED", "STOPPED"}
    /\ Exit(l)
    /\ UNCHANGED <<status, tickVars, cancelled, awaited, closed>>

LoopReturn(l) ==
    /\ pc[l] = "top"
    /\ l \notin cancelled
    /\ status \notin {"RUNNING", "PAUSED"}
    /\ Exit(l)
    /\ UNCHANGED <<status, tickVars, cancelled, awaited, closed>>

\* The queue without p, which is in it at most once.
Leave(q, p) ==
    IF p \in ToSet(q)
    THEN RemoveAt(q, CHOOSE i \in DOMAIN q : q[i] = p)
    ELSE q

\* Mutant: a cancelled waiter stays in the queue.
LoopCancelledStaysQueued(l) ==
    /\ l \in cancelled
    /\ Exit(l)
    /\ cancelled' = cancelled \ {l}
    /\ lock' = IF lock = l THEN None ELSE lock
    /\ actor' = [actor EXCEPT ![l] = None]
    /\ mine' = [mine EXCEPT ![l] = 0]
    /\ UNCHANGED <<status, awaited, closed, tick, waiters, lastStart, lastAction>>

\* Mutant: a cancelled waiter releases a lock it does not hold.
LoopCancelledReleases(l) ==
    /\ l \in cancelled
    /\ Exit(l)
    /\ cancelled' = cancelled \ {l}
    /\ lock' = None
    /\ waiters' = Leave(waiters, l)
    /\ actor' = [actor EXCEPT ![l] = None]
    /\ mine' = [mine EXCEPT ![l] = 0]
    /\ UNCHANGED <<status, awaited, closed, tick, lastStart, lastAction>>

\* CancelledError reaches a task wherever it is suspended: it leaves the
\* queue or releases the lock, then returns.
LoopCancelled(l) ==
    /\ l \in cancelled
    /\ Exit(l)
    /\ cancelled' = cancelled \ {l}
    /\ lock' = IF lock = l THEN None ELSE lock
    /\ waiters' = Leave(waiters, l)
    /\ actor' = [actor EXCEPT ![l] = None]
    /\ mine' = [mine EXCEPT ![l] = 0]
    /\ UNCHANGED <<status, awaited, closed, tick, lastStart, lastAction>>

\* close, at server shutdown: only the registered task is cancelled.  The
\* server has answered its requests before it shuts the application down.
Close ==
    /\ ~closed
    /\ \A r \in Req : Idle(r)
    /\ closed' = TRUE
    /\ task' = None
    /\ cancelled' = IF TaskAlive THEN cancelled \cup {task} ELSE cancelled
    /\ UNCHANGED <<status, tickVars, pc, awaited>>

-----------------------------------------------------------------------------
Call(r) == Create(r) \/ Start(r) \/ Pause(r) \/ Stop(r) \/ Tick(r)

Continue(r) ==
    \/ StartAfterEnsure(r) \/ StartAfterEmit(r)
    \/ StopCancel(r) \/ StopReturn(r)

InTickStep(p) ==
    Acquire(p) \/ Decide(p) \/ Resolve(p) \/ FailTick(p) \/ FinishTick(p)

LoopStep(l) == LoopTick(l) \/ LoopReturn(l) \/ LoopCancelled(l)

Next ==
    \/ \E r \in Req : Call(r) \/ Continue(r)
    \/ \E p \in Proc : InTickStep(p)
    \/ \E l \in Loop : LoopStep(l)
    \/ Close

Spec == Init /\ [][Next]_vars

\* The event loop runs every ready coroutine, the lock is FIFO, emits and
\* decisions end (or fail): every suspended process goes on.  Nobody has to
\* call anything.
Fairness ==
    /\ \A r \in Req : WF_vars(Continue(r))
    /\ \A p \in Proc : WF_vars(InTickStep(p))
    /\ \A l \in Loop : WF_vars(LoopStep(l))

FairSpec == Spec /\ Fairness

-----------------------------------------------------------------------------
(* Safety *)

\* The processes inside run_tick's critical section.
InTick(p) == pc[p] \in TickPc

\* Manual ticks and the ticks of any number of loops never overlap, so a
\* simulation has at most one LLM decision under way (README: "asyncio.Lock",
\* "no simultaneous LLM requests"); the lock's owner is that one process.
TickMutex ==
    \A p \in Proc : InTick(p) <=> lock = p

\* From TICK_STARTED to the action's event a tick sees only itself: every
\* event of run_tick is labelled state.world.tick at the moment of its emit,
\* and that is still the number the tick itself advanced to; the agent that
\* acts is the one whose turn that tick is.
TickIsolated ==
    \A p \in Proc : InTick(p) =>
        /\ mine[p] = tick
        /\ lastStart = tick
        /\ pc[p] # "started" => actor[p] = Turn(mine[p])

\* The registered task is a live one that nobody has cancelled: the
\* auto_tick_active flag of a snapshot is the truth.
RegisteredTaskLives ==
    task # None => /\ Alive(task)
                   /\ task \notin cancelled

\* A RUNNING simulation has a registered loop, or a start call that is going
\* to create one: whatever start, pause and stop calls interleave at their
\* emits, time does not silently stand still.
RunningIsDriven ==
    status = "RUNNING" =>
        \/ task # None
        \/ \E r \in Req : pc[r] = "startDead"
        \/ closed

\* Stale task_alive values multiply loops, but never beyond the number of
\* requests that can be under way at once.
LoopsBoundedByRequests ==
    Cardinality({l \in Loop : Alive(l)}) <= Cardinality(Req)

-----------------------------------------------------------------------------
(* Action properties *)

\* Each tick publishes at most one action event, and the labels of the action
\* events only grow.
ActionTicksGrow ==
    [][\A p \in Proc : (pc[p] = "deciding" /\ pc'[p] = "acted")
                          => lastAction' > lastAction]_vars

\* p is ahead of o in the lock's queue.
Before(p, o) ==
    \E i, j \in DOMAIN waiters : i < j /\ waiters[i] = p /\ waiters[j] = o

\* Ticks are performed in the order in which they were asked for: nobody gets
\* ahead of a process that waits, except of one that is cancelled.
NobodyOvertakes ==
    [][\A p, o \in Proc : pc[p] = "waiting" /\ pc'[p] = "waiting" =>
          /\ Before(p, o) => Before(p, o)' \/ pc'[o] = "off"
          /\ ~InTick(o) /\ InTick(o)' => p \in cancelled \/ Before(o, p)]_vars

\* _run_loop reads RUNNING and may then wait for the lock, so an auto tick can
\* begin after a pause or a stop; but only one for each loop that waited
\* already: while the simulation is not RUNNING, no loop joins the queue and
\* none begins a tick without having waited, new loops of a start call that
\* the pause overtook included.
LateAutoTicksWereQueued ==
    [][\A l \in Loop : status # "RUNNING" =>
          /\ pc'[l] = "waiting" => pc[l] = "waiting"
          /\ ~InTick(l) /\ InTick(l)' => pc[l] = "waiting"]_vars

-----------------------------------------------------------------------------
(* Liveness, under FairSpec *)

Quiet ==
    /\ task = None /\ lock = None
    /\ \A l \in Loop : ~Alive(l)

\* A stopped simulation comes to rest for good: the loops no registry knows,
\* and a task that a late start call creates, end as well.
StopQuiesces == status = "STOPPED" ~> []Quiet

\* A RUNNING simulation ticks on: failed decisions, manual ticks and queued
\* waiters never stall it.
RunningTicks ==
    \A t \in 0 .. (MaxTick - 1) :
        (status = "RUNNING" /\ tick = t) ~>
            (tick > t \/ status # "RUNNING" \/ closed)

\* Every call ends: a queued manual tick gets the lock, and stop's gather is
\* not left waiting.
CallsEnd == \A r \in Req : ~Idle(r) ~> Idle(r)

-----------------------------------------------------------------------------
(* What the documents say and the code does not do: TLC refutes each.      *)

\* simulation_manager.py:177: "Stopped simulation cannot advance."
StoppedNeverAdvances ==
    [][status = "STOPPED" => tick' = tick]_tick

\* README:623: the auto-tick task runs inside the one web server process, so
\* that only several workers could run one session twice.
OneAutoLoop ==
    Cardinality({l \in Loop : Alive(l) /\ l \notin cancelled}) <= 1

-----------------------------------------------------------------------------
(* Refinement *)

Session == INSTANCE SimulationSession WITH
    Caller   <- Proc,
    admitted <- {p \in Proc : pc[p] = "waiting"}

\* The manager keeps the promises of a session: STOPPED is final, the counter
\* moves one by one, and after a stop only by ticks that were queued before it.
ImplementsSession == Session!Spec
=============================================================================
