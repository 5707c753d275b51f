------------------------ MODULE SimulationManagerProofs ------------------------
(***************************************************************************)
(* Theorems about SimulationManager, for every set of requests and tasks,  *)
(* every number of agents and every bound.                                 *)
(***************************************************************************)
EXTENDS SimulationManager, FiniteSetTheorems, SequenceTheorems, TLAPS

USE ProcessesAreDistinct, NAgentsAssumption
    DEF Proc, taskVars, tickVars, Goto

\* What leaving the lock's queue returns is again a queue.
LEMMA LeaveType ==
    ASSUME NEW S, NEW s \in Seq(S), NEW e
    PROVE  Leave(s, e) \in Seq(S)
<1>1. CASE e \notin ToSet(s)
  BY <1>1 DEF Leave
<1>2. CASE e \in ToSet(s)
  <2> DEFINE i == CHOOSE j \in DOMAIN s : s[j] = e
  <2>1. i \in 1 .. Len(s)
    BY <1>2 DEF ToSet
  <2>2. /\ SubSeq(s, 1, i - 1) \in Seq(S)
        /\ SubSeq(s, i + 1, Len(s)) \in Seq(S)
    <3>1. \A j \in 1 .. Len(s) : s[j] \in S
      BY ElementOfSeq
    <3>2. \A j \in 1 .. (i - 1) : s[j] \in S
      BY <2>1, <3>1
    <3>3. \A j \in (i + 1) .. Len(s) : s[j] \in S
      BY <2>1, <3>1
    <3>4. QED
      BY <2>1, <3>2, <3>3, SubSeqProperties, LenProperties
  <2>3. RemoveAt(s, i) \in Seq(S)
    BY <2>2, ConcatProperties DEF RemoveAt
  <2>4. QED
    BY <1>2, <2>3 DEF Leave
<1>3. QED
  BY <1>1, <1>2

-----------------------------------------------------------------------------

LEMMA InitType == Init => TypeOK
<1> SUFFICES ASSUME Init PROVE TypeOK
  OBVIOUS
<1> USE DEF Init
<1>1. /\ pc \in [Proc -> ReqPc \cup LoopPc]
      /\ \A r \in Req : pc[r] \in ReqPc
      /\ \A l \in Loop : pc[l] \in LoopPc
  BY DEF ReqPc, LoopPc, TickPc
<1>2. lastStart \in Nat /\ lastAction \in Nat
  BY DEF Status
<1>3. waiters \in Seq(Proc)
  BY EmptySeq
<1>4. /\ actor \in [Proc -> Agent \cup {None}]
      /\ mine \in [Proc -> Nat]
      /\ awaited \in [Req -> Loop \cup {None}]
  OBVIOUS
<1>5. QED
  BY <1>1, <1>2, <1>3, <1>4 DEF TypeOK, Status

LEMMA NextType == TypeOK /\ [Next]_vars => TypeOK'
<1> SUFFICES ASSUME TypeOK, [Next]_vars PROVE TypeOK'
  OBVIOUS
<1> USE DEF TypeOK, Status, ReqPc, LoopPc, TickPc
<1>1. ASSUME NEW r \in Req, Create(r) PROVE TypeOK'
  BY <1>1 DEF Create
<1>2. ASSUME NEW r \in Req, StartBody(r),
             UNCHANGED <<tickVars, cancelled, awaited, closed>>
      PROVE  TypeOK'
  BY <1>2 DEF StartBody, CreateTask
<1>3. ASSUME NEW r \in Req, Start(r) PROVE TypeOK'
  BY <1>2, <1>3 DEF Start
<1>4. ASSUME NEW r \in Req, StartAfterEnsure(r) PROVE TypeOK'
  BY <1>2, <1>4 DEF StartAfterEnsure
<1>5. ASSUME NEW r \in Req, StartAfterEmit(r) PROVE TypeOK'
  BY <1>5 DEF StartAfterEmit, CreateTask
<1>6. ASSUME NEW r \in Req, Pause(r) PROVE TypeOK'
  <2>1. CASE status = "RUNNING"
    BY <1>6, <2>1 DEF Pause
  <2>2. CASE status # "RUNNING"
    BY <1>6, <2>2 DEF Pause
  <2>3. QED
    BY <2>1, <2>2
<1>7. ASSUME NEW r \in Req, Stop(r) PROVE TypeOK'
  BY <1>7 DEF Stop
<1>8. ASSUME NEW r \in Req, StopCancel(r) PROVE TypeOK'
  <2>1. CASE TaskAlive
    <3>1. task \in Loop
      BY <2>1 DEF TaskAlive
    <3>2. /\ pc' = [pc EXCEPT ![r] = "joining"]
          /\ cancelled' = cancelled \cup {task}
          /\ awaited' = [awaited EXCEPT ![r] = task]
          /\ task' = None
          /\ UNCHANGED <<status, tickVars, closed>>
      BY <1>8, <2>1 DEF StopCancel
    <3>3. QED
      BY <3>1, <3>2
  <2>2. CASE ~TaskAlive
    BY <1>8, <2>2 DEF StopCancel
  <2>3. QED
    BY <2>1, <2>2
<1>9. ASSUME NEW r \in Req, StopReturn(r) PROVE TypeOK'
  BY <1>9 DEF StopReturn
<1>10. ASSUME NEW p \in Proc, Advance(p), waiters' \in Seq(Proc) PROVE TypeOK'
  <2>1. /\ pc' \in [Proc -> ReqPc \cup LoopPc]
        /\ \A r \in Req : pc'[r] \in ReqPc
        /\ \A l \in Loop : pc'[l] \in LoopPc
    BY <1>10 DEF Advance
  <2>2. /\ tick' \in Nat /\ lastStart' \in Nat
        /\ mine' \in [Proc -> Nat]
    BY <1>10 DEF Advance
  <2>3. QED
    BY <1>10, <2>1, <2>2 DEF Advance
<1>11. ASSUME NEW p \in Proc, EnterTick(p) PROVE TypeOK'
  <2>1. CASE AcquireNow(p)
    <3>1. waiters' \in Seq(Proc)
      BY <2>1 DEF AcquireNow
    <3>2. QED
      BY <1>10, <2>1, <3>1 DEF AcquireNow
  <2>2. CASE Enqueue(p)
    <3>1. Append(waiters, p) \in Seq(Proc)
      BY AppendProperties
    <3>2. QED
      BY <2>2, <3>1 DEF Enqueue
  <2>3. QED
    BY <1>11, <2>1, <2>2 DEF EnterTick
<1>12. ASSUME NEW r \in Req, Tick(r) PROVE TypeOK'
  BY <1>11, <1>12 DEF Tick
<1>13. ASSUME NEW p \in Proc, Acquire(p) PROVE TypeOK'
  <2>1. Tail(waiters) \in Seq(Proc)
    BY <1>13, HeadTailProperties DEF Acquire
  <2>2. QED
    BY <1>10, <1>13, <2>1 DEF Acquire
<1>14. ASSUME NEW p \in Proc, Decide(p) PROVE TypeOK'
  <2>1. Turn(tick) \in Agent
    BY DEF Turn, Agent
  <2>2. QED
    BY <1>14, <2>1 DEF Decide
<1>15. ASSUME NEW p \in Proc, Resolve(p) PROVE TypeOK'
  BY <1>15 DEF Resolve
<1>16. ASSUME NEW p \in Proc, FinishTick(p) PROVE TypeOK'
  BY <1>16 DEF FinishTick, LeaveTick, AfterTick
<1>17. ASSUME NEW p \in Proc, FailTick(p) PROVE TypeOK'
  BY <1>17 DEF FailTick, LeaveTick
<1>18. ASSUME NEW l \in Loop, LoopTick(l) PROVE TypeOK'
  BY <1>11, <1>18 DEF LoopTick
<1>19. ASSUME NEW l \in Loop, LoopReturn(l) PROVE TypeOK'
  BY <1>19 DEF LoopReturn, Exit
<1>20. ASSUME NEW l \in Loop, LoopCancelled(l) PROVE TypeOK'
  <2>1. waiters' \in Seq(Proc)
    BY <1>20, LeaveType DEF LoopCancelled
  <2>2. QED
    BY <1>20, <2>1 DEF LoopCancelled, Exit
<1>21. CASE Close
  BY <1>21 DEF Close, TaskAlive
<1>22. CASE UNCHANGED vars
  BY <1>22 DEF vars
<1>23. QED
  BY <1>1, <1>3, <1>4, <1>5, <1>6, <1>7, <1>8, <1>9, <1>12, <1>13, <1>14,
     <1>15, <1>16, <1>17, <1>18, <1>19, <1>20, <1>21, <1>22
     DEF Next, Call, Continue, InTickStep, LoopStep

\* Every variable keeps its type, so in particular choose_actor never indexes
\* past the agent list.
THEOREM TypeCorrect == Spec => []TypeOK
<1>1. QED
  BY InitType, NextType, PTL DEF Spec

-----------------------------------------------------------------------------
(* The critical section *)

\* While a tick has not acted, no action event carries its number.
NotYetActed ==
    \A p \in Proc : pc[p] \in {"started", "deciding"} => lastAction < tick

\* No event is labelled with a tick the world has not reached.
LabelInv == lastAction <= lastStart /\ lastStart = tick

\* TickMutex alone is not inductive enough for the labels: that the newest
\* labels never pass the world's tick is what makes a new tick's label new.
TickInv == TickMutex /\ TickIsolated /\ LabelInv /\ NotYetActed

\* A step outside the critical section: nobody enters or leaves it.
OutsideTick ==
    /\ \A p \in Proc : pc'[p] # pc[p] => pc[p] \notin TickPc /\ pc'[p] \notin TickPc
    /\ UNCHANGED <<tick, lock, actor, mine, lastStart, lastAction>>

LEMMA OutsideTickKeepsTickInv ==
    ASSUME TypeOK, TickInv, OutsideTick
    PROVE  TickInv'
<1> USE DEF TickInv, OutsideTick, InTick, TickPc
<1>1. TickMutex'
  BY DEF TickMutex
<1>2. TickIsolated'
  BY DEF TickIsolated
<1>3. LabelInv'
  BY DEF LabelInv
<1>4. NotYetActed'
  BY DEF NotYetActed
<1>5. QED
  BY <1>1, <1>2, <1>3, <1>4

\* Every request step but a tick's is outside the critical section.
LEMMA RequestsAreOutside ==
    ASSUME TypeOK, NEW r \in Req,
           Create(r) \/ Start(r) \/ Pause(r) \/ Stop(r) \/ Continue(r)
    PROVE  OutsideTick
<1> USE DEF TypeOK, OutsideTick, Free, Idle, TickPc
<1>1. ASSUME pc[r] \notin TickPc, StartBody(r),
             UNCHANGED <<tickVars, cancelled, awaited, closed>>
      PROVE  OutsideTick
  BY <1>1 DEF StartBody, CreateTask
<1>2. CASE Create(r)
  BY <1>2 DEF Create
<1>3. CASE Start(r)
  BY <1>1, <1>3 DEF Start
<1>4. CASE Pause(r)
  BY <1>4 DEF Pause
<1>5. CASE Stop(r)
  BY <1>5 DEF Stop
<1>6. CASE StartAfterEnsure(r)
  BY <1>1, <1>6 DEF StartAfterEnsure
<1>7. CASE StartAfterEmit(r)
  BY <1>7 DEF StartAfterEmit, CreateTask
<1>8. CASE StopCancel(r)
  BY <1>8 DEF StopCancel
<1>9. CASE StopReturn(r)
  BY <1>9 DEF StopReturn
<1>10. QED
  BY <1>2, <1>3, <1>4, <1>5, <1>6, <1>7, <1>8, <1>9 DEF Continue

LEMMA InitTickInv == Init => TickInv
BY DEF Init, TickInv, TickMutex, TickIsolated, LabelInv, NotYetActed,
       InTick, TickPc

LEMMA NextTickInv == TypeOK /\ TickInv /\ [Next]_vars => TickInv'
<1> SUFFICES ASSUME TypeOK, TickInv, [Next]_vars PROVE TickInv'
  OBVIOUS
<1> USE DEF InTick, TickPc
<1>1. ASSUME NEW p \in Proc, pc[p] \notin TickPc, lock = None, Advance(p)
      PROVE  TickInv'
  <2> USE <1>1 DEF Advance
  <2>1. /\ pc' = [pc EXCEPT ![p] = "started"]
        /\ \A q \in Proc : q # p => pc'[q] = pc[q] /\ pc[q] \notin TickPc
    BY DEF TypeOK, TickInv, TickMutex
  <2>2. TickMutex'
    BY <2>1 DEF TypeOK, TickMutex
  <2>3. TickIsolated'
    BY <2>1 DEF TypeOK, TickIsolated
  <2>4. LabelInv' /\ lastAction' < tick'
    BY DEF TypeOK, TickInv, LabelInv
  <2>5. NotYetActed'
    BY <2>4 DEF NotYetActed
  <2>6. QED
    BY <2>2, <2>3, <2>4, <2>5 DEF TickInv
<1>2. ASSUME NEW p \in Proc, pc[p] \notin TickPc, EnterTick(p)
      PROVE  TickInv'
  <2>1. CASE AcquireNow(p)
    BY <1>1, <1>2, <2>1 DEF AcquireNow
  <2>2. CASE Enqueue(p)
    BY <1>2, <2>2, OutsideTickKeepsTickInv DEF Enqueue, OutsideTick, TypeOK
  <2>3. QED
    BY <1>2, <2>1, <2>2 DEF EnterTick
<1>3. ASSUME NEW r \in Req, Tick(r) PROVE TickInv'
  <2>1. pc[r] \notin TickPc
    BY <1>3 DEF Tick, Free, Idle
  <2>2. CASE status \in {"NONE", "STOPPED"}
    BY <1>3, <2>1, <2>2, OutsideTickKeepsTickInv DEF Tick, OutsideTick, TypeOK
  <2>3. CASE status \notin {"NONE", "STOPPED"}
    BY <1>2, <1>3, <2>1, <2>3 DEF Tick
  <2>4. QED
    BY <2>2, <2>3
<1>4. ASSUME NEW p \in Proc, Acquire(p) PROVE TickInv'
  BY <1>1, <1>4 DEF Acquire
<1>5. ASSUME NEW p \in Proc, Decide(p) PROVE TickInv'
  <2> USE <1>5 DEF Decide, TypeOK, TickInv
  <2>1. TickMutex'
    BY DEF TickMutex
  <2>2. TickIsolated'
    BY DEF TickIsolated
  <2>3. LabelInv' /\ NotYetActed'
    BY DEF LabelInv, NotYetActed
  <2>4. QED
    BY <2>1, <2>2, <2>3
<1>6. ASSUME NEW p \in Proc, Resolve(p) PROVE TickInv'
  <2> USE <1>6 DEF Resolve, TypeOK, TickInv
  <2>1. TickMutex'
    BY DEF TickMutex
  <2>2. TickIsolated'
    BY DEF TickIsolated
  <2>3. LabelInv'
    BY DEF LabelInv
  <2>4. NotYetActed'
    BY DEF TickMutex, NotYetActed
  <2>5. QED
    BY <2>1, <2>2, <2>3, <2>4
<1>7. ASSUME NEW p \in Proc, NEW label, label \notin TickPc,
             pc[p] \in TickPc, LeaveTick(p, label)
      PROVE  TickInv'
  <2> USE <1>7 DEF LeaveTick, TypeOK, TickInv
  <2>1. \A q \in Proc : pc'[q] \notin TickPc
    BY DEF TickMutex
  <2>2. TickMutex' /\ TickIsolated' /\ NotYetActed'
    BY <2>1 DEF TickMutex, TickIsolated, NotYetActed
  <2>3. LabelInv'
    BY DEF LabelInv
  <2>4. QED
    BY <2>2, <2>3
<1>8. ASSUME NEW p \in Proc, FinishTick(p) \/ FailTick(p) PROVE TickInv'
  BY <1>7, <1>8 DEF FinishTick, FailTick, AfterTick
<1>9. ASSUME NEW l \in Loop, LoopTick(l) PROVE TickInv'
  BY <1>2, <1>9 DEF LoopTick
<1>10. ASSUME NEW l \in Loop, LoopReturn(l) PROVE TickInv'
  BY <1>10, OutsideTickKeepsTickInv DEF LoopReturn, Exit, OutsideTick, TypeOK
<1>11. ASSUME NEW l \in Loop, LoopCancelled(l) PROVE TickInv'
  <2> USE <1>11 DEF LoopCancelled, Exit, TypeOK, TickInv
  <2>1. TickMutex'
    BY DEF TickMutex
  <2>2. TickIsolated'
    BY DEF TickIsolated
  <2>3. LabelInv' /\ NotYetActed'
    BY DEF LabelInv, NotYetActed
  <2>4. QED
    BY <2>1, <2>2, <2>3
<1>12. CASE Close
  BY <1>12, OutsideTickKeepsTickInv DEF Close, OutsideTick
<1>13. CASE UNCHANGED vars
  BY <1>13, OutsideTickKeepsTickInv DEF vars, OutsideTick
<1>14. QED
  BY <1>3, <1>4, <1>5, <1>6, <1>8, <1>9, <1>10, <1>11, <1>12, <1>13,
     RequestsAreOutside, OutsideTickKeepsTickInv
     DEF Next, Call, InTickStep, LoopStep

\* The critical section's invariant, from which the next three theorems follow.
THEOREM TickInvariant == Spec => []TickInv
<1>1. QED
  BY InitType, NextType, InitTickInv, NextTickInv, PTL DEF Spec

\* No two ticks of a simulation overlap, whoever asks for them: one LLM
\* decision at a time, for any number of requests and duplicate loops.
THEOREM MutualExclusion == Spec => []TickMutex
<1>1. TickInv => TickMutex
  BY DEF TickInv
<1>2. QED
  BY <1>1, TickInvariant, PTL

\* All events of a tick carry its number, and its actor is the one whose turn
\* the number says.
THEOREM Isolation == Spec => []TickIsolated
<1>1. TickInv => TickIsolated
  BY DEF TickInv
<1>2. QED
  BY <1>1, TickInvariant, PTL

\* A process starts to publish its action only by Resolve.
LEMMA OnlyResolveActs ==
    ASSUME TypeOK, Next, NEW p \in Proc, pc[p] = "deciding", pc'[p] = "acted"
    PROVE  Resolve(p)
<1> USE DEF TypeOK, TickPc
<1>1. ASSUME OutsideTick PROVE FALSE
  BY <1>1 DEF OutsideTick
<1>2. ASSUME NEW q \in Proc, pc[q] \notin TickPc, EnterTick(q) PROVE FALSE
  BY <1>2 DEF EnterTick, AcquireNow, Advance, Enqueue
<1>3. ASSUME NEW r \in Req, Tick(r) PROVE FALSE
  BY <1>2, <1>3 DEF Tick, Free, Idle
<1>4. ASSUME NEW q \in Proc, InTickStep(q) PROVE Resolve(p)
  <2>1. CASE Acquire(q)
    BY <2>1 DEF Acquire, Advance
  <2>2. CASE Decide(q)
    BY <2>2 DEF Decide
  <2>3. CASE Resolve(q)
    BY <2>3 DEF Resolve
  <2>4. CASE FailTick(q) \/ FinishTick(q)
    BY <2>4 DEF FailTick, FinishTick, LeaveTick, AfterTick
  <2>5. QED
    BY <1>4, <2>1, <2>2, <2>3, <2>4 DEF InTickStep
<1>5. ASSUME NEW l \in Loop, LoopStep(l) PROVE FALSE
  BY <1>2, <1>5 DEF LoopStep, LoopTick, LoopReturn, LoopCancelled, Exit
<1>6. ASSUME Close PROVE FALSE
  BY <1>6 DEF Close
<1>7. QED
  BY <1>1, <1>3, <1>4, <1>5, <1>6, RequestsAreOutside DEF Next, Call

\* Every tick publishes at most one action event, in the order of the ticks.
THEOREM ActionsInTickOrder == Spec => ActionTicksGrow
<1>1. TypeOK /\ TickInv /\ [Next]_vars =>
        [\A p \in Proc : (pc[p] = "deciding" /\ pc'[p] = "acted")
                            => lastAction' > lastAction]_vars
  <2> SUFFICES ASSUME TypeOK, TickInv, Next, NEW p \in Proc,
                      pc[p] = "deciding", pc'[p] = "acted"
               PROVE  lastAction' > lastAction
    OBVIOUS
  <2>1. Resolve(p)
    BY OnlyResolveActs
  <2>2. lastAction < tick /\ lastAction' = tick
    BY <2>1 DEF Resolve, TickInv, NotYetActed
  <2>3. QED
    BY <2>2 DEF TypeOK
<1>2. QED
  BY <1>1, TypeCorrect, TickInvariant, PTL DEF Spec, ActionTicksGrow

-----------------------------------------------------------------------------
(* The task registry *)

\* A cancelled task has not ended yet, and a stop call that has not reached
\* its tasks.pop works on a stopped simulation.
StopInProgress ==
    /\ \A l \in cancelled : Alive(l)
    /\ \A r \in Req : pc[r] = "stopping" => status = "STOPPED"

\* RunningIsDriven is not inductive: a registered task could be one that is
\* about to end, and a stop could unregister the task of a RUNNING simulation.
RegistryInv == RegisteredTaskLives /\ RunningIsDriven /\ StopInProgress

LEMMA InitRegistryInv == Init => RegistryInv
BY DEF Init, RegistryInv, RegisteredTaskLives, RunningIsDriven, StopInProgress

\* A step of the processes that neither creates nor ends a task, nor changes
\* the status or what the start and stop calls are about to do.
AwayFromRegistry ==
    /\ UNCHANGED <<status, taskVars>>
    /\ \A l \in Loop : pc[l] # "off" => pc'[l] # "off"
    /\ \A r \in Req : /\ pc[r] = "startDead" => pc'[r] = "startDead"
                      /\ pc'[r] = "stopping" => pc[r] = "stopping"

LEMMA AwayKeepsRegistryInv ==
    ASSUME TypeOK, RegistryInv, AwayFromRegistry
    PROVE  RegistryInv'
BY DEF TypeOK, AwayFromRegistry, RegistryInv, RegisteredTaskLives,
       RunningIsDriven, StopInProgress, Alive

LEMMA TicksAreAway ==
    ASSUME TypeOK, NEW p \in Proc, pc[p] # "startDead",
           EnterTick(p) \/ InTickStep(p)
    PROVE  AwayFromRegistry
<1> USE DEF TypeOK, AwayFromRegistry
<1>1. CASE EnterTick(p)
  BY <1>1 DEF EnterTick, AcquireNow, Advance, Enqueue
<1>2. CASE Acquire(p)
  BY <1>2 DEF Acquire, Advance
<1>3. CASE Decide(p)
  BY <1>3 DEF Decide
<1>4. CASE Resolve(p)
  BY <1>4 DEF Resolve
<1>5. CASE FailTick(p) \/ FinishTick(p)
  BY <1>5 DEF FailTick, FinishTick, LeaveTick, AfterTick
<1>6. QED
  BY <1>1, <1>2, <1>3, <1>4, <1>5 DEF InTickStep

LEMMA NextRegistryInv == TypeOK /\ RegistryInv /\ [Next]_vars => RegistryInv'
<1> SUFFICES ASSUME TypeOK, RegistryInv, [Next]_vars PROVE RegistryInv'
  OBVIOUS
<1> USE DEF TypeOK, Alive
<1>1. ASSUME NEW r \in Req, pc[r] # "startDead", pc[r] # "stopping",
             StartBody(r), UNCHANGED <<tickVars, cancelled, awaited, closed>>
      PROVE  RegistryInv'
  <2> USE <1>1 DEF StartBody, CreateTask, TaskAlive
  <2>1. RegisteredTaskLives'
    BY DEF RegistryInv, RegisteredTaskLives, StopInProgress
  <2>2. RunningIsDriven'
    BY DEF RegistryInv, RegisteredTaskLives, RunningIsDriven
  <2>3. StopInProgress'
    BY DEF RegistryInv, StopInProgress
  <2>4. QED
    BY <2>1, <2>2, <2>3 DEF RegistryInv
<1>2. ASSUME NEW r \in Req, Create(r) PROVE RegistryInv'
  BY <1>2 DEF Create, Free, Idle, RegistryInv, RegisteredTaskLives,
              RunningIsDriven, StopInProgress
<1>3. ASSUME NEW r \in Req, Start(r) PROVE RegistryInv'
  <2>1. CASE status = "NONE"
    BY <1>3, <2>1 DEF Start, StartBody, Free, Idle, RegistryInv,
              RegisteredTaskLives, RunningIsDriven, StopInProgress
  <2>2. CASE status # "NONE"
    BY <1>1, <1>3, <2>2 DEF Start, Free, Idle
  <2>3. QED
    BY <2>1, <2>2
<1>4. ASSUME NEW r \in Req, StartAfterEnsure(r) PROVE RegistryInv'
  BY <1>1, <1>4 DEF StartAfterEnsure
<1>5. ASSUME NEW r \in Req, StartAfterEmit(r) PROVE RegistryInv'
  <2> USE <1>5 DEF StartAfterEmit, CreateTask, RegistryInv
  <2>1. RegisteredTaskLives'
    BY DEF RegisteredTaskLives, StopInProgress
  <2>2. RunningIsDriven'
    BY DEF RunningIsDriven
  <2>3. StopInProgress'
    BY DEF StopInProgress
  <2>4. QED
    BY <2>1, <2>2, <2>3
<1>6. ASSUME NEW r \in Req, Pause(r) PROVE RegistryInv'
  <2> USE <1>6 DEF Pause, Free, Idle, RegistryInv
  <2>1. RegisteredTaskLives'
    BY DEF RegisteredTaskLives
  <2>2. RunningIsDriven'
    BY DEF RunningIsDriven
  <2>3. StopInProgress'
    BY DEF StopInProgress
  <2>4. QED
    BY <2>1, <2>2, <2>3
<1>7. ASSUME NEW r \in Req, Stop(r) PROVE RegistryInv'
  <2> USE <1>7 DEF Stop, Free, Idle, RegistryInv
  <2>1. RegisteredTaskLives'
    BY DEF RegisteredTaskLives
  <2>2. RunningIsDriven'
    BY DEF RunningIsDriven
  <2>3. StopInProgress'
    BY DEF StopInProgress
  <2>4. QED
    BY <2>1, <2>2, <2>3
<1>8. ASSUME NEW r \in Req, StopCancel(r) PROVE RegistryInv'
  <2> USE <1>8 DEF StopCancel, TaskAlive, RegistryInv
  <2>1. RegisteredTaskLives' /\ RunningIsDriven'
    BY DEF RegisteredTaskLives, RunningIsDriven, StopInProgress
  <2>2. StopInProgress'
    BY DEF StopInProgress
  <2>3. QED
    BY <2>1, <2>2
<1>9. ASSUME NEW r \in Req, StopReturn(r) PROVE RegistryInv'
  BY <1>9 DEF StopReturn, RegistryInv, RegisteredTaskLives,
              RunningIsDriven, StopInProgress
<1>10. ASSUME NEW r \in Req, Tick(r) PROVE RegistryInv'
  <2>1. pc[r] \in {"idle", "refused"}
    BY <1>10 DEF Tick, Free, Idle
  <2>2. CASE status \in {"NONE", "STOPPED"}
    BY <1>10, <2>1, <2>2, AwayKeepsRegistryInv DEF Tick, AwayFromRegistry
  <2>3. CASE status \notin {"NONE", "STOPPED"}
    BY <1>10, <2>1, <2>3, AwayKeepsRegistryInv, TicksAreAway DEF Tick
  <2>4. QED
    BY <2>2, <2>3
<1>11. ASSUME NEW p \in Proc, InTickStep(p) PROVE RegistryInv'
  <2>1. pc[p] # "startDead"
    BY <1>11 DEF InTickStep, Acquire, Decide, Resolve, FailTick, FinishTick
  <2>2. QED
    BY <1>11, <2>1, AwayKeepsRegistryInv, TicksAreAway
<1>12. ASSUME NEW l \in Loop, LoopTick(l) PROVE RegistryInv'
  BY <1>12, AwayKeepsRegistryInv, TicksAreAway DEF LoopTick
<1>13. ASSUME NEW l \in Loop, LoopReturn(l) PROVE RegistryInv'
  BY <1>13 DEF LoopReturn, Exit, RegistryInv, RegisteredTaskLives,
               RunningIsDriven, StopInProgress
<1>14. ASSUME NEW l \in Loop, LoopCancelled(l) PROVE RegistryInv'
  <2>1. task # l
    BY <1>14 DEF LoopCancelled, RegistryInv, RegisteredTaskLives
  <2>2. QED
    BY <1>14, <2>1 DEF LoopCancelled, Exit, RegistryInv, RegisteredTaskLives,
                       RunningIsDriven, StopInProgress
<1>15. CASE Close
  BY <1>15 DEF Close, TaskAlive, RegistryInv, RegisteredTaskLives,
               RunningIsDriven, StopInProgress
<1>16. CASE UNCHANGED vars
  BY <1>16, AwayKeepsRegistryInv DEF vars, AwayFromRegistry
<1>17. QED
  BY <1>2, <1>3, <1>4, <1>5, <1>6, <1>7, <1>8, <1>9, <1>10, <1>11, <1>12,
     <1>13, <1>14, <1>15, <1>16 DEF Next, Call, Continue, LoopStep

\* The registry's invariant, from which the next two theorems follow.
THEOREM RegistryInvariant == Spec => []RegistryInv
<1>1. QED
  BY InitType, NextType, InitRegistryInv, NextRegistryInv, PTL DEF Spec

\* A RUNNING simulation never stands still for want of a loop: one is
\* registered, or a start call is on its way to create one.
THEOREM RunningSimulationIsDriven == Spec => []RunningIsDriven
<1>1. RegistryInv => RunningIsDriven
  BY DEF RegistryInv
<1>2. QED
  BY <1>1, RegistryInvariant, PTL

\* The registered task is alive and not cancelled, so auto_tick_active is true
\* exactly when the simulation is RUNNING with a task in the registry.
THEOREM RegistryHoldsLiveTask == Spec => []RegisteredTaskLives
<1>1. RegistryInv => RegisteredTaskLives
  BY DEF RegistryInv
<1>2. QED
  BY <1>1, RegistryInvariant, PTL

-----------------------------------------------------------------------------
(* The number of loops *)

\* The loops there are, and the start calls that are going to add one.
Drivers == {l \in Loop : Alive(l)} \cup {r \in Req : pc[r] = "startDead"}

\* Loops begin while the simulation has no task, or with a task_alive that was
\* read then: all of them count against the requests of that time.
DriverInv ==
    /\ IsFiniteSet(Drivers) /\ Cardinality(Drivers) <= Cardinality(Req)
    /\ status \in {"NONE", "CREATED"} => Drivers = {}
    /\ task = None /\ status # "STOPPED" /\ ~closed => \A l \in Loop : ~Alive(l)
    /\ closed => \A r \in Req : Idle(r)

LEMMA FewerDrivers ==
    ASSUME DriverInv, Drivers' \subseteq Drivers
    PROVE  IsFiniteSet(Drivers') /\ Cardinality(Drivers') <= Cardinality(Req)
<1>1. /\ IsFiniteSet(Drivers') /\ Cardinality(Drivers') <= Cardinality(Drivers)
  BY FS_Subset DEF DriverInv
<1>2. /\ Cardinality(Drivers') \in Nat /\ Cardinality(Drivers) \in Nat
      /\ Cardinality(Req) \in Nat
  BY <1>1, FS_CardinalityType, RequestsAreFinite DEF DriverInv
<1>3. QED
  BY <1>1, <1>2 DEF DriverInv

\* A start call that gives its place to the loop it creates.
LEMMA DriverReplaced ==
    ASSUME NEW D, NEW E, IsFiniteSet(D), Cardinality(D) <= Cardinality(Req),
           NEW r \in D, NEW l, l \notin D, E \subseteq (D \ {r}) \cup {l}
    PROVE  IsFiniteSet(E) /\ Cardinality(E) <= Cardinality(Req)
<1> DEFINE F == D \ {r}
           G == F \cup {l}
<1>1. IsFiniteSet(F) /\ Cardinality(F) = Cardinality(D) - 1
  BY FS_RemoveElement
<1>2. l \notin F
  OBVIOUS
<1>3. IsFiniteSet(G) /\ Cardinality(G) = Cardinality(F) + 1
  <2> HIDE DEF F
  <2>1. QED
    BY <1>1, <1>2, FS_AddElement
<1>4. IsFiniteSet(E) /\ Cardinality(E) <= Cardinality(G)
  <2> HIDE DEF G
  <2>1. E \subseteq G
    BY DEF G
  <2>2. QED
    BY <1>3, <2>1, FS_Subset
<1> HIDE DEF F, G
<1>5. /\ Cardinality(E) \in Nat /\ Cardinality(D) \in Nat
      /\ Cardinality(Req) \in Nat
  BY <1>4, FS_CardinalityType, RequestsAreFinite
<1>6. QED
  BY <1>1, <1>3, <1>4, <1>5

\* Without a loop, and with one call that is not about to make one, there is
\* room for a loop.
LEMMA RoomForOne ==
    ASSUME NEW r \in Req, NEW l, NEW E, E \subseteq (Req \ {r}) \cup {l}, l \notin Req
    PROVE  IsFiniteSet(E) /\ Cardinality(E) <= Cardinality(Req)
<1>1. Cardinality(Req) \in Nat
  BY FS_CardinalityType, RequestsAreFinite
<1>2. QED
  BY <1>1, DriverReplaced, RequestsAreFinite

\* A step that adds no driver and leaves the status and the registry alone.
LEMMA AwayKeepsDriverInv ==
    ASSUME TypeOK, DriverInv, UNCHANGED <<status, task, closed>>,
           \A l \in Loop : pc'[l] # "off" => pc[l] # "off",
           \A r \in Req : pc'[r] = "startDead" => pc[r] = "startDead",
           closed => \A r \in Req : pc'[r] \in {"idle", "refused"}
    PROVE  DriverInv'
<1>1. Drivers' \subseteq Drivers
  BY DEF Drivers, Alive
<1>2. QED
  BY <1>1, FewerDrivers DEF DriverInv, Alive, Idle

LEMMA TicksKeepDriverInv ==
    ASSUME TypeOK, DriverInv, NEW p \in Proc, p \in Req => pc[p] # "startDead",
           (p \in Req => ~closed) \/ InTickStep(p),
           p \in Loop => pc[p] # "off",
           EnterTick(p) \/ InTickStep(p)
    PROVE  DriverInv'
<1> USE DEF TypeOK
<1>1. p \in Req => ~closed
  BY DEF DriverInv, Idle, InTickStep, Acquire, Decide, Resolve, FailTick, FinishTick
<1>2. /\ UNCHANGED <<status, task, closed>>
      /\ \E label \in {"started", "waiting", "deciding", "acted", "idle", "top", "refused"} :
            pc' = [pc EXCEPT ![p] = label]
  <2>1. CASE EnterTick(p)
    BY <2>1 DEF EnterTick, AcquireNow, Advance, Enqueue
  <2>2. CASE Acquire(p)
    BY <2>2 DEF Acquire, Advance
  <2>3. CASE Decide(p)
    BY <2>3 DEF Decide
  <2>4. CASE Resolve(p)
    BY <2>4 DEF Resolve
  <2>5. CASE FailTick(p) \/ FinishTick(p)
    BY <2>5 DEF FailTick, FinishTick, LeaveTick, AfterTick
  <2>6. QED
    BY <2>1, <2>2, <2>3, <2>4, <2>5 DEF InTickStep
<1>3. /\ \A l \in Loop : pc'[l] # "off" => pc[l] # "off"
      /\ \A r \in Req : pc'[r] = "startDead" => pc[r] = "startDead"
  BY <1>2
<1>4. closed => \A r \in Req : pc'[r] \in {"idle", "refused"}
  BY <1>1, <1>2 DEF DriverInv, Idle
<1>5. QED
  BY <1>2, <1>3, <1>4, AwayKeepsDriverInv

\* The body of start: it begins to make a loop only where there is none.
LEMMA StartKeepsDriverInv ==
    ASSUME TypeOK, RegistryInv, DriverInv, NEW r \in Req,
           ~closed, pc[r] # "startDead", status # "NONE",
           StartBody(r), UNCHANGED <<tickVars, cancelled, awaited, closed>>
    PROVE  DriverInv'
<1> USE DEF TypeOK, Alive
<1>1. ~TaskAlive => task = None
  BY DEF TaskAlive, RegistryInv, RegisteredTaskLives
<1>2. CASE /\ UNCHANGED <<status, task>>
           /\ Goto(r, "idle") \/ Goto(r, "refused")
  BY <1>2, AwayKeepsDriverInv
<1>3. CASE status = "RUNNING" /\ ~TaskAlive /\ CreateTask(r) /\ UNCHANGED status
  <2>1. PICK l \in Loop : /\ task' = l
                          /\ pc' = [pc EXCEPT ![r] = "idle", ![l] = "top"]
    BY <1>3 DEF CreateTask
  <2>2. \A k \in Loop : pc[k] = "off"
    BY <1>1, <1>3 DEF DriverInv
  <2>3. Drivers' \subseteq (Req \ {r}) \cup {l}
    BY <2>1, <2>2 DEF Drivers
  <2>4. IsFiniteSet(Drivers') /\ Cardinality(Drivers') <= Cardinality(Req)
    <3>1. l \notin Req
      OBVIOUS
    <3>2. QED
      BY ONLY <2>3, <3>1, RoomForOne, r \in Req
  <2>5. task' # None
    BY <2>1
  <2>6. QED
    BY <1>3, <2>4, <2>5 DEF DriverInv
<1>4. CASE /\ status \in {"CREATED", "PAUSED"} /\ status' = "RUNNING"
           /\ Goto(r, IF TaskAlive THEN "startLive" ELSE "startDead")
           /\ UNCHANGED task
  <2>1. CASE TaskAlive
    <3>1. Drivers' \subseteq Drivers
      BY <1>4, <2>1 DEF Drivers
    <3>2. task' # None
      BY <1>4, <2>1 DEF TaskAlive
    <3>3. QED
      BY <1>4, <3>1, <3>2, FewerDrivers DEF DriverInv
  <2>2. CASE ~TaskAlive
    <3>1. \A k \in Loop : pc[k] = "off"
      BY <1>1, <1>4, <2>2 DEF DriverInv
    <3>2. \A k \in Loop : pc'[k] = "off"
      BY <1>4, <2>2, <3>1
    <3>3. Drivers' \subseteq Req
      BY <3>2 DEF Drivers
    <3>4. IsFiniteSet(Drivers') /\ Cardinality(Drivers') <= Cardinality(Req)
      BY <3>3, FS_Subset, RequestsAreFinite
    <3>5. QED
      BY <1>4, <3>2, <3>4 DEF DriverInv
  <2>3. QED
    BY <2>1, <2>2
<1>5. QED
  BY <1>2, <1>3, <1>4 DEF StartBody

LEMMA NextDriverInv ==
    ASSUME TypeOK, RegistryInv, DriverInv, [Next]_vars
    PROVE  DriverInv'
<1> USE DEF TypeOK, Alive
<1>1. ASSUME NEW r \in Req, Create(r) PROVE DriverInv'
  <2>1. Drivers' \subseteq Drivers
    BY <1>1 DEF Create, Drivers
  <2>2. QED
    BY <1>1, <2>1, FewerDrivers DEF Create, Free, Idle, DriverInv
<1>2. ASSUME NEW r \in Req, Start(r) PROVE DriverInv'
  <2>1. CASE status = "NONE"
    <3>1. Drivers' \subseteq Drivers
      BY <1>2, <2>1 DEF Start, StartBody, Drivers
    <3>2. QED
      BY <1>2, <2>1, <3>1, FewerDrivers DEF Start, StartBody, Free, Idle, DriverInv
  <2>2. CASE status # "NONE"
    BY <1>2, <2>2, StartKeepsDriverInv DEF Start, Free, Idle
  <2>3. QED
    BY <2>1, <2>2
<1>3. ASSUME NEW r \in Req, StartAfterEnsure(r) PROVE DriverInv'
  <2>1. ~closed
    BY <1>3 DEF StartAfterEnsure, DriverInv, Idle
  <2>2. CASE status # "NONE"
    BY <1>3, <2>1, <2>2, StartKeepsDriverInv DEF StartAfterEnsure
  <2>3. CASE status = "NONE"
    BY <1>3, <2>3 DEF StartAfterEnsure, StartBody
  <2>4. QED
    BY <2>2, <2>3
<1>4. ASSUME NEW r \in Req, StartAfterEmit(r) PROVE DriverInv'
  <2>1. ~closed
    BY <1>4 DEF StartAfterEmit, DriverInv, Idle
  <2>2. CASE pc[r] = "startLive" /\ Goto(r, "idle") /\ UNCHANGED task
    BY <1>4, <2>1, <2>2, AwayKeepsDriverInv DEF StartAfterEmit
  <2>3. CASE pc[r] = "startDead" /\ CreateTask(r)
    <3>1. PICK l \in Loop : /\ pc[l] = "off" /\ task' = l
                            /\ pc' = [pc EXCEPT ![r] = "idle", ![l] = "top"]
      BY <2>3 DEF CreateTask
    <3>2. r \in Drivers /\ l \notin Drivers
      BY <2>3, <3>1 DEF Drivers
    <3>3. Drivers' \subseteq (Drivers \ {r}) \cup {l}
      BY <3>1 DEF Drivers
    <3>4. IsFiniteSet(Drivers') /\ Cardinality(Drivers') <= Cardinality(Req)
      <4>1. IsFiniteSet(Drivers) /\ Cardinality(Drivers) <= Cardinality(Req)
        BY DEF DriverInv
      <4>2. QED
        BY ONLY <3>2, <3>3, <4>1, DriverReplaced
    <3>5. status \notin {"NONE", "CREATED"} /\ task' # None
      BY <3>1, <3>2 DEF DriverInv
    <3>6. QED
      BY <1>4, <2>1, <3>4, <3>5 DEF StartAfterEmit, DriverInv
  <2>4. QED
    BY <1>4, <2>2, <2>3 DEF StartAfterEmit
<1>5. ASSUME NEW r \in Req, Pause(r) \/ Stop(r) PROVE DriverInv'
  <2>1. Drivers' \subseteq Drivers
    BY <1>5 DEF Pause, Stop, Drivers
  <2>2. IsFiniteSet(Drivers') /\ Cardinality(Drivers') <= Cardinality(Req)
    BY <2>1, FewerDrivers
  <2>3. QED
    BY <1>5, <2>1, <2>2 DEF Pause, Stop, Free, Idle, DriverInv
<1>6. ASSUME NEW r \in Req, StopCancel(r) PROVE DriverInv'
  <2>1. Drivers' \subseteq Drivers
    BY <1>6 DEF StopCancel, Drivers
  <2>2. status = "STOPPED" /\ ~closed
    BY <1>6 DEF StopCancel, RegistryInv, StopInProgress, DriverInv, Idle
  <2>3. QED
    BY <1>6, <2>1, <2>2, FewerDrivers DEF StopCancel, DriverInv
<1>7. ASSUME NEW r \in Req, StopReturn(r) PROVE DriverInv'
  BY <1>7, AwayKeepsDriverInv DEF StopReturn, DriverInv, Idle
<1>8. ASSUME NEW r \in Req, Tick(r) PROVE DriverInv'
  <2>1. ~closed /\ pc[r] \in {"idle", "refused"}
    BY <1>8 DEF Tick, Free, Idle
  <2>2. CASE status \in {"NONE", "STOPPED"}
    BY <1>8, <2>1, <2>2, AwayKeepsDriverInv DEF Tick
  <2>3. CASE EnterTick(r)
    BY <2>1, <2>3, TicksKeepDriverInv
  <2>4. QED
    BY <1>8, <2>2, <2>3 DEF Tick
<1>9. ASSUME NEW p \in Proc, InTickStep(p) PROVE DriverInv'
  <2>1. pc[p] \notin {"startDead", "off"}
    BY <1>9 DEF InTickStep, Acquire, Decide, Resolve, FailTick, FinishTick
  <2>2. QED
    BY <1>9, <2>1, TicksKeepDriverInv
<1>10. ASSUME NEW l \in Loop, LoopTick(l) PROVE DriverInv'
  BY <1>10, TicksKeepDriverInv DEF LoopTick
<1>11. ASSUME NEW l \in Loop, LoopReturn(l) \/ LoopCancelled(l) PROVE DriverInv'
  <2>1. pc' = [pc EXCEPT ![l] = "off"] /\ UNCHANGED <<status, closed>>
    BY <1>11 DEF LoopReturn, LoopCancelled, Exit
  <2>2. Drivers' \subseteq Drivers
    BY <2>1 DEF Drivers
  <2>3. \/ UNCHANGED task
        \/ status = "STOPPED" \/ status \in {"NONE", "CREATED"}
    <3>1. CASE LoopReturn(l)
      BY <3>1 DEF LoopReturn, Status
    <3>2. CASE LoopCancelled(l)
      BY <3>2 DEF LoopCancelled, Exit, RegistryInv, RegisteredTaskLives
    <3>3. QED
      BY <1>11, <3>1, <3>2
  <2>4. status \in {"NONE", "CREATED"} => \A k \in Loop : pc[k] = "off"
    BY DEF DriverInv, Drivers
  <2>5. QED
    BY <2>1, <2>2, <2>3, <2>4, FewerDrivers DEF DriverInv, Idle
<1>12. CASE Close
  <2>1. Drivers' = Drivers
    BY <1>12 DEF Close, Drivers
  <2>2. IsFiniteSet(Drivers') /\ Cardinality(Drivers') <= Cardinality(Req)
    BY <2>1 DEF DriverInv
  <2>3. QED
    BY <1>12, <2>1, <2>2 DEF Close, DriverInv, Idle
<1>13. CASE UNCHANGED vars
  BY <1>13, AwayKeepsDriverInv DEF vars, DriverInv, Idle
<1>14. QED
  BY <1>1, <1>2, <1>3, <1>4, <1>5, <1>6, <1>7, <1>8, <1>9, <1>10, <1>11, <1>12,
     <1>13 DEF Next, Call, Continue, LoopStep

\* There are never more loops than requests that can be under way at once,
\* however their emits interleave: a stale task_alive costs a second loop, but
\* no sequence of calls makes loops pile up.
THEOREM LoopsAreBounded == Spec => []LoopsBoundedByRequests
<1>1. Init => DriverInv
  <2> SUFFICES ASSUME Init PROVE DriverInv
    OBVIOUS
  <2>1. Drivers = {}
    BY DEF Init, Drivers, Alive
  <2>2. IsFiniteSet(Drivers) /\ Cardinality(Drivers) = 0 /\ Cardinality(Req) \in Nat
    BY <2>1, FS_EmptySet, FS_CardinalityType, RequestsAreFinite
  <2>3. QED
    BY <2>1, <2>2 DEF Init, DriverInv, Alive, Idle
<1>2. DriverInv => LoopsBoundedByRequests
  <2> SUFFICES ASSUME DriverInv PROVE LoopsBoundedByRequests
    OBVIOUS
  <2>1. {l \in Loop : Alive(l)} \subseteq Drivers
    BY DEF Drivers
  <2>2. /\ IsFiniteSet({l \in Loop : Alive(l)})
        /\ Cardinality({l \in Loop : Alive(l)}) <= Cardinality(Drivers)
    BY <2>1, FS_Subset DEF DriverInv
  <2>3. /\ Cardinality({l \in Loop : Alive(l)}) \in Nat
        /\ Cardinality(Drivers) \in Nat /\ Cardinality(Req) \in Nat
    BY <2>2, FS_CardinalityType, RequestsAreFinite DEF DriverInv
  <2>4. QED
    BY <2>2, <2>3 DEF DriverInv, LoopsBoundedByRequests
<1>3. TypeOK /\ RegistryInv /\ DriverInv /\ [Next]_vars => DriverInv'
  BY NextDriverInv
<1>4. QED
  BY <1>1, <1>2, <1>3, TypeCorrect, RegistryInvariant, PTL DEF Spec

-----------------------------------------------------------------------------
(* The manager implements the session *)

\* The refinement's waiting ticks.
Waiting == {p \in Proc : pc[p] = "waiting"}

\* A step that leaves the queue's members alone and changes the status in one
\* of the session's four ways, or not at all.
StatusStep ==
    /\ Waiting' = Waiting
    /\ tick' = tick
    /\ \/ status' = status
       \/ status = "NONE" /\ status' = "CREATED"
       \/ status \in {"CREATED", "PAUSED"} /\ status' = "RUNNING"
       \/ status = "RUNNING" /\ status' = "PAUSED"
       \/ status \in {"CREATED", "RUNNING", "PAUSED"} /\ status' = "STOPPED"

LEMMA StatusStepRefines ==
    ASSUME StatusStep
    PROVE  [Session!Next]_(Session!vars)
BY DEF StatusStep, Waiting, Session!Next, Session!vars, Session!CreateSession,
       Session!StartSession, Session!PauseSession, Session!StopSession,
       Session!ChangeStatus

\* A process that is suspended outside the queue before and after its step.
LEMMA QueueUntouched ==
    ASSUME TypeOK, NEW p \in Proc, NEW label, label # "waiting",
           pc[p] # "waiting", pc' = [pc EXCEPT ![p] = label]
    PROVE  Waiting' = Waiting
BY DEF TypeOK, Waiting

LEMMA RequestsRefine ==
    ASSUME TypeOK, NEW r \in Req,
           Create(r) \/ Start(r) \/ Pause(r) \/ Stop(r) \/ Continue(r)
    PROVE  StatusStep
<1> USE DEF TypeOK, Status, Waiting
<1>1. ASSUME pc[r] # "waiting", StartBody(r), tick' = tick
      PROVE  StatusStep
  BY <1>1 DEF StartBody, CreateTask, StatusStep
<1>2. CASE Create(r)
  BY <1>2 DEF Create, Free, Idle, StatusStep
<1>3. CASE Start(r)
  <2>1. CASE status = "NONE"
    BY <1>3, <2>1 DEF Start, StartBody, Free, Idle, StatusStep
  <2>2. CASE status # "NONE"
    BY <1>1, <1>3, <2>2 DEF Start, Free, Idle
  <2>3. QED
    BY <2>1, <2>2
<1>4. CASE Pause(r)
  BY <1>4 DEF Pause, Free, Idle, StatusStep
<1>5. CASE Stop(r)
  BY <1>5 DEF Stop, Free, Idle, StatusStep
<1>6. CASE StartAfterEnsure(r)
  BY <1>1, <1>6 DEF StartAfterEnsure
<1>7. CASE StartAfterEmit(r)
  BY <1>7 DEF StartAfterEmit, CreateTask, StatusStep
<1>8. CASE StopCancel(r)
  BY <1>8 DEF StopCancel, StatusStep
<1>9. CASE StopReturn(r)
  BY <1>9 DEF StopReturn, StatusStep
<1>10. QED
  BY <1>2, <1>3, <1>4, <1>5, <1>6, <1>7, <1>8, <1>9 DEF Continue

LEMMA EnterTickRefines ==
    ASSUME TypeOK, NEW p \in Proc, pc[p] # "waiting",
           status \notin {"NONE", "STOPPED"}, EnterTick(p)
    PROVE  Session!Next
<1>1. Session!Open
  BY DEF TypeOK, Status, Session!Open
<1>2. CASE AcquireNow(p)
  <2>1. Waiting' = Waiting
    BY <1>2, QueueUntouched DEF AcquireNow, Advance
  <2>2. QED
    BY <1>1, <1>2, <2>1 DEF AcquireNow, Advance, Waiting, Session!Next,
                            Session!AdmitAndPerform
<1>3. CASE Enqueue(p)
  <2>1. Waiting' = Waiting \cup {p}
    BY <1>3 DEF Enqueue, TypeOK, Waiting
  <2>2. Session!Admit(p)
    BY <1>1, <1>3, <2>1 DEF Enqueue, Waiting, Session!Admit
  <2>3. QED
    BY <2>2 DEF Session!Next
<1>4. QED
  BY <1>2, <1>3 DEF EnterTick

LEMMA NextRefines ==
    TypeOK /\ [Next]_vars => [Session!Next]_(Session!vars)
<1> SUFFICES ASSUME TypeOK, [Next]_vars PROVE [Session!Next]_(Session!vars)
  OBVIOUS
<1>1. ASSUME NEW r \in Req, Tick(r) PROVE [Session!Next]_(Session!vars)
  <2>1. pc[r] # "waiting"
    BY <1>1 DEF Tick, Free, Idle
  <2>2. CASE status \in {"NONE", "STOPPED"}
    <3>1. StatusStep
      BY <1>1, <2>1, <2>2, QueueUntouched DEF Tick, StatusStep
    <3>2. QED
      BY <3>1, StatusStepRefines
  <2>3. CASE status \notin {"NONE", "STOPPED"}
    BY <1>1, <2>1, <2>3, EnterTickRefines DEF Tick
  <2>4. QED
    BY <2>2, <2>3
<1>2. ASSUME NEW p \in Proc, Acquire(p) PROVE Session!Next
  <2>1. Waiting' = Waiting \ {p} /\ p \in Waiting
    BY <1>2 DEF Acquire, Advance, TypeOK, Waiting
  <2>2. Session!Perform(p)
    BY <1>2, <2>1 DEF Acquire, Advance, Waiting, Session!Perform
  <2>3. QED
    BY <2>2 DEF Session!Next
<1>3. ASSUME NEW p \in Proc, Decide(p) \/ Resolve(p) \/ FailTick(p) \/ FinishTick(p)
      PROVE  StatusStep
  <2>1. pc[p] # "waiting"
    BY <1>3 DEF Decide, Resolve, FailTick, FinishTick
  <2>2. Waiting' = Waiting
    BY <1>3, <2>1, QueueUntouched
       DEF Decide, Resolve, FailTick, FinishTick, LeaveTick, AfterTick
  <2>3. QED
    BY <1>3, <2>2 DEF Decide, Resolve, FailTick, FinishTick, LeaveTick, StatusStep
<1>4. ASSUME NEW l \in Loop, LoopTick(l) PROVE Session!Next
  BY <1>4, EnterTickRefines DEF LoopTick
<1>5. ASSUME NEW l \in Loop, LoopReturn(l) PROVE StatusStep
  BY <1>5, QueueUntouched DEF LoopReturn, Exit, StatusStep
<1>6. ASSUME NEW l \in Loop, LoopCancelled(l)
      PROVE  [Session!Next]_(Session!vars)
  <2>1. Waiting' = Waiting \ {l}
    BY <1>6 DEF LoopCancelled, Exit, TypeOK, Waiting
  <2>2. CASE l \in Waiting
    <3>1. Session!Abandon(l)
      BY <1>6, <2>1, <2>2 DEF LoopCancelled, Waiting, Session!Abandon
    <3>2. QED
      BY <3>1 DEF Session!Next
  <2>3. CASE l \notin Waiting
    BY <1>6, <2>1, <2>3, StatusStepRefines DEF LoopCancelled, StatusStep
  <2>4. QED
    BY <2>2, <2>3
<1>7. CASE Close \/ UNCHANGED vars
  BY <1>7, StatusStepRefines DEF Close, vars, Waiting, StatusStep
<1>8. QED
  BY <1>1, <1>2, <1>3, <1>4, <1>5, <1>6, <1>7, RequestsRefine, StatusStepRefines
     DEF Next, Call, InTickStep, LoopStep

\* The simulation manager keeps a session's promises: STOPPED is final, and the
\* world advances one tick at a time, after a stop only by ticks that were
\* queued on the lock before it.
THEOREM Implementation == Spec => ImplementsSession
<1>1. Init => Session!Init
  BY DEF Init, Session!Init
<1>2. QED
  BY <1>1, TypeCorrect, NextRefines, PTL
     DEF Spec, ImplementsSession, Session!Spec
-----------------------------------------------------------------------------
(* The lock's queue: who waits, in which order, and what a queue may still  *)
(* do once the simulation is paused or stopped.                             *)

InQueue(p) == \E i \in DOMAIN waiters : waiters[i] = p

\* Exactly the processes suspended in lock.acquire are queued, each once.
QueueInv ==
    /\ \A p \in Proc : InQueue(p) <=> pc[p] = "waiting"
    /\ \A i, j \in DOMAIN waiters : waiters[i] = waiters[j] => i = j

\* While somebody is queued, either the lock's holder is in its tick or the
\* head of the queue is one who can take the lock, or leave: no wake-up is lost.
QueueMovesOn ==
    waiters # <<>> => \/ \E p \in Proc : InTick(p)
                      \/ lock = None /\ pc[Head(waiters)] = "waiting"

\* A stopped simulation advances by ticks that were queued before the stop
\* and by no other: each tick it still makes shortens the queue for good.
StoppedSpendsItsQueue ==
    [][status = "STOPPED" =>
          /\ status' = "STOPPED"
          /\ tick' + Len(waiters') <= tick + Len(waiters)]_vars

\* What a step does to the queue.
NobodyMoves ==
    /\ waiters' = waiters /\ tick' = tick
    /\ \A p \in Proc : pc'[p] = "waiting" <=> pc[p] = "waiting"
    /\ \A p \in Proc : InTick(p)' => InTick(p)

MayAsk(p) == status \notin {"NONE", "STOPPED"} /\ (p \in Loop => status = "RUNNING")

Joins(p) ==
    /\ pc[p] # "waiting" /\ MayAsk(p)
    /\ waiters' = Append(waiters, p) /\ tick' = tick
    /\ pc' = [pc EXCEPT ![p] = "waiting"]

Enters(p) ==
    /\ pc[p] # "waiting" /\ MayAsk(p)
    /\ ToSet(waiters) \subseteq cancelled
    /\ waiters' = waiters /\ tick' = tick + 1
    /\ pc' = [pc EXCEPT ![p] = "started"]

Takes(p) ==
    /\ pc[p] = "waiting"
    /\ waiters # <<>> /\ Head(waiters) = p
    /\ waiters' = Tail(waiters) /\ tick' = tick + 1
    /\ pc' = [pc EXCEPT ![p] = "started"]

Quits(l) ==
    /\ waiters' = Leave(waiters, l) /\ tick' = tick
    /\ pc' = [pc EXCEPT ![l] = "off"]

\* Every step is one of these.
QueueStep ==
    /\ status = "STOPPED" => status' = "STOPPED"
    /\ \/ NobodyMoves
       \/ \E p \in Proc : Joins(p) \/ Enters(p) \/ Takes(p)
       \/ \E l \in Loop : Quits(l)

LEMMA EveryStepIsAQueueStep == TypeOK /\ [Next]_vars => QueueStep
<1> SUFFICES ASSUME TypeOK, [Next]_vars PROVE QueueStep
  OBVIOUS
<1> USE DEF TypeOK, TickPc, InTick
<1>1. ASSUME NEW r \in Req, pc[r] \notin {"waiting"} \cup TickPc, StartBody(r),
             tick' = tick, waiters' = waiters
      PROVE  QueueStep
  <2>1. NobodyMoves
    BY <1>1 DEF StartBody, CreateTask, NobodyMoves
  <2> QED
    BY <1>1, <2>1 DEF StartBody, QueueStep
<1>2. ASSUME NEW r \in Req,
             Create(r) \/ Start(r) \/ Pause(r) \/ Stop(r) \/ Continue(r)
      PROVE  QueueStep
  <2>1. CASE Create(r)
    BY <2>1 DEF Create, Free, Idle, QueueStep, NobodyMoves
  <2>2. CASE Start(r)
    <3>1. CASE status = "NONE"
      BY <2>2, <3>1 DEF Start, StartBody, Free, Idle, QueueStep, NobodyMoves
    <3>2. CASE status # "NONE"
      BY <1>1, <2>2, <3>2 DEF Start, Free, Idle
    <3> QED
      BY <3>1, <3>2
  <2>3. CASE Pause(r)
    BY <2>3 DEF Pause, Free, Idle, QueueStep, NobodyMoves
  <2>4. CASE Stop(r)
    BY <2>4 DEF Stop, Free, Idle, QueueStep, NobodyMoves
  <2>5. CASE StartAfterEnsure(r)
    BY <1>1, <2>5 DEF StartAfterEnsure
  <2>6. CASE StartAfterEmit(r)
    BY <2>6 DEF StartAfterEmit, CreateTask, QueueStep, NobodyMoves
  <2>7. CASE StopCancel(r)
    BY <2>7 DEF StopCancel, QueueStep, NobodyMoves
  <2>8. CASE StopReturn(r)
    BY <2>8 DEF StopReturn, QueueStep, NobodyMoves
  <2> QED
    BY <1>2, <2>1, <2>2, <2>3, <2>4, <2>5, <2>6, <2>7, <2>8 DEF Continue
<1>3. ASSUME NEW p \in Proc, pc[p] # "waiting", MayAsk(p), EnterTick(p)
      PROVE  QueueStep
  <2>1. CASE AcquireNow(p)
    BY <1>3, <2>1 DEF AcquireNow, Advance, Enters, QueueStep
  <2>2. CASE Enqueue(p)
    BY <1>3, <2>2 DEF Enqueue, Joins, QueueStep
  <2> QED
    BY <1>3, <2>1, <2>2 DEF EnterTick
<1>4. ASSUME NEW r \in Req, Tick(r) PROVE QueueStep
  <2>1. CASE status \in {"NONE", "STOPPED"}
    BY <1>4, <2>1 DEF Tick, Free, Idle, QueueStep, NobodyMoves
  <2>2. CASE status \notin {"NONE", "STOPPED"}
    BY <1>3, <1>4, <2>2 DEF Tick, Free, Idle, MayAsk
  <2> QED
    BY <2>1, <2>2
<1>5. ASSUME NEW p \in Proc, InTickStep(p) PROVE QueueStep
  <2>1. CASE Acquire(p)
    BY <2>1 DEF Acquire, Advance, Takes, QueueStep
  <2>2. CASE Decide(p)
    BY <2>2 DEF Decide, QueueStep, NobodyMoves
  <2>3. CASE Resolve(p)
    BY <2>3 DEF Resolve, QueueStep, NobodyMoves
  <2>4. CASE FailTick(p)
    BY <2>4 DEF FailTick, LeaveTick, QueueStep, NobodyMoves
  <2>5. CASE FinishTick(p)
    BY <2>5 DEF FinishTick, LeaveTick, AfterTick, QueueStep, NobodyMoves
  <2> QED
    BY <1>5, <2>1, <2>2, <2>3, <2>4, <2>5 DEF InTickStep
<1>6. ASSUME NEW l \in Loop, LoopStep(l) PROVE QueueStep
  <2>1. CASE LoopTick(l)
    BY <1>3, <2>1 DEF LoopTick, MayAsk
  <2>2. CASE LoopReturn(l)
    BY <2>2 DEF LoopReturn, Exit, QueueStep, NobodyMoves
  <2>3. CASE LoopCancelled(l)
    BY <2>3 DEF LoopCancelled, Exit, Quits, QueueStep
  <2> QED
    BY <1>6, <2>1, <2>2, <2>3 DEF LoopStep
<1>7. CASE Close \/ UNCHANGED vars
  BY <1>7 DEF Close, vars, QueueStep, NobodyMoves
<1> QED
  BY <1>2, <1>4, <1>5, <1>6, <1>7 DEF Next, Call

\* Leaving a queue without repetitions takes out one position and keeps the
\* order of the others.
LEMMA LeaveEffect ==
    ASSUME NEW q \in Seq(Proc), NEW p,
           \A i, j \in DOMAIN q : q[i] = q[j] => i = j,
           NEW at \in DOMAIN q, q[at] = p
    PROVE  /\ Len(Leave(q, p)) = Len(q) - 1
           /\ DOMAIN Leave(q, p) = 1 .. (Len(q) - 1)
           /\ \A i \in 1 .. (Len(q) - 1) :
                 Leave(q, p)[i] = q[IF i < at THEN i ELSE i + 1]
<1>1. p \in ToSet(q)
  BY DEF ToSet
<1>2. (CHOOSE i \in DOMAIN q : q[i] = p) = at
  OBVIOUS
<1>3. Leave(q, p) = SubSeq(q, 1, at - 1) \o SubSeq(q, at + 1, Len(q))
  BY <1>1, <1>2 DEF Leave, RemoveAt
<1> DEFINE front == SubSeq(q, 1, at - 1)
           back  == SubSeq(q, at + 1, Len(q))
<1>4. at \in 1 .. Len(q) /\ \A i \in 1 .. Len(q) : q[i] \in Proc
  BY ElementOfSeq
<1>5. /\ front \in Seq(Proc) /\ Len(front) = at - 1
      /\ \A i \in 1 .. (at - 1) : front[i] = q[i]
  BY <1>4, SubSeqProperties
<1>6. /\ back \in Seq(Proc) /\ Len(back) = Len(q) - at
      /\ \A i \in 1 .. (Len(q) - at) : back[i] = q[at + i]
  BY <1>4, SubSeqProperties
<1> HIDE DEF front, back
<1>7. /\ Len(front \o back) = Len(q) - 1
      /\ \A i \in 1 .. (Len(q) - 1) :
            (front \o back)[i] = IF i <= at - 1 THEN front[i] ELSE back[i - (at - 1)]
  <2>1. /\ Len(front \o back) = Len(front) + Len(back)
        /\ \A i \in 1 .. (Len(front) + Len(back)) :
              (front \o back)[i] = IF i <= Len(front) THEN front[i]
                                                     ELSE back[i - Len(front)]
    <3>1. front \in Seq(Proc) /\ back \in Seq(Proc)
      BY <1>5, <1>6
    <3> QED
      BY ONLY <3>1, ConcatProperties
  <2>2. Len(q) \in Nat /\ (at - 1) + (Len(q) - at) = Len(q) - 1
    BY <1>4, LenProperties
  <2> QED
    BY <1>5, <1>6, <2>1, <2>2
<1>8. ASSUME NEW i \in 1 .. (Len(q) - 1)
      PROVE  (front \o back)[i] = q[IF i < at THEN i ELSE i + 1]
  <2>0. i \in Nat /\ at \in Nat /\ Len(q) \in Nat /\ (i < at \/ i >= at)
    BY <1>4
  <2>1. CASE i < at
    BY <1>4, <1>5, <1>7, <2>1
  <2>2. CASE i >= at
    <3>1. i - (at - 1) \in 1 .. (Len(q) - at) /\ at + (i - (at - 1)) = i + 1
      BY <2>0, <2>2
    <3>2. back[i - (at - 1)] = q[i + 1]
      BY <1>6, <3>1
    <3>3. (front \o back)[i] = back[i - (at - 1)]
      BY <1>7, <2>0, <2>2
    <3> QED
      BY <2>0, <2>2, <3>2, <3>3
  <2> QED
    BY <2>0, <2>1, <2>2
<1>9. DOMAIN (front \o back) = 1 .. (Len(q) - 1)
  BY <1>5, <1>6, <1>7, ConcatProperties, LenProperties
<1> QED
  BY <1>3, <1>7, <1>8, <1>9 DEF front, back
\* Somebody leaves the queue from position at.
TakenOut(at) ==
    /\ DOMAIN waiters' = 1 .. (Len(waiters) - 1)
    /\ Len(waiters') = Len(waiters) - 1
    /\ \A i \in 1 .. (Len(waiters) - 1) :
          waiters'[i] = waiters[IF i < at THEN i ELSE i + 1]

LEMMA OthersStay ==
    ASSUME TypeOK, QueueInv, NEW at \in DOMAIN waiters, TakenOut(at)
    PROVE  /\ \A i, j \in DOMAIN waiters' : waiters'[i] = waiters'[j] => i = j
           /\ \A p \in Proc : InQueue(p)' <=> InQueue(p) /\ p # waiters[at]
           /\ \A p, o \in Proc \ {waiters[at]} : Before(p, o) => Before(p, o)'
<1>1. /\ DOMAIN waiters = 1 .. Len(waiters) /\ Len(waiters) \in Nat
      /\ at \in Nat /\ at >= 1 /\ at <= Len(waiters)
  BY DEF TypeOK
<1>2. ASSUME NEW i \in DOMAIN waiters, i # at
      PROVE  LET k == IF i < at THEN i ELSE i - 1
             IN  k \in DOMAIN waiters' /\ waiters'[k] = waiters[i]
  <2>1. CASE i < at
    BY <1>1, <2>1 DEF TakenOut
  <2>2. CASE ~(i < at)
    <3>1. i - 1 \in 1 .. (Len(waiters) - 1) /\ ~(i - 1 < at) /\ (i - 1) + 1 = i
      BY <1>1, <1>2, <2>2
    <3> QED
      BY <2>2, <3>1 DEF TakenOut
  <2> QED
    BY <2>1, <2>2
<1>3. ASSUME NEW i \in DOMAIN waiters'
      PROVE  LET k == IF i < at THEN i ELSE i + 1
             IN  k \in DOMAIN waiters /\ k # at /\ waiters[k] = waiters'[i]
  BY <1>1 DEF TakenOut
<1>4. ASSUME NEW i \in DOMAIN waiters', NEW j \in DOMAIN waiters',
             waiters'[i] = waiters'[j]
      PROVE  i = j
  <2>1. (IF i < at THEN i ELSE i + 1) = (IF j < at THEN j ELSE j + 1)
    BY <1>3, <1>4 DEF QueueInv
  <2> QED
    BY <1>1, <2>1 DEF TakenOut
<1>5. ASSUME NEW p \in Proc PROVE InQueue(p)' <=> InQueue(p) /\ p # waiters[at]
  <2>1. ASSUME InQueue(p)' PROVE InQueue(p) /\ p # waiters[at]
    <3>1. PICK i \in DOMAIN waiters' : waiters'[i] = p
      BY <2>1 DEF InQueue
    <3> QED
      BY <1>3, <3>1 DEF InQueue, QueueInv
  <2>2. ASSUME InQueue(p), p # waiters[at] PROVE InQueue(p)'
    BY <1>2, <2>2 DEF InQueue
  <2> QED
    BY <2>1, <2>2
<1>6. ASSUME NEW p \in Proc \ {waiters[at]}, NEW o \in Proc \ {waiters[at]},
             Before(p, o)
      PROVE  Before(p, o)'
  <2>1. PICK i \in DOMAIN waiters, j \in DOMAIN waiters :
            i < j /\ waiters[i] = p /\ waiters[j] = o
    BY <1>6 DEF Before
  <2>2. i # at /\ j # at
    BY <2>1
  <2> DEFINE a == IF i < at THEN i ELSE i - 1
             b == IF j < at THEN j ELSE j - 1
  <2>3. a < b
    BY <1>1, <2>1, <2>2
  <2>4. /\ a \in DOMAIN waiters' /\ waiters'[a] = p
        /\ b \in DOMAIN waiters' /\ waiters'[b] = o
    BY <1>2, <2>1, <2>2
  <2> HIDE DEF a, b
  <2> QED
    BY <2>3, <2>4 DEF Before
<1> QED
  BY <1>4, <1>5, <1>6

LEMMA TakesTakesOut ==
    ASSUME TypeOK, NEW p \in Proc, Takes(p)
    PROVE  1 \in DOMAIN waiters /\ waiters[1] = p /\ TakenOut(1)
BY HeadTailProperties DEF TypeOK, Takes, TakenOut

LEMMA QuitsTakesOut ==
    ASSUME TypeOK, QueueInv, NEW l \in Loop, Quits(l), InQueue(l)
    PROVE  \E at \in DOMAIN waiters : waiters[at] = l /\ TakenOut(at)
<1>1. PICK at \in DOMAIN waiters : waiters[at] = l
  BY DEF InQueue
<1>2. /\ waiters \in Seq(Proc) /\ waiters' = Leave(waiters, l)
      /\ \A i, j \in DOMAIN waiters : waiters[i] = waiters[j] => i = j
  BY DEF TypeOK, QueueInv, Quits
<1>3. /\ Len(Leave(waiters, l)) = Len(waiters) - 1
      /\ DOMAIN Leave(waiters, l) = 1 .. (Len(waiters) - 1)
      /\ \A i \in 1 .. (Len(waiters) - 1) :
            Leave(waiters, l)[i] = waiters[IF i < at THEN i ELSE i + 1]
  BY ONLY <1>1, <1>2, LeaveEffect
<1>4. TakenOut(at)
  BY ONLY <1>2, <1>3 DEF TakenOut
<1> QED
  BY <1>1, <1>4

LEMMA StrangersQuit ==
    ASSUME TypeOK, NEW l \in Loop, Quits(l), ~InQueue(l)
    PROVE  waiters' = waiters
BY DEF TypeOK, InQueue, Quits, Leave, ToSet

LEMMA JoinsAtTheEnd ==
    ASSUME TypeOK, NEW p \in Proc, Joins(p)
    PROVE  /\ Len(waiters') = Len(waiters) + 1
           /\ DOMAIN waiters' = 1 .. (Len(waiters) + 1)
           /\ waiters'[Len(waiters) + 1] = p
           /\ \A i \in 1 .. Len(waiters) : waiters'[i] = waiters[i]
BY AppendProperties DEF TypeOK, Joins

LEMMA NextQueueInv == TypeOK /\ QueueInv /\ QueueStep => QueueInv'
<1> SUFFICES ASSUME TypeOK, QueueInv, QueueStep PROVE QueueInv'
  OBVIOUS
<1>1. CASE NobodyMoves
  BY <1>1 DEF NobodyMoves, QueueInv, InQueue
<1>2. ASSUME NEW p \in Proc, Joins(p) PROVE QueueInv'
  <2>1. /\ DOMAIN waiters = 1 .. Len(waiters) /\ Len(waiters) \in Nat
    BY DEF TypeOK
  <2>2. ~InQueue(p)
    BY <1>2 DEF Joins, QueueInv
  <2>3. \A i, j \in DOMAIN waiters' : waiters'[i] = waiters'[j] => i = j
    BY <1>2, <2>1, <2>2, JoinsAtTheEnd DEF QueueInv, InQueue
  <2>4. \A o \in Proc : InQueue(o)' <=> InQueue(o) \/ o = p
    BY <1>2, <2>1, JoinsAtTheEnd DEF InQueue
  <2>5. \A o \in Proc : pc'[o] = "waiting" <=> pc[o] = "waiting" \/ o = p
    BY <1>2 DEF Joins, TypeOK
  <2> QED
    BY <2>3, <2>4, <2>5 DEF QueueInv
<1>3. ASSUME NEW p \in Proc, Enters(p) PROVE QueueInv'
  BY <1>3 DEF Enters, QueueInv, InQueue, TypeOK
<1>4. ASSUME NEW p \in Proc, Takes(p) PROVE QueueInv'
  <2>1. /\ \A i, j \in DOMAIN waiters' : waiters'[i] = waiters'[j] => i = j
        /\ \A o \in Proc : InQueue(o)' <=> InQueue(o) /\ o # p
    BY <1>4, TakesTakesOut, OthersStay
  <2>2. \A o \in Proc : pc'[o] = "waiting" <=> pc[o] = "waiting" /\ o # p
    BY <1>4 DEF Takes, TypeOK
  <2> QED
    BY <2>1, <2>2 DEF QueueInv
<1>5. ASSUME NEW l \in Loop, Quits(l) PROVE QueueInv'
  <2>1. \A o \in Proc : pc'[o] = "waiting" <=> pc[o] = "waiting" /\ o # l
    BY <1>5 DEF Quits, TypeOK
  <2>2. CASE InQueue(l)
    <3>1. /\ \A i, j \in DOMAIN waiters' : waiters'[i] = waiters'[j] => i = j
          /\ \A o \in Proc : InQueue(o)' <=> InQueue(o) /\ o # l
      BY <1>5, <2>2, QuitsTakesOut, OthersStay
    <3> QED
      BY <2>1, <3>1 DEF QueueInv
  <2>3. CASE ~InQueue(l)
    <3>1. waiters' = waiters
      BY <1>5, <2>3, StrangersQuit
    <3> QED
      BY <2>1, <2>3, <3>1 DEF QueueInv, InQueue
  <2> QED
    BY <2>2, <2>3
<1> QED
  BY <1>1, <1>2, <1>3, <1>4, <1>5 DEF QueueStep

\* asyncio.Lock's _waiters are exactly the ticks suspended in acquire.
THEOREM QueueHoldsTheWaiting == Spec => []QueueInv
<1>1. Init => QueueInv
  BY DEF Init, QueueInv, InQueue
<1> QED
  BY <1>1, EveryStepIsAQueueStep, NextQueueInv, TypeCorrect, PTL DEF Spec

\* No tick that queued in run_tick waits for a lock that nobody will release.
THEOREM NoLostWakeUp == Spec => []QueueMovesOn
<1>1. TypeOK /\ TickMutex /\ QueueInv => QueueMovesOn
  <2> SUFFICES ASSUME TypeOK, TickMutex, QueueInv, waiters # <<>>,
                      ~\E p \in Proc : InTick(p)
               PROVE  lock = None /\ pc[Head(waiters)] = "waiting"
    BY DEF QueueMovesOn
  <2>1. lock = None
    BY DEF TypeOK, TickMutex
  <2>2. 1 \in DOMAIN waiters /\ Head(waiters) = waiters[1] /\ waiters[1] \in Proc
    BY HeadTailProperties, ElementOfSeq DEF TypeOK
  <2>3. pc[waiters[1]] = "waiting"
    BY <2>2 DEF QueueInv, InQueue
  <2> QED
    BY <2>1, <2>2, <2>3
<1> QED
  BY <1>1, TypeCorrect, MutualExclusion, QueueHoldsTheWaiting, PTL
\* The FIFO order of asyncio.Lock, through cancelled waiters and idle locks.
THEOREM TicksKeepTheirTurn == Spec => NobodyOvertakes
<1>1. TypeOK /\ QueueInv /\ QueueStep =>
        \A p, o \in Proc : pc[p] = "waiting" /\ pc'[p] = "waiting" =>
          /\ Before(p, o) => Before(p, o)' \/ pc'[o] = "off"
          /\ ~InTick(o) /\ InTick(o)' => p \in cancelled \/ Before(o, p)
  <2> SUFFICES ASSUME TypeOK, QueueInv, QueueStep, NEW p \in Proc, NEW o \in Proc,
                      pc[p] = "waiting", pc'[p] = "waiting"
               PROVE  /\ Before(p, o) => Before(p, o)' \/ pc'[o] = "off"
                      /\ ~InTick(o) /\ InTick(o)' => p \in cancelled \/ Before(o, p)
    OBVIOUS
  <2> USE DEF TypeOK
  <2>0. PICK n \in DOMAIN waiters : waiters[n] = p
    BY DEF QueueInv, InQueue
  <2>1. CASE NobodyMoves
    BY <2>1 DEF NobodyMoves, Before
  <2>2. ASSUME NEW q \in Proc, Joins(q)
        PROVE  /\ Before(p, o) => Before(p, o)'
               /\ InTick(o)' => InTick(o)
    <3>1. ASSUME Before(p, o) PROVE Before(p, o)'
      <4>1. PICK i \in DOMAIN waiters, j \in DOMAIN waiters :
                i < j /\ waiters[i] = p /\ waiters[j] = o
        BY <3>1 DEF Before
      <4>2. DOMAIN waiters = 1 .. Len(waiters) /\ Len(waiters) \in Nat
        OBVIOUS
      <4>3. /\ i \in DOMAIN waiters' /\ waiters'[i] = p
            /\ j \in DOMAIN waiters' /\ waiters'[j] = o
        BY <2>2, <4>1, <4>2, JoinsAtTheEnd
      <4> QED
        BY <4>1, <4>3 DEF Before
    <3> QED
      BY <2>2, <3>1 DEF Joins, InTick, TickPc
  <2>3. ASSUME NEW q \in Proc, Enters(q)
        PROVE  /\ Before(p, o) => Before(p, o)'
               /\ p \in cancelled
    BY <2>0, <2>3 DEF Enters, Before, ToSet
  <2>4. ASSUME NEW q \in Proc, Takes(q)
        PROVE  /\ Before(p, o) => Before(p, o)'
               /\ ~InTick(o) /\ InTick(o)' => Before(o, p)
    <3>1. 1 \in DOMAIN waiters /\ waiters[1] = q /\ TakenOut(1) /\ p # q
      BY <2>4, TakesTakesOut DEF Takes
    <3>2. Before(p, o) => o # q
      BY <3>1 DEF Before, QueueInv
    <3>3. Before(p, o) => Before(p, o)'
      BY <3>1, <3>2, OthersStay
    <3>4. 1 < n
      BY <2>0, <3>1
    <3>5. Before(q, p)
      BY <2>0, <3>1, <3>4 DEF Before
    <3>6. ~InTick(o) /\ InTick(o)' => o = q
      BY <2>4 DEF Takes, InTick
    <3> QED
      BY <3>3, <3>5, <3>6
  <2>5. ASSUME NEW l \in Loop, Quits(l)
        PROVE  /\ Before(p, o) => Before(p, o)' \/ pc'[o] = "off"
               /\ InTick(o)' => InTick(o)
    <3>1. pc'[l] = "off" /\ p # l /\ \A q \in Proc : q # l => pc'[q] = pc[q]
      BY <2>5 DEF Quits
    <3>2. ASSUME Before(p, o), o # l PROVE Before(p, o)'
      <4>1. CASE InQueue(l)
        <5>1. PICK at \in DOMAIN waiters : waiters[at] = l /\ TakenOut(at)
          BY <2>5, <4>1, QuitsTakesOut
        <5> QED
          BY <3>1, <3>2, <5>1, OthersStay
      <4>2. CASE ~InQueue(l)
        BY <2>5, <3>2, <4>2, StrangersQuit DEF Before
      <4> QED
        BY <4>1, <4>2
    <3> QED
      BY <3>1, <3>2 DEF InTick, TickPc
  <2> QED
    BY <2>1, <2>2, <2>3, <2>4, <2>5 DEF QueueStep, NobodyMoves
<1> QED
  BY <1>1, EveryStepIsAQueueStep, QueueHoldsTheWaiting, TypeCorrect, PTL
     DEF Spec, NobodyOvertakes

\* simulation_manager.py:177, "Stopped simulation cannot advance", is true of
\* all ticks but those that were already queued on the lock.
THEOREM OnlyQueuedTicksFollowAStop == Spec => StoppedSpendsItsQueue
<1>1. TypeOK /\ QueueInv /\ QueueStep =>
        (status = "STOPPED" =>
          /\ status' = "STOPPED"
          /\ tick' + Len(waiters') <= tick + Len(waiters))
  <2> SUFFICES ASSUME TypeOK, QueueInv, QueueStep, status = "STOPPED"
               PROVE  tick' + Len(waiters') <= tick + Len(waiters)
    BY DEF QueueStep
  <2>0. tick \in Nat /\ Len(waiters) \in Nat
    BY DEF TypeOK
  <2>1. CASE NobodyMoves
    BY <2>0, <2>1 DEF NobodyMoves
  <2>2. ASSUME NEW p \in Proc, Joins(p) \/ Enters(p) PROVE FALSE
    BY <2>2 DEF Joins, Enters, MayAsk
  <2>3. ASSUME NEW p \in Proc, Takes(p)
        PROVE  tick' + Len(waiters') <= tick + Len(waiters)
    <3>1. Len(waiters') = Len(waiters) - 1 /\ tick' = tick + 1
      BY <2>3, TakesTakesOut DEF TakenOut, Takes
    <3> QED
      BY <2>0, <3>1
  <2>4. ASSUME NEW l \in Loop, Quits(l)
        PROVE  tick' + Len(waiters') <= tick + Len(waiters)
    <3>1. tick' = tick
      BY <2>4 DEF Quits
    <3>2. Len(waiters') <= Len(waiters) /\ Len(waiters') \in Int
      <4>1. CASE InQueue(l)
        <5>1. PICK at \in DOMAIN waiters : TakenOut(at)
          BY <2>4, <4>1, QuitsTakesOut
        <5> QED
          BY <2>0, <5>1 DEF TakenOut
      <4>2. CASE ~InQueue(l)
        BY <2>0, <2>4, <4>2, StrangersQuit
      <4> QED
        BY <4>1, <4>2
    <3> QED
      BY <2>0, <3>1, <3>2
  <2> QED
    BY <2>1, <2>2, <2>3, <2>4 DEF QueueStep
<1> QED
  BY <1>1, EveryStepIsAQueueStep, QueueHoldsTheWaiting, TypeCorrect, PTL
     DEF Spec, StoppedSpendsItsQueue

\* _run_loop reads RUNNING and then waits: what it reads may be stale, but
\* only once for each loop.
THEOREM OnlyQueuedAutoTicksFollowAPause == Spec => LateAutoTicksWereQueued
<1>1. TypeOK /\ QueueStep =>
        \A l \in Loop : status # "RUNNING" =>
          /\ pc'[l] = "waiting" => pc[l] = "waiting"
          /\ ~InTick(l) /\ InTick(l)' => pc[l] = "waiting"
  <2> SUFFICES ASSUME TypeOK, QueueStep, NEW l \in Loop, status # "RUNNING"
               PROVE  /\ pc'[l] = "waiting" => pc[l] = "waiting"
                      /\ ~InTick(l) /\ InTick(l)' => pc[l] = "waiting"
    OBVIOUS
  <2>1. CASE NobodyMoves
    BY <2>1 DEF NobodyMoves
  <2>2. ASSUME NEW p \in Proc, Joins(p) \/ Enters(p) \/ Takes(p)
        PROVE  /\ pc'[l] = "waiting" => pc[l] = "waiting"
               /\ ~InTick(l) /\ InTick(l)' => pc[l] = "waiting"
    BY <2>2 DEF Joins, Enters, Takes, MayAsk, TypeOK, InTick
  <2>3. ASSUME NEW q \in Loop, Quits(q)
        PROVE  /\ pc'[l] = "waiting" => pc[l] = "waiting"
               /\ InTick(l)' => InTick(l)
    BY <2>3 DEF Quits, TypeOK, InTick, TickPc
  <2> QED
    BY <2>1, <2>2, <2>3 DEF QueueStep
<1> QED
  BY <1>1, EveryStepIsAQueueStep, TypeCorrect, PTL
     DEF Spec, LateAutoTicksWereQueued
-----------------------------------------------------------------------------
(* One loop, when starts do not overlap.  OneAutoLoop is refuted by two      *)
(* start calls of which one runs while the other awaits its emit; these are *)
(* the only way to a second loop.                                           *)

\* While a start call awaits the emit after which it will create a task, no
\* other start or resume call goes through start's body.
SerialStep ==
    \A r \in Req : pc[r] = "startDead" =>
        \A q \in Req \ {r} : ~Start(q) /\ ~StartAfterEnsure(q)
StartsAreSerial == [][SerialStep]_vars

\* The loop that runs is the registered one, and a start call that is about to
\* create one finds none.
OneLoopInv ==
    /\ \A l \in Loop : Alive(l) /\ l \notin cancelled => task = l
    /\ \A r \in Req : pc[r] = "startDead" =>
          /\ task = None
          /\ \A q \in Req : pc[q] = "startDead" => q = r

\* A step that brings no process to where it creates or runs a loop, and ends
\* no registered one.
AwayFromLoops ==
    /\ UNCHANGED <<task, cancelled>>
    /\ \A l \in Loop : pc'[l] # "off" => pc[l] # "off"
    /\ \A r \in Req : pc'[r] = "startDead" => pc[r] = "startDead"

LEMMA AwayKeepsOneLoop ==
    ASSUME OneLoopInv, AwayFromLoops PROVE OneLoopInv'
BY DEF OneLoopInv, AwayFromLoops, Alive

LEMMA NextOneLoop ==
    TypeOK /\ RegistryInv /\ OneLoopInv /\ [Next /\ SerialStep]_vars => OneLoopInv'
<1> SUFFICES ASSUME TypeOK, RegistryInv, OneLoopInv, [Next /\ SerialStep]_vars
             PROVE  OneLoopInv'
  OBVIOUS
<1> USE DEF TypeOK
<1>0. CASE UNCHANGED vars
  BY <1>0 DEF vars, OneLoopInv, Alive
<1>1. ASSUME NEW r \in Req, pc[r] # "startDead",
             \A q \in Req : pc[q] # "startDead",
             StartBody(r), cancelled' = cancelled
      PROVE  OneLoopInv'
  <2> USE DEF OneLoopInv, Alive, RegistryInv, RegisteredTaskLives, TaskAlive
  <2>1. ASSUME NEW x \in {"refused", "idle", "startLive"},
               pc' = [pc EXCEPT ![r] = x], UNCHANGED task
        PROVE  OneLoopInv'
    BY <1>1, <2>1
  <2>2. CASE CreateTask(r) /\ ~TaskAlive
    <3>1. PICK l \in Loop : task' = l /\ pc' = [pc EXCEPT ![r] = "idle", ![l] = "top"]
      BY <2>2 DEF CreateTask
    <3>2. /\ \A q \in Req : pc'[q] # "startDead"
          /\ \A k \in Loop : k # l => pc'[k] = pc[k]
      BY <1>1, <3>1
    <3> QED
      BY <1>1, <2>2, <3>1, <3>2
  <2>3. CASE pc' = [pc EXCEPT ![r] = "startDead"] /\ UNCHANGED task
    <3>1. task = None
      BY <1>1, <2>3 DEF StartBody, CreateTask
    <3> QED
      BY <1>1, <2>3, <3>1
  <2> QED
    BY <1>1, <2>1, <2>2, <2>3, Zenon DEF StartBody
<1>2. ASSUME NEW r \in Req, Next, SerialStep, Start(r) \/ StartAfterEnsure(r)
      PROVE  OneLoopInv'
  <2>1. \A q \in Req : pc[q] # "startDead"
    BY <1>2 DEF SerialStep, Start, StartAfterEnsure, Free, Idle
  <2>2. CASE Start(r) /\ status = "NONE"
    <3>1. AwayFromLoops
      BY <2>2 DEF Start, StartBody, AwayFromLoops
    <3> QED
      BY <3>1, AwayKeepsOneLoop
  <2>3. CASE ~(Start(r) /\ status = "NONE")
    BY <1>1, <1>2, <2>1, <2>3 DEF Start, StartAfterEnsure
  <2> QED
    BY <2>2, <2>3
<1>3. ASSUME NEW r \in Req, Create(r) \/ Pause(r) \/ Stop(r) \/ StopReturn(r)
      PROVE  AwayFromLoops
  BY <1>3 DEF Create, Pause, Stop, StopReturn, Free, Idle, AwayFromLoops
<1>4. ASSUME NEW r \in Req, StartAfterEmit(r) PROVE OneLoopInv'
  <2>1. CASE pc[r] = "startLive" /\ Goto(r, "idle") /\ UNCHANGED task
    BY <1>4, <2>1 DEF StartAfterEmit, OneLoopInv, Alive
  <2>2. CASE pc[r] = "startDead" /\ CreateTask(r)
    <3>1. PICK l \in Loop : task' = l /\ pc' = [pc EXCEPT ![r] = "idle", ![l] = "top"]
      BY <2>2 DEF CreateTask
    <3>2. cancelled' = cancelled
      BY <1>4 DEF StartAfterEmit
    <3>3. /\ \A q \in Req : pc'[q] # "startDead"
          /\ \A k \in Loop : k # l => pc'[k] = pc[k]
      BY <2>2, <3>1 DEF OneLoopInv
    <3> QED
      BY <2>2, <3>1, <3>2, <3>3 DEF OneLoopInv, Alive
  <2> QED
    BY <1>4, <2>1, <2>2 DEF StartAfterEmit
<1>5. ASSUME NEW r \in Req, StopCancel(r) PROVE OneLoopInv'
  BY <1>5 DEF StopCancel, TaskAlive, OneLoopInv, Alive
<1>6. ASSUME NEW p \in Proc, EnterTick(p), pc[p] # "off" PROVE AwayFromLoops
  BY <1>6 DEF EnterTick, AcquireNow, Advance, Enqueue, AwayFromLoops
<1>7. ASSUME NEW r \in Req, Tick(r) PROVE AwayFromLoops
  BY <1>6, <1>7 DEF Tick, Free, Idle, AwayFromLoops
<1>8. ASSUME NEW p \in Proc, InTickStep(p) PROVE AwayFromLoops
  BY <1>8 DEF InTickStep, Acquire, Advance, Decide, Resolve, FailTick,
              FinishTick, LeaveTick, AfterTick, AwayFromLoops
<1>9. ASSUME NEW l \in Loop, LoopTick(l) PROVE AwayFromLoops
  BY <1>6, <1>9 DEF LoopTick
<1>10. ASSUME NEW l \in Loop, LoopReturn(l) \/ LoopCancelled(l) PROVE OneLoopInv'
  BY <1>10 DEF LoopReturn, LoopCancelled, Exit, OneLoopInv, Alive
<1>11. CASE Close
  BY <1>11 DEF Close, Idle, TaskAlive, OneLoopInv, Alive
<1> QED
  BY <1>0, <1>2, <1>3, <1>4, <1>5, <1>7, <1>8, <1>9, <1>10, <1>11, AwayKeepsOneLoop
     DEF Next, Call, Continue, LoopStep

\* README:623's one auto-tick task per simulation: what start and _run_loop
\* keep as long as start calls do not overlap.
THEOREM SerialStartsKeepOneLoop == Spec /\ StartsAreSerial => []OneAutoLoop
<1>1. Init => OneLoopInv
  BY DEF Init, OneLoopInv, Alive
<1>2. OneLoopInv => OneAutoLoop
  <2> SUFFICES ASSUME OneLoopInv PROVE OneAutoLoop
    OBVIOUS
  <2> DEFINE S == {l \in Loop : Alive(l) /\ l \notin cancelled}
  <2>1. S \subseteq {task}
    BY DEF OneLoopInv
  <2> HIDE DEF S
  <2>2. IsFiniteSet({task}) /\ Cardinality({task}) = 1
    BY FS_Singleton
  <2>3. Cardinality(S) <= 1
    BY <2>1, <2>2, FS_Subset
  <2> QED
    BY <2>3 DEF S, OneAutoLoop
<1>3. [Next]_vars /\ [SerialStep]_vars => [Next /\ SerialStep]_vars
  OBVIOUS
<1> QED
  BY <1>1, <1>2, <1>3, NextOneLoop, TypeCorrect, RegistryInvariant, PTL
     DEF Spec, StartsAreSerial
=============================================================================
