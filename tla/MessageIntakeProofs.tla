-------------------------- MODULE MessageIntakeProofs --------------------------
(* The safety of MessageIntake, for any messages and any number of faults. *)
EXTENDS MessageIntake, TLAPS

\* Whoever acknowledges has handled.
TaskInv ==
    \A t \in tasks : t.at = "settle" => /\ t.msg \in ended
                                        /\ t.msg \in Stream => t.msg \in clean

\* A message that waits, again, was handed over once for each fault at most.
RmqInv ==
    \A m \in Rmq : /\ m \notin sent => given[m] = 0
                   /\ m \in ready => given[m] <= faults
                   /\ given[m] <= 1 + faults

\* Ids are unique, and the group has handed over what its cursor has passed.
StreamInv ==
    /\ ~group => cursor = 0 /\ ~up
    /\ \A m, n \in Stream : id[m] = id[n] /\ id[m] # 0 => m = n
    /\ \A m \in Stream : /\ id[m] \notin 1 .. cursor => given[m] = 0
                         /\ given[m] <= 1

IntakeInv == TypeOK /\ TaskInv /\ RmqInv /\ StreamInv /\ SettledWasHandled

-----------------------------------------------------------------------------
LEMMA InitIntake == Init => IntakeInv
<1> SUFFICES ASSUME Init
             PROVE  IntakeInv
  OBVIOUS
<1>1. TypeOK
  <2>1. /\ up \in BOOLEAN /\ link \in BOOLEAN /\ redis \in BOOLEAN
        /\ group \in BOOLEAN
    BY DEF Init
  <2>2. /\ kind \in [Msg -> Kind] /\ tasks \subseteq Task
        /\ sent \subseteq Rmq /\ ready \subseteq sent /\ unacked \subseteq sent
        /\ pending \subseteq Stream /\ ended \subseteq Msg /\ clean \subseteq ended
    BY DEF Init
  <2>3. /\ id \in [Stream -> 0 .. last] /\ given \in [Msg -> Nat]
        /\ epoch \in Nat /\ last \in Nat /\ cursor \in 0 .. last
        /\ faults \in 0 .. MaxFaults
    BY MaxFaultsAssumption DEF Init
  <2> QED
    BY <2>1, <2>2, <2>3 DEF TypeOK
<1>2. TaskInv
  BY DEF Init, TaskInv
<1>3. RmqInv
  BY MaxFaultsAssumption DEF Init, RmqInv, Msg
<1>4. StreamInv
  BY DEF Init, StreamInv, Msg
<1>5. SettledWasHandled
  BY DEF Init, SettledWasHandled, Delivered
<1> QED
  BY <1>1, <1>2, <1>3, <1>4, <1>5 DEF IntakeInv

\* What a new handling does to the tasks and the histories.
LEMMA BeginEffect ==
    ASSUME TypeOK, NEW m \in Msg, Begin(m)
    PROVE  /\ given' = [given EXCEPT ![m] = @ + 1]
           /\ tasks' \subseteq Task
           /\ ended \subseteq ended' /\ clean \subseteq clean'
           /\ ended' \subseteq Msg /\ clean' \subseteq ended'
           /\ TaskInv => TaskInv'
<1> USE DEF TypeOK
<1>1. given' = [given EXCEPT ![m] = @ + 1]
  BY DEF Begin
<1>2. /\ [msg |-> m, epoch |-> epoch, at |-> "handler"] \in Task
      /\ [msg |-> m, epoch |-> epoch, at |-> "settle"] \in Task
  BY DEF Task
<1>3. CASE kind[m] = "handled"
  BY <1>1, <1>2, <1>3 DEF Begin, TaskInv
<1>4. CASE kind[m] = "refused"
  BY <1>1, <1>2, <1>4 DEF Begin, TaskInv
<1>5. CASE kind[m] = "raises"
  BY <1>1, <1>2, <1>5, MessagesAssumption DEF Begin, TaskInv
<1> QED
  BY <1>3, <1>4, <1>5 DEF Kind

LEMMA StepType ==
    ASSUME TypeOK, [Next]_vars
    PROVE  TypeOK'
<1> USE MessagesAssumption, MaxFaultsAssumption DEF TypeOK
<1>1. CASE Start
  BY <1>1 DEF Start, rmqVars, histories
<1>2. ASSUME NEW m \in Msg, Publish(m)
      PROVE  TypeOK'
  BY <1>2 DEF Publish, redisVars, histories
<1>3. ASSUME NEW m \in Msg, Add(m)
      PROVE  TypeOK'
  BY <1>3 DEF Add, rmqVars, histories
<1>4. ASSUME NEW m \in Msg, Deliver(m)
      PROVE  TypeOK'
  BY <1>4, BeginEffect DEF Deliver, redisVars
<1>5. ASSUME NEW m \in Msg, Read(m)
      PROVE  TypeOK'
  BY <1>5, BeginEffect DEF Read, rmqVars
<1>6. ASSUME NEW m \in Msg, LoseReply(m)
      PROVE  TypeOK'
  <2>1. id[m] \in 0 .. last /\ faults + 1 \in 0 .. MaxFaults
    BY <1>6 DEF LoseReply, Fault
  <2> QED
    BY <1>6, <2>1 DEF LoseReply, Fault, rmqVars, histories
<1>7. ASSUME NEW t \in tasks, Step(t)
      PROVE  TypeOK'
  BY <1>7 DEF Step, Returns, Raises, AckRmq, AckRedis, rmqVars, redisVars,
              histories, Task
<1> USE DEF redisVars, histories
<1>8. CASE LoseLink
  <2>1. faults' \in 0 .. MaxFaults
    BY <1>8 DEF LoseLink, Fault
  <2> QED
    BY <1>8, <2>1 DEF LoseLink
<1>9. CASE LoseRedis
  <2>1. faults' \in 0 .. MaxFaults
    BY <1>9 DEF LoseRedis, Fault
  <2> QED
    BY <1>9, <2>1 DEF LoseRedis, rmqVars
<1>10. CASE Crash
  <2>1. faults' \in 0 .. MaxFaults
    BY <1>10 DEF Crash, Fault
  <2> QED
    BY <1>10, <2>1 DEF Crash
<1>11. CASE Relink
  BY <1>11 DEF Relink, rmqVars
<1>12. CASE Reconnect
  BY <1>12 DEF Reconnect, rmqVars
<1>13. CASE UNCHANGED vars
  BY <1>13 DEF vars, rmqVars
<1> QED
  BY <1>1, <1>2, <1>3, <1>4, <1>5, <1>6, <1>7, <1>8, <1>9, <1>10, <1>11, <1>12,
     <1>13 DEF Next

LEMMA StepTasks ==
    ASSUME TypeOK, TaskInv, [Next]_vars
    PROVE  TaskInv'
<1> USE MessagesAssumption DEF TypeOK, TaskInv
<1>1. ASSUME NEW m \in Msg, Deliver(m) \/ Read(m)
      PROVE  TaskInv'
  BY <1>1, BeginEffect DEF Deliver, Read
<1>2. ASSUME NEW t \in tasks, Step(t)
      PROVE  TaskInv'
  BY <1>2 DEF Step, Returns, Raises, AckRmq, AckRedis, histories, Task, Msg
<1>3. CASE Crash
  BY <1>3 DEF Crash
<1>4. ASSUME UNCHANGED <<tasks, ended, clean>>
      PROVE  TaskInv'
  BY <1>4
<1>5. CASE \/ Start \/ LoseLink \/ Relink \/ LoseRedis \/ Reconnect
           \/ UNCHANGED vars
  BY <1>4, <1>5 DEF Start, LoseLink, Relink, LoseRedis, Reconnect, vars,
                    histories
<1>6. ASSUME NEW m \in Msg, Publish(m) \/ Add(m) \/ LoseReply(m)
      PROVE  TaskInv'
  BY <1>4, <1>6 DEF Publish, Add, LoseReply, histories
<1> QED
  BY <1>1, <1>2, <1>3, <1>5, <1>6 DEF Next

LEMMA StepRmq ==
    ASSUME TypeOK, RmqInv, [Next]_vars
    PROVE  RmqInv'
<1> USE MessagesAssumption, MaxFaultsAssumption DEF TypeOK, RmqInv
<1>1. ASSUME NEW m \in Msg, Publish(m)
      PROVE  RmqInv'
  BY <1>1 DEF Publish, histories
<1>2. ASSUME NEW m \in Msg, Deliver(m)
      PROVE  RmqInv'
  <2>1. given' = [given EXCEPT ![m] = @ + 1] /\ m \in Rmq
    BY <1>2, BeginEffect DEF Deliver
  <2>2. \A n \in Rmq : n \in sent' => n \in sent
    BY <1>2 DEF Deliver
  <2> QED
    BY <1>2, <2>1, <2>2 DEF Deliver, Msg
<1>3. ASSUME NEW m \in Msg, Read(m)
      PROVE  RmqInv'
  <2>1. given' = [given EXCEPT ![m] = @ + 1] /\ m \notin Rmq
    BY <1>3, BeginEffect DEF Read
  <2> QED
    BY <1>3, <2>1 DEF Read, rmqVars, Msg
<1>4. ASSUME given' = given, sent' = sent, faults' = faults + 1
      PROVE  RmqInv'
  <2> SUFFICES ASSUME NEW n \in Rmq
               PROVE  /\ n \notin sent => given[n] = 0
                      /\ n \in ready' => given[n] <= faults + 1
                      /\ given[n] <= 1 + (faults + 1)
    BY <1>4
  <2>1. given[n] \in Nat /\ faults \in Nat
    BY DEF Msg
  <2> QED
    BY <2>1
<1>5. ASSUME NEW m \in Msg, LoseReply(m)
      PROVE  RmqInv'
  BY <1>4, <1>5 DEF LoseReply, Fault, rmqVars, histories
<1>6. CASE LoseLink \/ Crash \/ LoseRedis
  BY <1>4, <1>6 DEF LoseLink, Crash, LoseRedis, Fault, rmqVars, histories
<1>7. ASSUME NEW t \in tasks, Step(t)
      PROVE  RmqInv'
  BY <1>7 DEF Step, Returns, Raises, AckRmq, AckRedis, rmqVars, histories
<1>8. ASSUME NEW m \in Msg, Add(m)
      PROVE  RmqInv'
  BY <1>8 DEF Add, rmqVars, histories
<1>9. CASE Start \/ Relink \/ Reconnect \/ UNCHANGED vars
  BY <1>9 DEF Start, Relink, Reconnect, vars, rmqVars, histories
<1> QED
  BY <1>1, <1>2, <1>3, <1>5, <1>6, <1>7, <1>8, <1>9 DEF Next

LEMMA StepStream ==
    ASSUME TypeOK, StreamInv, [Next]_vars
    PROVE  StreamInv'
<1> USE MessagesAssumption DEF TypeOK, StreamInv
<1>1. CASE Start
  BY <1>1 DEF Start, histories
<1>2. ASSUME NEW m \in Msg, Add(m)
      PROVE  StreamInv'
  BY <1>2 DEF Add, histories, Msg
<1> DEFINE Advance(m) == /\ id[m] = cursor + 1
                        /\ cursor' = id[m]
                        /\ UNCHANGED <<id, group, up>> /\ up
<1>a. ASSUME NEW m \in Stream, Advance(m)
      PROVE  \A n \in Stream : id[n] \notin 1 .. cursor'
                                <=> id[n] \notin 1 .. cursor /\ n # m
  <2> SUFFICES ASSUME NEW n \in Stream
               PROVE  id[n] \notin 1 .. cursor'
                        <=> id[n] \notin 1 .. cursor /\ n # m
    OBVIOUS
  <2>1. /\ cursor \in Nat /\ id[n] \in Nat
        /\ id[m] = cursor + 1 /\ cursor' = cursor + 1
    BY <1>a
  <2>2. n = m <=> id[n] = cursor + 1
    BY <2>1
  <2> QED
    BY <2>1, <2>2
<1>b. ASSUME NEW m \in Stream, Advance(m)
      PROVE  /\ group'
             /\ \A i, j \in Stream : id'[i] = id'[j] /\ id'[i] # 0 => i = j
  BY <1>b
<1>3. ASSUME NEW m \in Msg, Read(m)
      PROVE  StreamInv'
  <2>1. m \in Stream /\ Advance(m)
    BY <1>3 DEF Read
  <2>2. given' = [given EXCEPT ![m] = @ + 1]
    BY <1>3, BeginEffect DEF Read
  <2>3. given[m] = 0
    BY <2>1
  <2>4. \A n \in Stream : /\ id[n] \notin 1 .. cursor' => given'[n] = 0
                          /\ given'[n] <= 1
    BY <1>a, <2>1, <2>2, <2>3 DEF Msg
  <2> QED
    BY <1>3, <1>b, <2>1, <2>4
<1>4. ASSUME NEW m \in Msg, Deliver(m)
      PROVE  StreamInv'
  BY <1>4, BeginEffect DEF Deliver, redisVars, Msg
<1>5. ASSUME NEW m \in Msg, LoseReply(m)
      PROVE  StreamInv'
  <2>1. m \in Stream /\ Advance(m) /\ given' = given
    BY <1>5 DEF LoseReply, histories
  <2>2. \A n \in Stream : /\ id[n] \notin 1 .. cursor' => given'[n] = 0
                          /\ given'[n] <= 1
    BY <1>a, <2>1
  <2> QED
    BY <1>5, <1>b, <2>1, <2>2
<1>6. ASSUME NEW t \in tasks, Step(t)
      PROVE  StreamInv'
  BY <1>6 DEF Step, Returns, Raises, AckRmq, AckRedis, redisVars, histories
<1>7. ASSUME NEW m \in Msg, Publish(m)
      PROVE  StreamInv'
  BY <1>7 DEF Publish, redisVars, histories
<1>8. CASE \/ LoseLink \/ Relink \/ LoseRedis \/ Reconnect \/ Crash
           \/ UNCHANGED vars
  BY <1>8 DEF LoseLink, Relink, LoseRedis, Reconnect, Crash, vars, redisVars,
              histories
<1> QED
  BY <1>1, <1>2, <1>3, <1>4, <1>5, <1>6, <1>7, <1>8 DEF Next

LEMMA StepSettled ==
    ASSUME TypeOK, TaskInv, StreamInv, SettledWasHandled, [Next]_vars
    PROVE  SettledWasHandled'
<1> USE MessagesAssumption DEF TypeOK, SettledWasHandled, Delivered
<1>1. CASE Start
  BY <1>1 DEF Start, StreamInv, rmqVars, histories
<1>2. ASSUME NEW m \in Msg, Publish(m)
      PROVE  SettledWasHandled'
  BY <1>2 DEF Publish, redisVars, histories
<1>3. ASSUME NEW m \in Msg, Add(m)
      PROVE  SettledWasHandled'
  BY <1>3 DEF Add, rmqVars, histories
<1>4. ASSUME NEW m \in Msg, Deliver(m)
      PROVE  SettledWasHandled'
  BY <1>4, BeginEffect DEF Deliver, redisVars
<1>5. ASSUME NEW m \in Msg, Read(m)
      PROVE  SettledWasHandled'
  <2>1. ended \subseteq ended' /\ clean \subseteq clean'
    BY <1>5, BeginEffect DEF Read
  <2>2. \A n \in Stream : id[n] \in 1 .. cursor' => id[n] \in 1 .. cursor \/ n = m
    BY <1>5 DEF Read, StreamInv
  <2>3. \A n \in Stream : Delivered(n)' /\ n \notin pending' => n \in clean'
    BY <1>5, <2>1, <2>2 DEF Read
  <2> QED
    BY <1>5, <2>1, <2>3 DEF Read, rmqVars
<1>6. ASSUME NEW m \in Msg, LoseReply(m)
      PROVE  SettledWasHandled'
  BY <1>6 DEF LoseReply, StreamInv, rmqVars, histories
<1>7. ASSUME NEW t \in tasks, Step(t)
      PROVE  SettledWasHandled'
  BY <1>7 DEF Step, Returns, Raises, AckRmq, AckRedis, TaskInv, rmqVars,
              redisVars, histories
<1>8. CASE LoseLink \/ Crash
  BY <1>8 DEF LoseLink, Crash, redisVars, histories
<1>9. CASE Relink \/ LoseRedis \/ Reconnect \/ UNCHANGED vars
  BY <1>9 DEF Relink, LoseRedis, Reconnect, vars, rmqVars, redisVars, histories
<1> QED
  BY <1>1, <1>2, <1>3, <1>4, <1>5, <1>6, <1>7, <1>8, <1>9 DEF Next

LEMMA IntakeInvariant == Spec => []IntakeInv
<1>1. IntakeInv /\ [Next]_vars => IntakeInv'
  BY StepType, StepTasks, StepRmq, StepStream, StepSettled DEF IntakeInv
<1> QED
  BY InitIntake, <1>1, PTL DEF Spec

-----------------------------------------------------------------------------
\* Every variable keeps its type, for any messages and faults: the group's
\* cursor never passes the newest entry, and a handling is at one of the two
\* awaits of its callback.
THEOREM TypeCorrect == Spec => []TypeOK
<1>1. IntakeInv => TypeOK
  BY DEF IntakeInv
<1> QED
  BY IntakeInvariant, <1>1, PTL

\* A broker forgets what was handled, and nothing else: RabbitMQ after a
\* handling that may have failed, the stream's group after one that did not.
THEOREM SettledMessagesWereHandled == Spec => []SettledWasHandled
<1>1. IntakeInv => SettledWasHandled
  BY DEF IntakeInv
<1> QED
  BY IntakeInvariant, <1>1, PTL

\* The number of handlings of a message is bounded by the faults, and an
\* entry of the stream has one at most.
THEOREM RepetitionNeedsFaults == Spec => []HandledAgainForFaultsOnly
<1>1. IntakeInv => HandledAgainForFaultsOnly
  BY DEF IntakeInv, RmqInv, StreamInv, HandledAgainForFaultsOnly
<1> QED
  BY IntakeInvariant, <1>1, PTL
=============================================================================
