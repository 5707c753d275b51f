----------------------------- MODULE MessageIntake -----------------------------
(***************************************************************************)
(* How messages from RabbitMQ and from a Redis stream reach their          *)
(* handlers, and when their broker forgets them.                           *)
(*                                                                         *)
(* RabbitMQHandler.consume acknowledges a message when its callback        *)
(* returns, and the callback swallows what the processor raises.  The      *)
(* broker delivers again whatever was not acknowledged when a connection   *)
(* ends; the tasks that were handling it go on all the same.               *)
(*                                                                         *)
(* RedisStreamConsumer reads entries the group has not delivered (">") and *)
(* acknowledges those whose processor returned.  It never asks for the     *)
(* pending ones.  Nothing in the repository starts it; the model runs it   *)
(* as its methods are written, init_group and then consume.                *)
(*                                                                         *)
(* A handling is a task, and its awaits are the handler and the            *)
(* acknowledgement; the callback up to the handler is one step with the    *)
(* delivery.  What dispatch_event makes of a message is its kind:          *)
(*   handled   its event has a handler, which may return or raise          *)
(*   refused   no mapping, or the mapping of another queue: an error is    *)
(*             returned, which nobody reads                                *)
(*   raises    no JSON, no map of events, a mapping without a handler or   *)
(*             with one that cannot be imported                            *)
(* The brokers and their client libraries are external.                    *)
(***************************************************************************)
EXTENDS Naturals

CONSTANTS
    Rmq,       \* messages sent to the queues that consume_multi consumes
    Stream,    \* entries added to the Redis stream
    MaxFaults  \* bound: connections lost and crashes
ASSUME MessagesAssumption == Rmq \cap Stream = {}
ASSUME MaxFaultsAssumption == MaxFaults \in Nat

VARIABLES
    kind,       \* what dispatch_event makes of each message
    up,         \* the process runs
    link,       \* its RabbitMQ connection is open
    epoch,      \* number of that connection
    redis,      \* Redis can be reached
    tasks,      \* the handlings under way
    sent,       \* RabbitMQ: messages published
    ready,      \* RabbitMQ: those waiting in their queue
    unacked,    \* RabbitMQ: those delivered on the open connection
    last,       \* Redis: id of the newest entry
    id,         \* Redis: the id of each entry; 0: not added
    group,      \* Redis: the consumer group exists
    cursor,     \* Redis: the group's last delivered id
    pending,    \* Redis: entries delivered and not acknowledged
    faults,     \* number of faults
    given,      \* history: how many times each message was handed over
    ended,      \* history: messages one of whose handlings has ended
    clean       \* history: those with a handling that raised nothing

rmqVars == <<sent, ready, unacked>>
redisVars == <<last, id, group, cursor, pending>>
histories == <<given, ended, clean>>
vars == <<kind, up, link, epoch, redis, tasks, rmqVars, redisVars, faults,
          histories>>

Msg == Rmq \cup Stream
Kind == {"handled", "refused", "raises"}
Task == [msg : Msg, epoch : Nat, at : {"handler", "settle"}]

TypeOK ==
    /\ kind \in [Msg -> Kind]
    /\ up \in BOOLEAN /\ link \in BOOLEAN /\ redis \in BOOLEAN
    /\ group \in BOOLEAN
    /\ tasks \subseteq Task
    /\ sent \subseteq Rmq /\ ready \subseteq sent /\ unacked \subseteq sent
    /\ pending \subseteq Stream
    /\ id \in [Stream -> 0 .. last]
    /\ epoch \in Nat /\ last \in Nat /\ cursor \in 0 .. last
    /\ faults \in 0 .. MaxFaults
    /\ given \in [Msg -> Nat]
    /\ ended \subseteq Msg /\ clean \subseteq ended

Init ==
    /\ kind \in [Msg -> Kind]
    /\ up = FALSE /\ link = FALSE /\ redis = TRUE
    /\ epoch = 0
    /\ tasks = {}
    /\ sent = {} /\ ready = {} /\ unacked = {}
    /\ last = 0 /\ id = [m \in Stream |-> 0]
    /\ group = FALSE /\ cursor = 0 /\ pending = {}
    /\ faults = 0
    /\ given = [m \in Msg |-> 0] /\ ended = {} /\ clean = {}

-----------------------------------------------------------------------------
(* The start of the server, and the senders.                               *)

\* Mutant: the group begins at the newest entry, "$" for "0".
StartAtTheEnd ==
    /\ ~up /\ redis
    /\ up' = TRUE /\ link' = TRUE
    /\ epoch' = epoch + 1
    /\ group' = TRUE
    /\ cursor' = IF group THEN cursor ELSE last
    /\ UNCHANGED <<kind, redis, tasks, rmqVars, last, id, pending, faults,
                   histories>>

\* connect and consume_multi; init_group makes the group unless it exists,
\* from the first entry of the stream on.
Start ==
    /\ ~up /\ redis
    /\ up' = TRUE /\ link' = TRUE
    /\ epoch' = epoch + 1
    /\ group' = TRUE
    /\ cursor' = IF group THEN cursor ELSE 0
    /\ UNCHANGED <<kind, redis, tasks, rmqVars, last, id, pending, faults,
                   histories>>

Publish(m) ==
    /\ m \in Rmq \ sent
    /\ sent' = sent \cup {m}
    /\ ready' = ready \cup {m}
    /\ UNCHANGED <<kind, up, link, epoch, redis, tasks, unacked, redisVars,
                   faults, histories>>

Add(m) ==
    /\ redis
    /\ m \in Stream /\ id[m] = 0
    /\ last' = last + 1
    /\ id' = [id EXCEPT ![m] = last + 1]
    /\ UNCHANGED <<kind, up, link, epoch, redis, tasks, rmqVars, group, cursor,
                   pending, faults, histories>>

-----------------------------------------------------------------------------
(* A handling, from the delivery to its end.                               *)

\* A new handling of m, up to its first await.  The caller of a processor
\* that raises goes straight on: RabbitMQ's to the acknowledgement, Redis's
\* to its end.
Begin(m) ==
    LET task(where) == [msg |-> m, epoch |-> epoch, at |-> where]
    IN  /\ given' = [given EXCEPT ![m] = @ + 1]
        /\ CASE kind[m] = "handled" ->
                /\ tasks' = tasks \cup {task("handler")}
                /\ UNCHANGED <<ended, clean>>
             [] kind[m] = "refused" ->
                /\ tasks' = tasks \cup {task("settle")}
                /\ ended' = ended \cup {m}
                /\ clean' = clean \cup {m}
             [] kind[m] = "raises" ->
                /\ tasks' = IF m \in Rmq THEN tasks \cup {task("settle")}
                                         ELSE tasks
                /\ ended' = ended \cup {m}
                /\ UNCHANGED clean

Deliver(m) ==
    /\ up /\ link
    /\ m \in ready
    /\ ready' = ready \ {m}
    /\ unacked' = unacked \cup {m}
    /\ Begin(m)
    /\ UNCHANGED <<kind, up, link, epoch, redis, sent, redisVars, faults>>

\* Mutant: the consumer asks for its pending entries too.
ReadPending(m) ==
    /\ up /\ redis
    /\ m \in Stream /\ (id[m] = cursor + 1 \/ m \in pending)
    /\ cursor' = IF id[m] > cursor THEN id[m] ELSE cursor
    /\ pending' = pending \cup {m}
    /\ Begin(m)
    /\ UNCHANGED <<kind, up, link, epoch, redis, rmqVars, last, id, group,
                   faults>>

\* xreadgroup with ">" and count 1.
Read(m) ==
    /\ up /\ redis
    /\ m \in Stream /\ id[m] = cursor + 1
    /\ cursor' = id[m]
    /\ pending' = pending \cup {m}
    /\ Begin(m)
    /\ UNCHANGED <<kind, up, link, epoch, redis, rmqVars, last, id, group,
                   faults>>

Returns(t) ==
    /\ t.at = "handler"
    /\ tasks' = (tasks \ {t}) \cup {[t EXCEPT !.at = "settle"]}
    /\ ended' = ended \cup {t.msg}
    /\ clean' = clean \cup {t.msg}
    /\ UNCHANGED <<kind, up, link, epoch, redis, rmqVars, redisVars, faults,
                   given>>

\* Mutant: what the processor raises leaves the callback, so that no
\* acknowledgement follows.
RaisesUnacked(t) ==
    /\ t.at = "handler"
    /\ tasks' = tasks \ {t}
    /\ ended' = ended \cup {t.msg}
    /\ UNCHANGED <<kind, up, link, epoch, redis, rmqVars, redisVars, faults,
                   given, clean>>

Raises(t) ==
    /\ t.at = "handler"
    /\ tasks' = IF t.msg \in Rmq
                THEN (tasks \ {t}) \cup {[t EXCEPT !.at = "settle"]}
                ELSE tasks \ {t}
    /\ ended' = ended \cup {t.msg}
    /\ UNCHANGED <<kind, up, link, epoch, redis, rmqVars, redisVars, faults,
                   given, clean>>

\* message.process() acknowledges on the connection of its delivery, and
\* raises when that has ended.
AckRmq(t) ==
    /\ t.at = "settle" /\ t.msg \in Rmq
    /\ tasks' = tasks \ {t}
    /\ unacked' = IF link /\ t.epoch = epoch THEN unacked \ {t.msg}
                                             ELSE unacked
    /\ UNCHANGED <<kind, up, link, epoch, redis, sent, ready, redisVars,
                   faults, histories>>

\* xack, whose failure is logged.
AckRedis(t) ==
    /\ t.at = "settle" /\ t.msg \in Stream
    /\ tasks' = tasks \ {t}
    /\ pending' = IF redis THEN pending \ {t.msg} ELSE pending
    /\ UNCHANGED <<kind, up, link, epoch, redis, rmqVars, last, id, group,
                   cursor, faults, histories>>

-----------------------------------------------------------------------------
(* What goes wrong, and its repair.                                        *)

Fault == faults < MaxFaults /\ faults' = faults + 1

\* The broker puts back what was not acknowledged.
LoseLink ==
    /\ link /\ Fault
    /\ link' = FALSE
    /\ ready' = ready \cup unacked
    /\ unacked' = {}
    /\ UNCHANGED <<kind, up, epoch, redis, tasks, sent, redisVars, histories>>

\* connect_robust connects and consumes again.
Relink ==
    /\ up /\ ~link
    /\ link' = TRUE
    /\ epoch' = epoch + 1
    /\ UNCHANGED <<kind, up, redis, tasks, rmqVars, redisVars, faults,
                   histories>>

LoseRedis ==
    /\ redis /\ Fault
    /\ redis' = FALSE
    /\ UNCHANGED <<kind, up, link, epoch, tasks, rmqVars, redisVars, histories>>

\* The connection breaks after Redis has noted the delivery and before the
\* consumer has the reply: the loop logs the error and reads on.
LoseReply(m) ==
    /\ up /\ redis /\ Fault
    /\ m \in Stream /\ id[m] = cursor + 1
    /\ cursor' = id[m]
    /\ pending' = pending \cup {m}
    /\ redis' = FALSE
    /\ UNCHANGED <<kind, up, link, epoch, tasks, rmqVars, last, id, group,
                   histories>>

\* The loop's sleep, reconnect and next xreadgroup.
Reconnect ==
    /\ ~redis
    /\ redis' = TRUE
    /\ UNCHANGED <<kind, up, link, epoch, tasks, rmqVars, redisVars, faults,
                   histories>>

\* The process ends, its tasks and its connections with it.
Crash ==
    /\ up /\ Fault
    /\ up' = FALSE /\ link' = FALSE
    /\ tasks' = {}
    /\ ready' = ready \cup unacked
    /\ unacked' = {}
    /\ UNCHANGED <<kind, epoch, redis, sent, redisVars, histories>>

Step(t) == Returns(t) \/ Raises(t) \/ AckRmq(t) \/ AckRedis(t)

Next ==
    \/ Start
    \/ \E m \in Msg : \/ Publish(m) \/ Add(m)
                      \/ Deliver(m) \/ Read(m) \/ LoseReply(m)
    \/ \E t \in tasks : Step(t)
    \/ LoseLink \/ Relink \/ LoseRedis \/ Reconnect \/ Crash

Spec == Init /\ [][Next]_vars

\* The process is started again, connections are made again and handlers end.
\* Nobody is obliged to send.
Fairness ==
    /\ WF_vars(Start \/ Relink \/ Reconnect)
    /\ WF_vars(\E m \in Msg : Deliver(m) \/ Read(m))
    /\ WF_vars(\E t \in tasks : Step(t))
FairSpec == Spec /\ Fairness

-----------------------------------------------------------------------------
(* Properties.                                                             *)

Delivered(m) == m \in Stream /\ id[m] \in 1 .. cursor

\* What RabbitMQ has forgotten was handled to an end, if only to an error,
\* whatever connection or process was lost meanwhile; what the stream's group
\* has settled was handled without one.  (rabbitmq_handler.py:71,
\* redis_stream_consumer.py:63: where each acknowledges.)
SettledWasHandled ==
    /\ \A m \in sent \ (ready \cup unacked) : m \in ended
    /\ \A m \in Stream : Delivered(m) /\ m \notin pending => m \in clean

\* A message of RabbitMQ is handled again for a lost connection or process
\* only, never for an error of its handler; an entry of the stream is handed
\* over once at most, crashes and reconnects included.
\* (rabbitmq_handler.py:77, redis_stream_consumer.py:40.)
HandledAgainForFaultsOnly ==
    /\ \A m \in Rmq : given[m] <= 1 + faults
    /\ \A m \in Stream : given[m] <= 1

\* Every message of a consumed queue is settled in the end and every entry is
\* read in the end, poison and faults notwithstanding: nothing blocks a queue.
IntakeDrains ==
    /\ \A m \in Rmq : m \in sent ~> m \notin ready \cup unacked
    /\ \A m \in Stream : id[m] # 0 ~> Delivered(m)
=============================================================================
