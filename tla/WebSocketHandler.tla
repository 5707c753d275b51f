--------------------------- MODULE WebSocketHandler ---------------------------
(***************************************************************************)
(* The observers of the simulations: the WebSocketHandler with its         *)
(* registries, the endpoint coroutine that serves each connection, and the *)
(* coroutines whose events are broadcast to the session of a simulation.   *)
(*                                                                         *)
(* A process is a connection's endpoint (Conn) or any other coroutine that *)
(* emits events (Task: a REST handler, an auto-tick task).  A broadcast    *)
(* awaits one send after the other: todo[p] holds the connections process  *)
(* p has still to serve, the first of them being the one it waits for.     *)
(* pc[p] is where p stands:                                                *)
(*                                                                         *)
(*   idle, off    a task between two events; an endpoint not yet called    *)
(*   accepting    init: websocket.accept                                   *)
(*   greeting     sending SESSION_CONNECTED                                *)
(*   rejecting    sending the error for an unknown simulation              *)
(*   closing      destroy: websocket.close                                 *)
(*   receiving    process: receive_text                                    *)
(*   working      process: the processor awaits the SimulationManager      *)
(*   telling      emit: the broadcast of TIMELINE_EVENT                    *)
(*   answering    process: the broadcast of the response, or an error      *)
(*   done         the endpoint has returned                                *)
(*                                                                         *)
(* External, from how the code uses it: Starlette's WebSocket writes a     *)
(* message when send_json is called and returns when the peer has taken    *)
(* it, raises once the peer is gone, and then counts as disconnected.      *)
(***************************************************************************)
EXTENDS EventTimeline

CONSTANTS
    Conn,           \* WebSocket connections, each used once
    Task,           \* other coroutines that emit events
    Loop,           \* those of them that run in auto-tick tasks
    None,           \* Python's None
    SnapshotLimit,  \* how much of the timeline a new connection is sent
    MaxEmits,       \* bound: events per simulation
    MaxRequests     \* bound: messages received from clients

ASSUME ObserverAssumption ==
    /\ Conn \cap Task = {} /\ Loop \subseteq Task
    /\ SnapshotLimit \in Nat \ {0}
    /\ MaxEmits \in Nat /\ MaxRequests \in Nat

Proc == Conn \cup Task

VARIABLES
    pc,          \* where each process stands
    sid,         \* websocket._sid
    registered,  \* websocket._ws_registered
    active,      \* active_connections
    sessions,    \* session_map; <<>> where it has no key
    state,       \* application_state and client_state, the worse of the two
    link,        \* whether the peer is still there
    wire,        \* what the server has written to each peer
    todo,        \* the rest of each process's broadcast
    out,         \* the message each process is sending
    missed,      \* history: the events a cancelled broadcast kept from each peer
    about,       \* the simulation a command is about
    requests,    \* messages received so far
    serving,     \* the server has not begun to shut down
    leaving      \* disconnect_all's list: what is left of it

registryVars == <<registered, active, sessions>>
vars == <<timelineVars, registryVars, pc, sid, state, link, wire, todo, out,
          missed, about, requests, serving, leaving>>

Pc == {"idle", "off", "accepting", "greeting", "rejecting", "closing",
       "receiving", "working", "telling", "answering", "done"}
Message ==
    [kind : {"connected"}, recent : Seq(Nat), version : Nat]
      \cup [kind : {"event"}, n : Nat \ {0}, by : Proc]
      \cup [kind : {"state"}, version : Nat, by : Conn]
      \cup [kind : {"error", "notice"}]
ASSUME NoneAssumption == None \notin Message

TypeOK ==
    /\ TimelineTypeOK
    /\ pc \in [Proc -> Pc]
    /\ sid \in [Conn -> Sim \cup {None}]
    /\ registered \in [Conn -> BOOLEAN]
    /\ active \in Seq(Conn)
    /\ sessions \in [Sim -> Seq(Conn)]
    /\ state \in [Conn -> {"connecting", "connected", "disconnected"}]
    /\ link \in [Conn -> {"open", "lost"}]
    /\ wire \in [Conn -> Seq(Message)]
    /\ todo \in [Proc -> Seq(Conn)]
    /\ out \in [Proc -> Message \cup {None}]
    /\ missed \in [Conn -> SUBSET Nat]
    /\ about \in [Conn -> Sim \cup {None}]
    /\ requests \in Nat
    /\ serving \in BOOLEAN
    /\ leaving \in Seq(Conn)

Init ==
    /\ TimelineInit
    /\ pc = [p \in Proc |-> IF p \in Task THEN "idle" ELSE "off"]
    /\ sid = [c \in Conn |-> None]
    /\ registered = [c \in Conn |-> FALSE]
    /\ active = <<>>
    /\ sessions = [s \in Sim |-> <<>>]
    /\ state = [c \in Conn |-> "connecting"]
    /\ link = [c \in Conn |-> "open"]
    /\ wire = [c \in Conn |-> <<>>]
    /\ todo = [p \in Proc |-> <<>>]
    /\ out = [p \in Proc |-> None]
    /\ missed = [c \in Conn |-> {}]
    /\ about = [c \in Conn |-> None]
    /\ requests = 0
    /\ serving = TRUE
    /\ leaving = <<>>

-----------------------------------------------------------------------------
(* Registration *)

Goto(p, label) == pc' = [pc EXCEPT ![p] = label]

\* What list.remove leaves of q when the connections in gone are removed: the
\* rest, each in the place its rank gives it.
Rank(kept, i) == Cardinality({j \in kept : j <= i})
Without(q, gone) ==
    LET kept == {i \in DOMAIN q : q[i] \notin gone}
    IN  [n \in 1 .. Cardinality(kept) |->
            q[CHOOSE i \in kept : Rank(kept, i) = n]]

\* Mutant: the session keeps a connection that is no longer active.
UnregisterActive(gone) ==
    /\ registered' = [c \in Conn |-> registered[c] /\ c \notin gone]
    /\ active' = Without(active, gone)
    /\ UNCHANGED sessions

\* _unregister, for every connection in gone; nothing for a second time.
Unregister(gone) ==
    /\ registered' = [c \in Conn |-> registered[c] /\ c \notin gone]
    /\ active' = Without(active, gone)
    /\ sessions' = [s \in Sim |-> Without(sessions[s], gone)]

\* Mutant: the connection's sid is read from the request, which has none.
RegisterWithoutSid(c) ==
    /\ registered' = [registered EXCEPT ![c] = TRUE]
    /\ active' = Append(active, c)
    /\ sessions' = [s \in Sim \cup {None} |->
                       IF s = None THEN <<c>> ELSE sessions[s]]

Register(c) ==
    /\ registered' = [registered EXCEPT ![c] = TRUE]
    /\ active' = Append(active, c)
    /\ sessions' = [sessions EXCEPT ![sid[c]] = Append(@, c)]

\* Mutant: a connection that was destroyed is still written to.
SendableIfConnected(c) == state[c] # "connecting"

Sendable(c) == registered[c] /\ state[c] = "connected"

-----------------------------------------------------------------------------
(* Sending *)

\* A write reaches the peer only while it is there.
Written(c, m) ==
    IF link[c] = "open" THEN [wire EXCEPT ![c] = Append(@, m)] ELSE wire

\* Mutant: a failed send is only logged.
LoggedOnly(failed) == {}

\* send_to_connection destroys a connection whose send has raised.
Destroyed(failed) == failed

\* Where process p goes when the last send of a broadcast has returned, or
\* raised.  An endpoint that could not greet returns as it is; the loop of
\* process ends, with a destroy, once the connection is not registered.
After(p, busy, failed, gone) ==
    CASE busy = "telling"   -> IF p \in Task THEN "idle" ELSE "working"
      [] busy = "rejecting" -> "closing"
      [] busy = "greeting" /\ p \in failed -> "done"
      [] OTHER -> IF registered[p] /\ p \notin gone THEN "receiving" ELSE "done"

CanSend(c, failed) == Sendable(c) /\ c \notin failed

\* The loop of broadcast_to_session, from connection number 1 of rest up to
\* its next await: connections that cannot be sent to are destroyed, the
\* first one that can is written to.  failed: sends that have just raised.
Proceed(p, m, rest, failed, busy) ==
    \E at \in 1 .. (Len(rest) + 1) :
        LET passed == 1 .. (at - 1)
            gone   == Destroyed(failed) \cup {rest[i] : i \in passed}
            ended  == at = Len(rest) + 1
            then   == IF ended THEN After(p, busy, failed, gone) ELSE busy
        IN /\ \A i \in passed : ~CanSend(rest[i], failed)
           /\ ~ended => CanSend(rest[at], failed)
           /\ Unregister(gone)
           /\ todo' = [todo EXCEPT ![p] = SubSeq(rest, at, Len(rest))]
           /\ out' = [out EXCEPT ![p] = IF ended THEN None ELSE m]
           /\ wire' = IF ended THEN wire ELSE Written(rest[at], m)
           /\ Goto(p, then)
           /\ state' = [c \in Conn |->
                  IF c \in failed \/ (c = p /\ then = "closing")
                  THEN "disconnected" ELSE state[c]]

\* Process p awaits a send to the first connection of todo[p].
Sending(p) == out[p] # None

\* The send process p awaits has raised: the connection is destroyed.
SendRaises(p) ==
    /\ Sending(p)
    /\ link[Head(todo[p])] = "lost" \/ state[Head(todo[p])] = "disconnected"
    /\ Proceed(p, out[p], Tail(todo[p]), {Head(todo[p])}, pc[p])
    /\ UNCHANGED <<timelineVars, sid, link, missed, about, requests, serving,
                   leaving>>

\* The send process p awaits has returned.
SendReturns(p) ==
    /\ Sending(p)
    /\ Proceed(p, out[p], Tail(todo[p]), {}, pc[p])
    /\ UNCHANGED <<timelineVars, sid, link, missed, about, requests, serving,
                   leaving>>

-----------------------------------------------------------------------------
(* Events *)

Event(n, p) == [kind |-> "event", n |-> n, by |-> p]

\* emit, publish and the broadcast up to its first await.
EmitFrom(p, s) ==
    /\ emitted[s] < MaxEmits
    /\ Record(s, sessions[s] # <<>>)
    /\ Proceed(p, Event(emitted'[s], p), sessions[s], {}, "telling")

\* Mutant: the broadcast is not awaited, so its coroutine goes on at once.
EmitDetached(t) ==
    /\ \E s \in Sim :
        \E q \in {u \in Task : pc[u] = "idle"} :
            /\ emitted[s] < MaxEmits
            /\ Record(s, sessions[s] # <<>>)
            /\ Proceed(q, Event(emitted'[s], t), sessions[s], {}, "telling")
    /\ UNCHANGED <<sid, link, missed, about, requests, serving, leaving>>

Emit(t) ==
    /\ pc[t] = "idle"
    /\ \E s \in Sim : EmitFrom(t, s)
    /\ UNCHANGED <<sid, link, missed, about, requests, serving, leaving>>

Members(q) == {q[i] : i \in DOMAIN q}
IsEvent(m, n) == m.kind = "event" /\ m.n = n
\* p has still to come to c in its broadcast of event n.
Owes(p, c, n) == Sending(p) /\ IsEvent(out[p], n) /\ c \in Members(Tail(todo[p]))

Happened == UNION {1 .. emitted[s] : s \in Sim}

\* stop and close cancel an auto-tick task at the send it awaits.  No handler
\* on the way is one for CancelledError: the broadcast ends there, nobody is
\* destroyed, and whom it had still to come to never gets the event.
Cancel(l) ==
    /\ Sending(l)
    /\ todo' = [todo EXCEPT ![l] = <<>>]
    /\ out' = [out EXCEPT ![l] = None]
    /\ missed' = [c \in Conn |-> missed[c] \cup {n \in Happened : Owes(l, c, n)}]
    /\ Goto(l, "idle")
    /\ UNCHANGED <<timelineVars, registryVars, sid, state, link, wire, about,
                   requests, serving, leaving>>

-----------------------------------------------------------------------------
(* The endpoint of a connection *)

Connect(c) ==
    /\ pc[c] = "off"
    /\ serving
    /\ \E s \in Sim : sid' = [sid EXCEPT ![c] = s]
    /\ Goto(c, "accepting")
    /\ UNCHANGED <<timelineVars, registryVars, state, link, missed, wire,
                   todo, out, about, requests, serving, leaving>>

\* accept raises: there is nothing to close and nothing to unregister.
AcceptRaises(c) ==
    /\ pc[c] = "accepting"
    /\ link[c] = "lost"
    /\ Goto(c, "done")
    /\ UNCHANGED <<timelineVars, registryVars, sid, state, link, missed, wire,
                   todo, out, about, requests, serving, leaving>>

Connected(s) ==
    [kind |-> "connected", version |-> emitted[s],
     recent |-> ListItems(s, SnapshotLimit)]

\* accept returns: the connection is registered and, with no await between,
\* the snapshot is taken and its send begins.
Accept(c) ==
    LET s == sid[c]
        m == IF Known(s) THEN Connected(s) ELSE [kind |-> "error"]
    IN /\ pc[c] = "accepting"
       /\ Register(c)
       /\ state' = [state EXCEPT ![c] = "connected"]
       /\ todo' = [todo EXCEPT ![c] = <<c>>]
       /\ out' = [out EXCEPT ![c] = m]
       /\ wire' = Written(c, m)
       /\ Goto(c, IF Known(s) THEN "greeting" ELSE "rejecting")
       /\ UNCHANGED <<timelineVars, sid, link, missed, about, requests,
                      serving, leaving>>

\* The rejected connection has been closed.
Closed(c) ==
    /\ pc[c] = "closing"
    /\ Unregister({c})
    /\ Goto(c, "done")
    /\ UNCHANGED <<timelineVars, sid, state, link, missed, wire, todo, out,
                   about, requests, serving, leaving>>

\* receive_text returns a message.
Receives(c) ==
    /\ pc[c] = "receiving"
    /\ link[c] = "open" /\ state[c] = "connected"
    /\ requests < MaxRequests
    /\ requests' = requests + 1

\* An answer that tells nothing of the simulation: PONG and every error but
\* the one an unknown simulation is rejected with.
Notice == [kind |-> "notice"]

\* What is not a JSON object is answered on the same connection.
ReceiveInvalid(c) ==
    /\ Receives(c)
    /\ Proceed(c, Notice, <<c>>, {}, "answering")
    /\ UNCHANGED <<timelineVars, sid, link, missed, about, serving, leaving>>

\* GET_STATE and the commands answer with the state as it then is.
State(c, s) == [kind |-> "state", version |-> emitted[s], by |-> c]

\* PING, GET_STATE and unknown types are answered at once, to the session the
\* message names: its header's sid, which need not be the connection's.
ReceiveQuery(c) ==
    /\ Receives(c)
    /\ \E s \in Sim :
        \E m \in {Notice} \cup IF Known(s) THEN {State(c, s)} ELSE {} :
            Proceed(c, m, sessions[s], {}, "answering")
    /\ UNCHANGED <<timelineVars, sid, link, missed, about, serving, leaving>>

\* A command: the processor awaits a call of the SimulationManager.
ReceiveCommand(c) ==
    /\ Receives(c)
    /\ \E s \in Sim : about' = [about EXCEPT ![c] = s]
    /\ Goto(c, "working")
    /\ UNCHANGED <<timelineVars, registryVars, sid, state, link, missed, wire,
                   todo, out, serving, leaving>>

\* The call emits an event.
CommandEmits(c) ==
    /\ pc[c] = "working"
    /\ EmitFrom(c, about[c])
    /\ UNCHANGED <<sid, link, missed, about, requests, serving, leaving>>

\* The call returns a state, or raises: KeyError and ValueError become
\* TERRARIUM_ERROR, any other exception a message without a type.
CommandReturns(c) ==
    /\ pc[c] = "working"
    /\ \E m \in {Notice}
                 \cup IF Known(about[c]) THEN {State(c, about[c])} ELSE {} :
           Proceed(c, m, sessions[about[c]], {}, "answering")
    /\ about' = [about EXCEPT ![c] = None]
    /\ UNCHANGED <<timelineVars, sid, link, missed, requests, serving, leaving>>

\* Mutant: after a disconnect the loop goes on to its next turn.
HangupIgnored(c) ==
    /\ pc[c] = "receiving"
    /\ link[c] = "lost" \/ state[c] = "disconnected"
    /\ state' = [state EXCEPT ![c] = "disconnected"]
    /\ UNCHANGED <<timelineVars, registryVars, pc, sid, link, missed, wire,
                   todo, out, about, requests, serving, leaving>>

\* receive_text raises WebSocketDisconnect: process ends with destroy.
Hangup(c) ==
    /\ pc[c] = "receiving"
    /\ link[c] = "lost" \/ state[c] = "disconnected"
    /\ Unregister({c})
    /\ state' = [state EXCEPT ![c] = "disconnected"]
    /\ Goto(c, "done")
    /\ UNCHANGED <<timelineVars, sid, link, missed, wire, todo, out, about,
                   requests, serving, leaving>>

\* External: the peer goes away, or its network does.
LoseLink(c) ==
    /\ pc[c] \notin {"off", "done"}
    /\ link[c] = "open"
    /\ link' = [link EXCEPT ![c] = "lost"]
    /\ UNCHANGED <<timelineVars, registryVars, pc, sid, state, wire, todo,
                   out, about, missed, requests, serving, leaving>>

-----------------------------------------------------------------------------
(* Shutdown *)

\* disconnect_all takes its copy of the list.  The server has stopped
\* accepting before it shuts the application down (external).
ShutDown ==
    /\ serving
    /\ \A c \in Conn : pc[c] # "accepting"
    /\ serving' = FALSE
    /\ leaving' = active
    /\ UNCHANGED <<timelineVars, registryVars, pc, sid, state, link, missed,
                   wire, todo, out, about, requests>>

\* destroy(close=True) on the next connection: the close is sent ...
CloseNext ==
    /\ leaving # <<>>
    /\ state[Head(leaving)] = "connected"
    /\ state' = [state EXCEPT ![Head(leaving)] = "disconnected"]
    /\ UNCHANGED <<timelineVars, registryVars, pc, sid, link, missed, wire,
                   todo, out, about, requests, serving, leaving>>

\* Mutant: the loop walks the list that destroy shortens.
DestroyNextInPlace ==
    /\ leaving # <<>>
    /\ state[Head(leaving)] # "connected"
    /\ Unregister({Head(leaving)})
    /\ leaving' = IF Len(leaving) < 2 THEN <<>> ELSE Tail(Tail(leaving))
    /\ UNCHANGED <<timelineVars, pc, sid, state, link, missed, wire, todo,
                   out, about, requests, serving>>

\* ... and when that is done, or was not called for, it is unregistered.
DestroyNext ==
    /\ leaving # <<>>
    /\ state[Head(leaving)] # "connected"
    /\ Unregister({Head(leaving)})
    /\ leaving' = Tail(leaving)
    /\ UNCHANGED <<timelineVars, pc, sid, state, link, missed, wire, todo,
                   out, about, requests, serving>>

-----------------------------------------------------------------------------

Endpoint(c) ==
    \/ Accept(c) \/ AcceptRaises(c) \/ Closed(c) \/ CommandReturns(c)
    \/ Hangup(c)

Next ==
    \/ \E p \in Proc : SendReturns(p) \/ SendRaises(p)
    \/ \E t \in Task : Emit(t)
    \/ \E l \in Loop : Cancel(l)
    \/ \E c \in Conn :
        \/ Connect(c) \/ AcceptRaises(c) \/ Accept(c) \/ Closed(c)
        \/ ReceiveInvalid(c) \/ ReceiveQuery(c) \/ ReceiveCommand(c)
        \/ CommandEmits(c) \/ CommandReturns(c)
        \/ Hangup(c) \/ LoseLink(c)
    \/ ShutDown \/ CloseNext \/ DestroyNext

Spec == Init /\ [][Next]_vars

\* A peer that takes nothing is dropped by the server's keepalive (external),
\* the manager's calls end because the LLM client has a timeout, and the event
\* loop runs what is ready.  Nobody has to connect, send or emit anything.
FairSpec ==
    /\ Spec
    /\ \A t \in Task : WF_vars(SendReturns(t) \/ SendRaises(t))
    /\ \A c \in Conn : WF_vars(SendReturns(c) \/ SendRaises(c) \/ Endpoint(c))
    /\ WF_vars(CloseNext \/ DestroyNext)

-----------------------------------------------------------------------------
(* Properties *)

NoRepeats(q) == \A i, j \in DOMAIN q : i # j => q[i] # q[j]

\* _ws_registered, active_connections and session_map tell the same story,
\* although any coroutine that fails to send may destroy any connection.
RegistriesAgree ==
    /\ NoRepeats(active)
    /\ Members(active) = {c \in Conn : registered[c]}
    /\ \A s \in Sim :
        /\ NoRepeats(sessions[s])
        /\ Members(sessions[s]) = {c \in Conn : registered[c] /\ sid[c] = s}

\* However an endpoint ends, its connection is not left behind.
EndpointCleansUp == \A c \in Conn : pc[c] = "done" => ~registered[c]

\* The first thing a connection hears is its snapshot, or why it gets none:
\* no event can get ahead of it.
GreetedFirst ==
    \A c \in Conn : wire[c] # <<>> => wire[c][1].kind \in {"connected", "error"}

\* The newest event a greeting stands for; one who asks for a simulation that
\* does not exist is shown none, and hears its events until it is closed.
ShownTo(c) == IF wire[c][1].kind = "connected" THEN Last(wire[c][1].recent) ELSE 0

\* The snapshot and the broadcasts that follow fit together: an event after
\* the snapshot's newest is on the wire or still to come, exactly once, and
\* no event the snapshot stood for is sent again.  The only news that is lost
\* to a peer who stays is what a cancelled broadcast kept from it.
NewsOnceUnlessCancelled ==
    \A c \in Conn :
        registered[c] /\ link[c] = "open" /\ state[c] = "connected"
        => \A n \in 1 .. emitted[sid[c]] :
              Cardinality({i \in DOMAIN wire[c] : IsEvent(wire[c][i], n)})
                + Cardinality({p \in Proc : Owes(p, c, n)})
                = IF n > ShownTo(c) /\ n \notin missed[c] THEN 1 ELSE 0

\* What one coroutine sends arrives in the order it sent it, at every observer:
\* its events, and the states that answer its commands, which are never behind
\* an event of the command they answer.  For a tick, which the lock gives to
\* one coroutine at a time, that is the whole story.
Tells(m) == IF m.kind = "event" THEN m.n ELSE m.version

EachSourceInOrder ==
    \A c \in Conn :
        \A i, j \in DOMAIN wire[c] :
            LET m == wire[c][i]
                l == wire[c][j]
            IN /\ i < j
               /\ {m.kind, l.kind} \subseteq {"event", "state"}
               /\ m.by = l.by
               => /\ Tells(m) <= Tells(l)
                  /\ m.kind = "event" /\ l.kind = "event" => m.n # l.n

\* disconnect_all leaves no connection registered.
ShutdownClears ==
    ~serving /\ leaving = <<>> => \A c \in Conn : ~registered[c]

\* A broadcast that is under way does not write to a connection somebody
\* else has destroyed, although it holds it in its own copy of the list.
NothingToDestroyed ==
    [][\A c \in Conn :
          pc[c] \notin {"off", "accepting"} /\ ~registered[c]
          => wire'[c] = wire[c]]_vars

\* A peer that has gone is noticed and unregistered.
LostIsForgotten == \A c \in Conn : link[c] = "lost" ~> ~registered[c]

-----------------------------------------------------------------------------
(* Refinement *)

\* What an observer makes of a message that is not its first.
ItemOf(m) ==
    CASE m.kind = "event" -> [kind |-> "event", n |-> m.n, by |-> m.by]
      [] m.kind = "state" -> [kind |-> "state", n |-> m.version, by |-> m.by]
      [] OTHER            -> [kind |-> "notice"]

\* SESSION_CONNECTED, or the error that takes its place, shows all there was.
FeedOf(c) ==
    [i \in 1 .. Len(wire[c]) |->
        IF i = 1 THEN [kind |-> "snapshot", n |-> ShownTo(c)]
        ELSE ItemOf(wire[c][i])]

PhaseOf(c) ==
    IF registered[c] THEN "following"
    ELSE IF pc[c] \in {"off", "accepting"} THEN "new" ELSE "gone"

Feed == INSTANCE ObserverFeed WITH
    Observer <- Conn,
    Source   <- Proc,
    session  <- sid,
    phase    <- [c \in Conn |-> PhaseOf(c)],
    feed     <- [c \in Conn |-> FeedOf(c)]

\* The handler keeps the promise of a feed: whatever endpoints, tasks, failed
\* sends and the shutdown do to the registries, each observer is greeted with
\* all there is, hears nothing twice, nothing late from one source, and nothing
\* once it has been destroyed.
ImplementsFeed == Feed!Spec
=============================================================================
