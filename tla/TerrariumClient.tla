---------------------------- MODULE TerrariumClient ----------------------------
(***************************************************************************)
(* The page examples/terrarium_client.html: one browser tab that shows one *)
(* session through two channels, REST answers and a WebSocket.             *)
(*                                                                         *)
(* Every change of a session is one entry of its log: the status after it. *)
(* Entry n is also timeline item n, so a snapshot of a session and a page  *)
(* of its timeline are both named by the length of the log they were taken *)
(* from.  A request is served in one step and its answer arrives in a      *)
(* later one; answers of different requests arrive in any order.  The news *)
(* of one socket do so too: broadcasts of different tasks overtake each    *)
(* other on the server, and one whose task is cancelled reaches some of    *)
(* the sockets never.                                                      *)
(*                                                                         *)
(* A call is an async function of the page from one await to the next:     *)
(*   read     loadState or loadTimeline of a timer, a message or a button  *)
(*   boot     bootstrap; "over" once the session it found is STOPPED       *)
(*   start, control, stop   controlSimulation; control is pause, resume    *)
(*            and tick                                                     *)
(* What happens between two awaits is one step: promises that are settled  *)
(* resume before the next event of the browser.  SIMULATION_STATE answers  *)
(* commands sent by WebSocket, which this page never sends.                *)
(***************************************************************************)
EXTENDS Naturals, Sequences

CONSTANTS
    MaxSession,  \* sessions are 1, the one of the page's address, to this
    MaxSocket,   \* bound: sockets that exist at once
    MaxCall,     \* bound: calls under way at once
    Limit,       \* MAX_TIMELINE_ITEMS and the limit of GET /timeline
    Recent,      \* items SESSION_CONNECTED carries
    MaxTicks,    \* bound: length of a log that auto-ticks reach
    MaxInputs    \* bound: buttons pressed, requests and connections failed
ASSUME ClientAssumption ==
    /\ MaxSession \in Nat \ {0} /\ MaxSocket \in Nat /\ MaxCall \in Nat \ {0}
    /\ Limit \in Nat \ {0} /\ Recent \in Nat
    /\ MaxTicks \in Nat /\ MaxInputs \in Nat

Session == 1 .. MaxSession
Socket == 1 .. MaxSocket
Slot == 1 .. MaxCall

VARIABLES
    log,           \* server: what each session has been through
    simulationId,  \* 0: none
    currentState,  \* the snapshot shown
    timelineItems, \* newest first
    overtaken,     \* history: the list was given an item that a newer one of
                   \* its session had overtaken on the socket
    polling,       \* statePollTimer is set
    websocket,     \* 0: none
    sockets,       \* the browser's sockets
    intentional,   \* intentionalWsClose
    timer,         \* reconnectTimer is pending
    strays,        \* reconnect timers whose id was overwritten
    stopTimers,    \* pending calls of disconnectTimeline, 150 ms after a stop
    busy,          \* the buttons are disabled
    calls,         \* the calls under way
    inputs         \* buttons pressed and failures

feed == <<timelineItems, overtaken>>
screen == <<simulationId, currentState, feed>>
page == <<screen, polling, busy>>
choice == <<websocket, intentional>>
timers == <<timer, strays>>
line == <<choice, sockets, timers>>
vars == <<log, page, line, stopTimers, calls, inputs>>

Status == {"READY", "RUNNING", "PAUSED", "STOPPED"}
Snapshot == [of : 0 .. MaxSession, at : Nat]
Nothing == [of |-> 0, at |-> 0]
Call == [op : {"none", "read", "boot", "over", "start", "control", "stop"},
         at : {"none", "create", "join", "openNew", "first", "open", "post",
               "state", "timeline"},
         on : Nat,   \* the session asked about, or the socket waited for
         got : {"no", "ok", "missing", "failed"},
         ver : Nat]  \* the length of the log in the answer
Free == [op |-> "none", at |-> "none", on |-> 0, got |-> "no", ver |-> 0]
Wire == [at : {"none", "connecting", "open", "closing"}, to : 0 .. MaxSession,
         hello : Nat,  \* 0: SESSION_CONNECTED has been read
         seen : Nat,   \* the newest item sent to the page
         late : SUBSET Nat]  \* older ones that it overtook
Unused == [at |-> "none", to |-> 0, hello |-> 0, seen |-> 0, late |-> {}]

TypeOK ==
    /\ log \in [Session -> Seq(Status)]
    /\ simulationId \in 0 .. MaxSession
    /\ currentState \in Snapshot
    /\ timelineItems \in Seq(Snapshot)
    /\ polling \in BOOLEAN /\ intentional \in BOOLEAN /\ busy \in BOOLEAN
    /\ timer \in BOOLEAN /\ overtaken \in BOOLEAN
    /\ websocket \in 0 .. MaxSocket
    /\ sockets \in [Socket -> Wire]
    /\ strays \in Nat /\ stopTimers \in Nat /\ inputs \in Nat
    /\ calls \in [Slot -> Call]

Request(op, at, s) == [Free EXCEPT !.op = op, !.at = at, !.on = s]

\* bootstrap, for an address with a session, known to the server or not.
Init ==
    /\ log \in {[s \in Session |-> IF s = 1 THEN l ELSE <<>>] :
                  l \in {<<>>, <<"RUNNING">>, <<"STOPPED">>}}
    /\ simulationId \in IF log[1] = <<>> THEN {0, 1} ELSE {1}
    /\ currentState = Nothing
    /\ timelineItems = <<>> /\ overtaken = FALSE
    /\ polling = FALSE /\ busy = FALSE
    /\ websocket = 0 /\ sockets = [n \in Socket |-> Unused]
    /\ intentional = FALSE /\ timer = FALSE /\ strays = 0
    /\ stopTimers = 0
    /\ calls = [i \in Slot |-> IF i = 1 /\ simulationId # 0
                               THEN Request("boot", "state", simulationId)
                               ELSE Free]
    /\ inputs = 0

StatusShown ==
    IF currentState = Nothing THEN "NONE"
    ELSE log[currentState.of][currentState.at]

-----------------------------------------------------------------------------
(* The server *)

Input == inputs < MaxInputs /\ inputs' = inputs + 1
Grow(s, status) == log' = [log EXCEPT ![s] = Append(@, status)]
Answer(i, got, s, ver) ==
    calls' = [calls EXCEPT ![i].got = got, ![i].on = s, ![i].ver = ver]

AutoTick(s) ==
    /\ log[s] # <<>> /\ log[s][Len(log[s])] = "RUNNING"
    /\ Len(log[s]) < MaxTicks
    /\ Grow(s, "RUNNING")
    /\ UNCHANGED <<page, line, stopTimers, calls, inputs>>

\* start, resume and tick refuse a STOPPED session; start leaves a RUNNING
\* session alone, stop a STOPPED one and pause any that is not RUNNING.  The
\* page never posts to a session the server does not have.
ServePost(i) ==
    LET s == calls[i].on
        op == calls[i].op
        was == log[s][Len(log[s])]
    IN  /\ calls[i].at = "post"
        /\ log[s] # <<>>
        /\ \/ /\ was = "STOPPED" /\ op # "stop"
              /\ Answer(i, "failed", s, 0)
              /\ UNCHANGED log
           \/ /\ \/ op = "start" /\ was = "RUNNING"
                 \/ op = "stop" /\ was = "STOPPED"
                 \/ op = "control" /\ was # "RUNNING"
              /\ Answer(i, "ok", s, Len(log[s]))
              /\ UNCHANGED log
           \/ /\ was # "STOPPED"
              /\ \/ op = "start" /\ was # "RUNNING" /\ Grow(s, "RUNNING")
                 \/ op = "stop" /\ Grow(s, "STOPPED")
                 \/ op = "control" /\ (Grow(s, was) \/ Grow(s, "RUNNING"))
                 \/ op = "control" /\ was = "RUNNING" /\ Grow(s, "PAUSED")
              /\ Answer(i, "ok", s, Len(log[s]) + 1)

ServeCreate(i) ==
    /\ calls[i].at = "create"
    /\ \E s \in Session \ {1} :
        /\ log[s] = <<>> /\ \A t \in 2 .. s - 1 : log[t] # <<>>
        /\ Grow(s, "READY")
        /\ Answer(i, "ok", s, 1)

ServeGet(i) ==
    LET s == calls[i].on
    IN  /\ calls[i].at \in {"state", "timeline", "first"}
        /\ Answer(i, IF log[s] = <<>> THEN "missing" ELSE "ok", s, Len(log[s]))
        /\ UNCHANGED log

Serve(i) ==
    /\ calls[i].got = "no"
    /\ ServePost(i) \/ ServeCreate(i) \/ ServeGet(i)
    /\ UNCHANGED <<page, line, stopTimers, inputs>>

\* The request or its answer is lost.  One that nobody waits for changes
\* nothing then, as if it had not been made.
LoseRequest(i) ==
    /\ calls[i].at \in {"create", "post", "state", "timeline", "first"}
    /\ calls[i].op # "read"
    /\ calls[i].got \in {"no", "ok"}
    /\ Input
    /\ calls' = [calls EXCEPT ![i].got = "failed"]
    /\ UNCHANGED <<log, page, line, stopTimers>>

-----------------------------------------------------------------------------
(* Rendering *)

Show(s, ver) == currentState' = [of |-> s, at |-> ver] /\ busy' = FALSE

\* Mutant: a page is as long as its limit.
FullPage(s, ver, k) == [i \in 1 .. k |-> [of |-> s, at |-> ver + 1 - i]]

\* The newest k of the first ver items.
Newest(s, ver, k) ==
    [i \in 1 .. (IF ver < k THEN ver ELSE k) |-> [of |-> s, at |-> ver + 1 - i]]

\* replaceTimeline, and the emptied list.
ShowList(items) == timelineItems' = items /\ overtaken' = FALSE

OnScreen(item) == \E i \in DOMAIN timelineItems : timelineItems[i] = item

\* Mutant: addTimelineItem without timelineIds.
AddAgain(item) ==
    timelineItems' = SubSeq(<<item>> \o timelineItems, 1,
                            IF Len(timelineItems) < Limit
                            THEN Len(timelineItems) + 1 ELSE Limit)

AddTimelineItem(item) ==
    timelineItems' =
        IF OnScreen(item) THEN timelineItems
        ELSE SubSeq(<<item>> \o timelineItems, 1,
                    IF Len(timelineItems) < Limit
                    THEN Len(timelineItems) + 1 ELSE Limit)

-----------------------------------------------------------------------------
(* The connection *)

IsLive(n) == sockets[n].at \in {"connecting", "open"}
IsConnected == websocket # 0 /\ IsLive(websocket)
                             /\ sockets[websocket].to = simulationId
IsClick(c) == c.op \in {"start", "control", "stop"}
Waits(c, n) == c.at \in {"open", "openNew"} /\ c.on = n

\* Mutant: a socket that is still connecting is not closed.
HungUpIfOpen(ss) ==
    [n \in Socket |-> IF n = websocket /\ ss[n].at = "open"
                      THEN [ss[n] EXCEPT !.at = "closing"] ELSE ss[n]]

\* disconnectTimeline closes the socket of the variable websocket.
HungUp(ss) ==
    [n \in Socket |-> IF n = websocket /\ IsLive(n)
                      THEN [ss[n] EXCEPT !.at = "closing"] ELSE ss[n]]

DisconnectTimeline ==
    /\ sockets' = HungUp(sockets)
    /\ websocket' = 0
    /\ intentional' = TRUE
    /\ timer' = FALSE

\* The part of connectTimeline that makes a socket, for session s.
Dial(n, s) ==
    /\ sockets[n].at = "none" /\ \A m \in 1 .. n - 1 : sockets[m].at # "none"
    /\ sockets' = [HungUp(sockets) EXCEPT ![n] =
                      [at |-> "connecting", to |-> s, hello |-> 0, seen |-> 0,
                       late |-> {}]]
    /\ websocket' = n
    /\ intentional' = FALSE
    /\ timer' = FALSE

\* What a call does once its socket is open, and whether it starts polling.
Opened(c) ==
    CASE c.op = "start" /\ c.at = "openNew" ->
            Request("start", "first", simulationId)
      [] c.op = "start" /\ c.at = "open" ->
            Request("start", "post", simulationId)
      [] OTHER -> Free
Polls(c) == c.at = "open" /\ c.op # "over" /\ simulationId # 0
WaitsToPoll(i, n) == Waits(calls[i], n) /\ Polls(calls[i])

\* Mutant: a creation that fails does not fail those that joined it.
FailAlone(failed) ==
    /\ calls' = [i \in Slot |-> IF i \in failed THEN Free ELSE calls[i]]
    /\ busy' = (busy /\ \A i \in failed : ~IsClick(calls[i]))

\* The calls after a failure of those in "failed": a call that waits for
\* the new session of one that fails, fails with it.
Fail(failed) ==
    LET creator == \E i \in failed : calls[i].at \in {"create", "openNew"}
        ends(i) == i \in failed \/ (creator /\ calls[i].at = "join")
    IN  /\ calls' = [i \in Slot |-> IF ends(i) THEN Free ELSE calls[i]]
        /\ busy' = (busy /\ \A i \in Slot : ends(i) => ~IsClick(calls[i]))

\* onopen.
Open(n) ==
    /\ sockets[n].at = "connecting"
    /\ IF sockets[n].to = simulationId
       THEN /\ sockets' = [sockets EXCEPT ![n] =
                              [at |-> "open", to |-> simulationId,
                               hello |-> Len(log[simulationId]),
                               seen |-> Len(log[simulationId]), late |-> {}]]
            /\ calls' = [i \in Slot |-> IF Waits(calls[i], n) THEN Opened(calls[i])
                                                             ELSE calls[i]]
            /\ polling' = (polling \/ \E i \in Slot : WaitsToPoll(i, n))
       ELSE \* nobody settles the promise that is waited for
            /\ sockets' = [sockets EXCEPT ![n].at = "closing"]
            /\ calls' = [i \in Slot |-> IF Waits(calls[i], n)
                                        THEN [calls[i] EXCEPT !.on = 0]
                                        ELSE calls[i]]
            /\ UNCHANGED polling
    /\ UNCHANGED <<log, screen, busy, choice, timers, stopTimers, inputs>>

\* The page gives up after five seconds.
HandshakeTimeout(n) ==
    /\ sockets[n].at = "connecting"
    /\ Input
    /\ sockets' = [sockets EXCEPT ![n].at = "closing"]
    /\ Fail({i \in Slot : Waits(calls[i], n)})
    /\ UNCHANGED <<log, screen, polling, choice, timers, stopTimers>>

\* onclose, after onerror when the socket was not open yet.
Close(n) ==
    /\ sockets[n].at # "none"
    /\ IF IsLive(n) THEN Input ELSE UNCHANGED inputs
    /\ sockets' = [sockets EXCEPT ![n] = Unused]
    /\ websocket' = IF websocket = n THEN 0 ELSE websocket
    /\ Fail({i \in Slot : Waits(calls[i], n)})
    /\ IF \/ intentional \/ sockets[n].to # simulationId
          \/ StatusShown = "STOPPED"
       THEN UNCHANGED timers
       ELSE timer' = TRUE /\ strays' = strays + (IF timer THEN 1 ELSE 0)
    /\ UNCHANGED <<log, screen, polling, intentional, stopTimers>>

IsGone(n) == sockets[n].at = "closing" /\ Close(n)

\* A reconnect timer ends: the one reconnectTimer names, or a stray.
Reconnect ==
    /\ \E known \in BOOLEAN :
        /\ IF known THEN timer /\ UNCHANGED strays
                    ELSE strays > 0 /\ strays' = strays - 1
        /\ IF simulationId = 0 \/ IsConnected
           THEN /\ timer' = (timer /\ ~known)
                /\ UNCHANGED <<choice, sockets>>
           ELSE \E n \in Socket : Dial(n, simulationId)
    /\ UNCHANGED <<log, page, stopTimers, calls, inputs>>

\* SESSION_CONNECTED, with the state and the end of the timeline at the time
\* of the connection.
HelloArrives(n) ==
    /\ sockets[n].at = "open" /\ sockets[n].to = simulationId
    /\ sockets[n].hello > 0
    /\ sockets' = [sockets EXCEPT ![n].hello = 0]
    /\ Show(sockets[n].to, sockets[n].hello)
    /\ ShowList(Newest(sockets[n].to, sockets[n].hello, Recent))
    /\ UNCHANGED <<log, simulationId, polling, choice, timers, stopTimers,
                   calls, inputs>>

IsFree(i) == /\ calls[i].op = "none"
             /\ \A j \in 1 .. i - 1 : calls[j].op # "none"

\* TIMELINE_EVENT, in the order in which the server writes: item k is the
\* newest so far and may have overtaken others, or it is one of those.  An
\* item may also never come.
NewsArrives(n, i) ==
    LET s == sockets[n].to
        seen == sockets[n].seen
        late == sockets[n].late
    IN  /\ sockets[n].at = "open" /\ s = simulationId
        /\ sockets[n].hello = 0
        /\ IsFree(i)
        /\ \E k \in late \cup (seen + 1 .. Len(log[s])) :
             /\ AddTimelineItem([of |-> s, at |-> k])
             /\ sockets' = [sockets EXCEPT
                              ![n].seen = IF k > seen THEN k ELSE seen,
                              ![n].late = (late \cup (seen + 1 .. k)) \ {k}]
             /\ overtaken' = (overtaken \/ (k \in late /\ ~OnScreen([of |-> s, at |-> k])))
        /\ calls' = [calls EXCEPT ![i] = Request("read", "state", simulationId)]
        /\ UNCHANGED <<log, simulationId, currentState, polling, busy, choice,
                       timers, stopTimers, inputs>>

StopTimer ==
    /\ stopTimers > 0
    /\ stopTimers' = stopTimers - 1
    /\ DisconnectTimeline
    /\ UNCHANGED <<log, page, strays, calls, inputs>>

-----------------------------------------------------------------------------
(* The answers *)

Becomes(i, c) == calls' = [calls EXCEPT ![i] = c]
Ends(i) == Becomes(i, Free)

\* connectTimeline, awaited by the call c in slot i.
Connect(i, c) ==
    \/ /\ simulationId = 0 \/ (IsConnected /\ sockets[websocket].at = "open")
       /\ Becomes(i, Opened(c))
       /\ polling' = (polling \/ Polls(c))
       /\ UNCHANGED line
    \/ /\ IsConnected /\ sockets[websocket].at = "connecting"
       /\ Becomes(i, [c EXCEPT !.on = websocket])
       /\ UNCHANGED <<polling, line>>
    \/ /\ simulationId # 0 /\ ~IsConnected
       /\ \E n \in Socket : Dial(n, simulationId) /\ Becomes(i, [c EXCEPT !.on = n])
       /\ UNCHANGED <<polling, strays>>

\* createSimulation, up to its wait for the socket.
CreateArrives(i) ==
    /\ calls[i].at = "create"
    /\ IF calls[i].got = "ok"
       THEN /\ simulationId' = calls[i].on
            /\ Show(calls[i].on, calls[i].ver)
            /\ ShowList(<<>>)
            /\ polling' = FALSE
            /\ \E n \in Socket :
                 /\ Dial(n, calls[i].on)
                 /\ Becomes(i, [Free EXCEPT !.op = "start", !.at = "openNew",
                                            !.on = n])
            /\ UNCHANGED strays
       ELSE /\ Fail({i})
            /\ UNCHANGED <<screen, polling, line>>
    /\ UNCHANGED stopTimers

ReplaceTimeline(c) ==
    IF c.got = "ok" THEN ShowList(Newest(c.on, c.ver, Limit)) ELSE UNCHANGED feed

\* The end of createSimulation; whoever awaits it posts the start.
FirstArrives(i) ==
    /\ calls[i].at = "first"
    /\ ReplaceTimeline(calls[i])
    /\ IF simulationId # 0
       THEN /\ polling' = TRUE
            /\ calls' = [j \in Slot |->
                           IF j = i \/ calls[j].at = "join"
                           THEN Request("start", "post", simulationId)
                           ELSE calls[j]]
            /\ UNCHANGED busy
       ELSE Fail({j \in Slot : j = i \/ calls[j].at = "join"})
            /\ UNCHANGED polling
    /\ UNCHANGED <<simulationId, currentState, line, stopTimers>>

\* The end of controlSimulation("stop").
StopEnds == polling' = FALSE /\ stopTimers' = stopTimers + 1

\* Without a session there is nothing to load: the timeline is emptied.
PostArrives(i) ==
    LET c == calls[i]
        next == IF c.op = "stop" THEN "timeline" ELSE "state"
    IN  /\ c.at = "post"
        /\ IF c.got = "ok"
           THEN /\ Show(c.on, c.ver)
                /\ IF simulationId # 0
                   THEN Becomes(i, Request(c.op, next, simulationId))
                   ELSE Ends(i)
           ELSE Fail({i}) /\ UNCHANGED currentState
        /\ IF c.got = "ok" /\ simulationId = 0 /\ c.op # "control"
           THEN ShowList(<<>>) ELSE UNCHANGED feed
        /\ IF c.got = "ok" /\ simulationId = 0 /\ c.op = "stop"
           THEN StopEnds ELSE UNCHANGED <<polling, stopTimers>>
        /\ UNCHANGED <<simulationId, line>>

\* loadState, for the session the page had when it asked.
StateArrives(i) ==
    LET c == calls[i]
        isOver == log[c.on][c.ver] = "STOPPED"
        next == IF c.op = "boot" /\ isOver THEN "over" ELSE c.op
        goesOn == /\ simulationId # 0
                  /\ c.op = "start" \/ (c.op = "boot" /\ c.got = "ok")
    IN  /\ c.at = "state" /\ ~(c.op = "boot" /\ c.got = "missing")
        /\ IF c.got = "ok" THEN Show(c.on, c.ver)
           ELSE busy' = (busy /\ (goesOn \/ ~IsClick(c))) /\ UNCHANGED currentState
        /\ IF goesOn THEN Becomes(i, Request(next, "timeline", simulationId))
                     ELSE Ends(i)
        /\ IF c.op = "start" /\ ~goesOn THEN ShowList(<<>>) ELSE UNCHANGED feed
        /\ polling' = (polling \/ (c.op = "control" /\ simulationId # 0))
        /\ UNCHANGED <<simulationId, line, stopTimers>>

\* bootstrap found no session at its address: resetToIdle.
ResetToIdle(i) ==
    /\ calls[i].at = "state" /\ calls[i].op = "boot" /\ calls[i].got = "missing"
    /\ polling' = FALSE
    /\ DisconnectTimeline
    /\ simulationId' = 0 /\ currentState' = Nothing /\ ShowList(<<>>)
    /\ busy' = FALSE
    /\ Ends(i)
    /\ UNCHANGED <<strays, stopTimers>>

TimelineArrives(i) ==
    LET c == calls[i]
    IN  /\ c.at = "timeline"
        /\ ReplaceTimeline(c)
        /\ busy' = (busy /\ ~IsClick(c))
        /\ \/ /\ c.op \in {"boot", "over"}
              /\ Connect(i, [Free EXCEPT !.op = c.op, !.at = "open"])
              /\ UNCHANGED stopTimers
           \/ /\ c.op \in {"read", "start"}
              /\ Ends(i)
              /\ UNCHANGED <<polling, line, stopTimers>>
           \/ /\ c.op = "stop"
              /\ Ends(i)
              /\ StopEnds
              /\ UNCHANGED line
        /\ UNCHANGED <<simulationId, currentState>>

Arrive(i) ==
    /\ calls[i].got # "no"
    /\ \/ CreateArrives(i) \/ FirstArrives(i) \/ PostArrives(i)
       \/ StateArrives(i) \/ ResetToIdle(i) \/ TimelineArrives(i)
    /\ UNCHANGED <<log, inputs>>

-----------------------------------------------------------------------------
(* The timers and the buttons *)

\* Mutant: the poll asks for the session on the screen.
PollShown(i) ==
    /\ polling /\ simulationId # 0
    /\ IsFree(i)
    /\ Becomes(i, Request("read", "state", currentState.of))
    /\ UNCHANGED <<log, page, line, stopTimers, inputs>>

Poll(i) ==
    /\ polling /\ simulationId # 0
    /\ IsFree(i)
    /\ Becomes(i, Request("read", "state", simulationId))
    /\ UNCHANGED <<log, page, line, stopTimers, inputs>>

Press(i) == Input /\ IsFree(i)
HasSession == simulationId # 0 /\ currentState # Nothing

\* createSimulation is under way.
IsCreating == \E i \in Slot : calls[i].at \in {"create", "openNew", "first"}

Start(i) ==
    /\ Press(i) /\ ~busy /\ busy' = TRUE
    /\ StatusShown \notin {"RUNNING", "PAUSED"}
    /\ IF ~HasSession \/ StatusShown = "STOPPED"
       THEN /\ \/ /\ IsCreating
                  /\ Becomes(i, [Free EXCEPT !.op = "start", !.at = "join"])
               \/ /\ ~IsCreating
                  /\ \E s \in Session \ {1} : log[s] = <<>>
                  /\ Becomes(i, Request("start", "create", 0))
            /\ UNCHANGED <<polling, line>>
       ELSE Connect(i, [Free EXCEPT !.op = "start", !.at = "open"])
    /\ UNCHANGED <<log, screen, stopTimers>>

Control(i, op) ==
    /\ Press(i) /\ ~busy /\ busy' = TRUE
    /\ HasSession /\ StatusShown # "STOPPED"
    /\ Becomes(i, Request(op, "post", simulationId))
    /\ UNCHANGED <<log, screen, polling, line, stopTimers>>

\* The refresh button, and those to reload and to clear the timeline.
Refresh(i, j) ==
    /\ Press(i) /\ ~busy
    /\ HasSession
    /\ i # j /\ calls[j].op = "none"
    /\ calls' = [calls EXCEPT ![i] = Request("read", "state", simulationId),
                              ![j] = Request("read", "timeline", simulationId)]
    /\ UNCHANGED <<log, page, line, stopTimers>>

Reload(i) ==
    /\ Press(i)
    /\ IF simulationId = 0 THEN ShowList(<<>>) /\ UNCHANGED calls
       ELSE /\ Becomes(i, Request("read", "timeline", simulationId))
            /\ UNCHANGED feed
    /\ UNCHANGED <<log, simulationId, currentState, polling, busy, line,
                   stopTimers>>

Clear ==
    /\ Input
    /\ ShowList(<<>>)
    /\ UNCHANGED <<log, simulationId, currentState, polling, busy, line,
                   stopTimers, calls>>

Next ==
    \/ \E s \in Session : AutoTick(s)
    \/ \E n \in Socket : \/ Open(n) \/ HandshakeTimeout(n) \/ Close(n)
                         \/ HelloArrives(n)
    \/ \E i \in Slot : \/ Serve(i) \/ LoseRequest(i) \/ Arrive(i)
                       \/ Poll(i) \/ Start(i) \/ Reload(i)
                       \/ Control(i, "control") \/ Control(i, "stop")
    \/ \E i \in Slot, n \in Socket : NewsArrives(n, i)
    \/ \E i, j \in Slot : Refresh(i, j)
    \/ Reconnect \/ StopTimer \/ Clear

Spec == Init /\ [][Next]_vars

\* Requests are answered or fail and every answer is handled in the end,
\* sockets open or fail, and the poll timer fires.
Fairness ==
    /\ \A i \in Slot : WF_vars(Serve(i)) /\ WF_vars(Arrive(i))
    /\ WF_vars(\E n \in Socket : Open(n) \/ HelloArrives(n) \/ IsGone(n))
    /\ WF_vars(\E i \in Slot : Poll(i))
FairSpec == Spec /\ Fairness

-----------------------------------------------------------------------------
(* Properties *)

\* At most one socket is open or opening, whatever reconnect timers, clicks
\* and late closings do; it is the one of the variable websocket and belongs
\* to the session of the page.  (connectTimeline, disconnectTimeline.)
OneLiveSocket ==
    \A n \in Socket : IsLive(n) => n = websocket /\ sockets[n].to = simulationId

\* No item is shown twice, although lists and single items arrive by two
\* channels, lists arrive late and items overtake each other.  The items of a
\* session are shown newest first, unless one that came late has been put on
\* top since the list was last replaced.  (addTimelineItem, replaceTimeline.)
InOrder ==
    \A i, j \in DOMAIN timelineItems :
        /\ i < j /\ timelineItems[i].of = timelineItems[j].of
        => timelineItems[i].at > timelineItems[j].at
OnceAndNewestFirst ==
    /\ \A i, j \in DOMAIN timelineItems : i # j => timelineItems[i] # timelineItems[j]
    /\ ~overtaken => InOrder

\* While the page polls, what it shows becomes what the server has, whatever
\* late answers of older requests or of an older session overwrote.
IsUpToDate ==
    /\ simulationId # 0
    /\ currentState = [of |-> simulationId, at |-> Len(log[simulationId])]
StateCatchesUp == <>[]polling => <>[]IsUpToDate

\* A call that waits has somebody to wake it: its socket is not gone, and
\* the session it did not create itself is being created.  Otherwise every
\* later press of the start button would join the wait.
\* (createSimulationPromise, waitForWebSocketOpen.)
NobodyWaitsInVain ==
    \A i \in Slot :
        /\ calls[i].at \in {"open", "openNew"} =>
             calls[i].on \in Socket /\ sockets[calls[i].on].at \in {"connecting", "closing"}
        /\ calls[i].at = "join" => IsCreating
=============================================================================
