------------------------- MODULE TerrariumClientProofs -------------------------
(* The safety of the page's connection and of its waits, for any numbers of *)
(* sessions, sockets, calls, clicks and failures.                           *)
EXTENDS TerrariumClient, SequenceTheorems, TLAPS

USE DEF ShowList, feed

\* Requests name a session; a slot without a function is empty.
IsGood(c) ==
    /\ c.op = "none" => c.at = "none"
    /\ c.at \in {"post", "state", "timeline", "first"} => c.on \in Session
    /\ c.at = "create" /\ c.got = "ok" => c.on \in Session
    /\ c.at = "openNew" => c.op = "start"
RequestInv == \A i \in Slot : IsGood(calls[i])

\* No socket is opened without a session.
LineInv == OneLiveSocket /\ \A n \in Socket : IsLive(n) => sockets[n].to # 0

ClientInv == TypeOK /\ RequestInv /\ LineInv /\ NobodyWaitsInVain

-----------------------------------------------------------------------------
(* The operators. *)

LEMMA FreeType == Free \in Call /\ Free.op = "none" /\ Free.at = "none"
BY DEF Free, Call

Op == {"none", "read", "boot", "over", "start", "control", "stop"}
At == {"none", "create", "join", "openNew", "first", "open", "post", "state",
       "timeline"}

LEMMA RequestType ==
    ASSUME NEW op \in Op, NEW at \in At, NEW s \in Nat
    PROVE  /\ Request(op, at, s) \in Call
           /\ Request(op, at, s).op = op /\ Request(op, at, s).at = at
           /\ Request(op, at, s).on = s /\ Request(op, at, s).got = "no"
BY DEF Request, Free, Call, Op, At

LEMMA NewestType ==
    ASSUME NEW s \in 0 .. MaxSession, NEW ver \in Nat, NEW k \in Nat
    PROVE  Newest(s, ver, k) \in Seq(Snapshot)
<1> DEFINE m == IF ver < k THEN ver ELSE k
<1>1. m \in Nat /\ m <= ver
  OBVIOUS
<1>2. \A i \in 1 .. m : [of |-> s, at |-> ver + 1 - i] \in Snapshot
  BY <1>1 DEF Snapshot
<1>3. Newest(s, ver, k) \in [1 .. m -> Snapshot]
  BY <1>2 DEF Newest
<1> HIDE DEF m
<1> QED
  BY <1>1, <1>3

LEMMA AddType ==
    ASSUME TypeOK, NEW item \in Snapshot, AddTimelineItem(item)
    PROVE  timelineItems' \in Seq(Snapshot)
<1> DEFINE longer == <<item>> \o timelineItems
           size == IF Len(timelineItems) < Limit THEN Len(timelineItems) + 1 ELSE Limit
<1>1. /\ longer \in Seq(Snapshot) /\ Len(longer) = Len(timelineItems) + 1
      /\ Len(timelineItems) \in Nat
  BY DEF TypeOK
<1>2. size \in Nat /\ size <= Len(longer)
  BY <1>1, ClientAssumption
<1>3. SubSeq(longer, 1, size) \in Seq(Snapshot)
  <2> HIDE DEF longer, size
  <2> QED
    BY <1>1, <1>2
<1> QED
  BY <1>3 DEF AddTimelineItem, TypeOK

LEMMA HungUpType ==
    ASSUME TypeOK
    PROVE  /\ HungUp(sockets) \in [Socket -> Wire]
           /\ \A n \in Socket :
                /\ HungUp(sockets)[n].to = sockets[n].to
                /\ HungUp(sockets)[n].at =
                     IF n = websocket /\ IsLive(n) THEN "closing" ELSE sockets[n].at
BY DEF TypeOK, HungUp, Wire

\* A call that waits for a socket waits for one that will still be heard of.
WillTell(n, ss) == ss[n].at \in {"connecting", "closing"}

LEMMA DialEffect ==
    ASSUME TypeOK, LineInv, NEW n \in Socket, NEW s \in Session, Dial(n, s)
    PROVE  /\ sockets' \in [Socket -> Wire] /\ websocket' \in 0 .. MaxSocket
           /\ intentional' \in BOOLEAN /\ timer' \in BOOLEAN
           /\ \A m \in Socket : IsLive(m)' => m = websocket' /\ sockets'[m].to = s
           /\ ~WillTell(n, sockets) /\ WillTell(n, sockets')
           /\ \A m \in Socket : WillTell(m, sockets) => WillTell(m, sockets')
<1> DEFINE wire == [at |-> "connecting", to |-> s, hello |-> 0, seen |-> 0, late |-> {}]
<1>1. /\ sockets' = [HungUp(sockets) EXCEPT ![n] = wire]
      /\ sockets[n].at = "none" /\ websocket' = n
  BY DEF Dial
<1>c. wire \in Wire /\ wire.at = "connecting" /\ wire.to = s
  <2>1. s \in 0 .. MaxSession /\ {} \in SUBSET Nat
    BY ClientAssumption DEF Session
  <2> QED
    BY <2>1 DEF Wire
<1>b. intentional' \in BOOLEAN /\ timer' \in BOOLEAN
  BY DEF Dial
<1>2. sockets' \in [Socket -> Wire]
  BY <1>1, <1>c, HungUpType
<1>3. /\ sockets'[n].at = "connecting" /\ sockets'[n].to = s
      /\ \A m \in Socket : m # n => sockets'[m] = HungUp(sockets)[m]
  BY <1>1, <1>c, HungUpType
<1>4. \A m \in Socket : m # n => sockets'[m].at \notin {"connecting", "open"}
  BY <1>3, HungUpType DEF LineInv, OneLiveSocket, IsLive
<1>5. \A m \in Socket : WillTell(m, sockets) => WillTell(m, sockets')
  BY <1>3, HungUpType DEF WillTell
<1>6. \A m \in Socket : IsLive(m)' => m = websocket' /\ sockets'[m].to = s
  BY <1>1, <1>3, <1>4 DEF IsLive
<1>7. ~WillTell(n, sockets) /\ WillTell(n, sockets')
  BY <1>1, <1>3 DEF WillTell
<1>8. websocket' \in 0 .. MaxSocket
  BY <1>1 DEF Socket
<1> QED
  BY <1>2, <1>b, <1>5, <1>6, <1>7, <1>8

LEMMA DisconnectEffect ==
    ASSUME TypeOK, LineInv, DisconnectTimeline
    PROVE  /\ sockets' \in [Socket -> Wire] /\ websocket' \in 0 .. MaxSocket
           /\ intentional' \in BOOLEAN /\ timer' \in BOOLEAN
           /\ \A m \in Socket : ~IsLive(m)'
           /\ \A m \in Socket : WillTell(m, sockets) => WillTell(m, sockets')
<1>1. sockets' = HungUp(sockets) /\ websocket' = 0
  BY DEF DisconnectTimeline
<1>b. intentional' \in BOOLEAN /\ timer' \in BOOLEAN
  BY DEF DisconnectTimeline
<1>2. \A m \in Socket : sockets'[m].at \notin {"connecting", "open"}
  BY <1>1, HungUpType DEF LineInv, OneLiveSocket, IsLive
<1>3. \A m \in Socket : WillTell(m, sockets) => WillTell(m, sockets')
  BY <1>1, HungUpType DEF WillTell
<1>4. sockets' \in [Socket -> Wire] /\ websocket' \in 0 .. MaxSocket
  BY <1>1, HungUpType, ClientAssumption
<1>5. \A m \in Socket : ~IsLive(m)'
  BY <1>2 DEF IsLive
<1> QED
  BY <1>b, <1>3, <1>4, <1>5

LEMMA FailEffect ==
    ASSUME TypeOK, RequestInv, NobodyWaitsInVain, NEW failed \in SUBSET Slot,
           \A k \in failed : calls[k].at = "first" =>
             \A i \in Slot : calls[i].at = "join" => i \in failed,
           Fail(failed)
    PROVE  /\ calls' \in [Slot -> Call] /\ busy' \in BOOLEAN
           /\ RequestInv'
           /\ \A i \in Slot : calls'[i] = Free \/ (i \notin failed /\ calls'[i] = calls[i])
           /\ \A i \in Slot : calls'[i].at = "join" => IsCreating'
<1> DEFINE creator == \E i \in failed : calls[i].at \in {"create", "openNew"}
           ends(i) == i \in failed \/ (creator /\ calls[i].at = "join")
<1>1. /\ calls' = [i \in Slot |-> IF ends(i) THEN Free ELSE calls[i]]
      /\ busy' \in BOOLEAN
  BY DEF Fail
<1>2. calls' \in [Slot -> Call]
  BY <1>1, FreeType DEF TypeOK
<1>3. \A i \in Slot : calls'[i] = Free \/ (i \notin failed /\ calls'[i] = calls[i])
  BY <1>1
<1>4. RequestInv'
  BY <1>3, FreeType DEF RequestInv, IsGood
<1>5. ASSUME NEW i \in Slot, calls'[i].at = "join"
      PROVE  IsCreating'
  <2>1. calls[i].at = "join" /\ ~ends(i)
    BY <1>1, <1>5, FreeType
  <2>2. PICK k \in Slot : calls[k].at \in {"create", "openNew", "first"}
    BY <2>1 DEF NobodyWaitsInVain, IsCreating
  <2>3. ~ends(k)
    BY <2>1, <2>2
  <2> QED
    BY <1>1, <2>2, <2>3 DEF IsCreating
<1> QED
  BY <1>1, <1>2, <1>3, <1>4, <1>5

-----------------------------------------------------------------------------
(* The connection. *)

LEMMA InitClient == Init => ClientInv
<1> SUFFICES ASSUME Init
             PROVE  ClientInv
  OBVIOUS
<1>1. /\ simulationId \in 0 .. MaxSession
      /\ \A i \in Slot : calls[i] = Free \/ (/\ simulationId \in Session
                                           /\ calls[i] = Request("boot", "state", simulationId))
  BY ClientAssumption DEF Init, Session
<1>2. \A i \in Slot : /\ calls[i] \in Call
                      /\ calls[i].op = "none" => calls[i].at = "none"
                      /\ calls[i].at \in {"none", "state"}
                      /\ calls[i].at = "state" => calls[i].on \in Session
  BY <1>1, FreeType, RequestType DEF Op, At, Session
<1>3. sockets \in [Socket -> Wire] /\ \A n \in Socket : sockets[n].at = "none"
  <2>1. Unused \in Wire /\ Unused.at = "none"
    BY ClientAssumption DEF Unused, Wire
  <2> QED
    BY <2>1 DEF Init
<1>4. log \in [Session -> Seq(Status)]
  <2>1. \A l \in {<<>>, <<"RUNNING">>, <<"STOPPED">>} : l \in Seq(Status)
    <3>1. \A x \in Status : <<x>> \in Seq(Status)
      OBVIOUS
    <3>2. "RUNNING" \in Status /\ "STOPPED" \in Status
      BY DEF Status
    <3>3. <<>> \in Seq(Status)
      OBVIOUS
    <3> QED
      BY <3>1, <3>2, <3>3
  <2>2. PICK l \in {<<>>, <<"RUNNING">>, <<"STOPPED">>} :
          log = [s \in Session |-> IF s = 1 THEN l ELSE <<>>]
    BY DEF Init
  <2> QED
    BY <2>1, <2>2
<1>5. /\ currentState \in Snapshot /\ timelineItems \in Seq(Snapshot)
      /\ websocket \in 0 .. MaxSocket
      /\ strays \in Nat /\ stopTimers \in Nat /\ inputs \in Nat
  BY ClientAssumption DEF Init, Nothing, Snapshot
<1>6. /\ polling \in BOOLEAN /\ intentional \in BOOLEAN /\ busy \in BOOLEAN
      /\ timer \in BOOLEAN /\ overtaken \in BOOLEAN
  BY DEF Init
<1>7. calls \in [Slot -> Call]
  BY <1>2 DEF Init
<1>8. TypeOK
  BY <1>1, <1>3, <1>4, <1>5, <1>6, <1>7 DEF TypeOK
<1> QED
  BY <1>2, <1>3, <1>8 DEF ClientInv, RequestInv, IsGood, LineInv, OneLiveSocket,
                          NobodyWaitsInVain, IsLive

\* The steps that leave the connection alone.
LEMMA OffLine ==
    ASSUME NEW i \in Slot,
           \/ Serve(i) \/ LoseRequest(i) \/ Poll(i) \/ Reload(i)
           \/ Control(i, "control") \/ Control(i, "stop")
           \/ (FirstArrives(i) \/ PostArrives(i) \/ StateArrives(i)) /\ UNCHANGED log
    PROVE  UNCHANGED <<line, simulationId>>
BY DEF Serve, LoseRequest, Poll, Reload, Control, FirstArrives, PostArrives,
       StateArrives, page, screen

LEMMA StepLine ==
    ASSUME TypeOK, RequestInv, LineInv, [Next]_vars
    PROVE  LineInv'
<1> USE DEF LineInv, OneLiveSocket
<1>1. ASSUME UNCHANGED <<line, simulationId>>
      PROVE  LineInv'
  BY <1>1 DEF line, choice, IsLive
<1>2. ASSUME NEW n \in Socket, NEW s \in Session, Dial(n, s), simulationId' = s
      PROVE  LineInv'
  BY <1>2, DialEffect DEF Session
<1>3. ASSUME NEW c, NEW i \in Slot, Connect(i, c), UNCHANGED simulationId
      PROVE  LineInv'
  <2>1. CASE UNCHANGED line
    BY <1>1, <1>3, <2>1
  <2>2. CASE simulationId # 0 /\ \E n \in Socket : Dial(n, simulationId)
    BY <1>2, <1>3, <2>2, ClientAssumption DEF TypeOK, Session
  <2> QED
    BY <1>3, <2>1, <2>2 DEF Connect
<1>4. ASSUME NEW n \in Socket, Open(n)
      PROVE  LineInv'
  <2>1. sockets[n].at = "connecting" /\ sockets[n].to = simulationId
    BY <1>4 DEF Open, IsLive
  <2>2. \A m \in Socket : /\ sockets'[m].to = sockets[m].to
                          /\ sockets'[m].at = IF m = n THEN "open" ELSE sockets[m].at
    BY <1>4, <2>1 DEF Open, TypeOK, Wire
  <2>3. \A m \in Socket : IsLive(m)' => IsLive(m)
    BY <2>1, <2>2 DEF IsLive
  <2> QED
    BY <1>4, <2>2, <2>3 DEF Open, screen, choice
<1>5. ASSUME NEW n \in Socket, HandshakeTimeout(n) \/ HelloArrives(n)
      PROVE  LineInv'
  <2>1. \A m \in Socket : /\ sockets'[m].to = sockets[m].to
                          /\ sockets'[m].at \in {sockets[m].at, "closing"}
    <3>1. CASE HandshakeTimeout(n)
      BY <3>1 DEF HandshakeTimeout, TypeOK, Wire
    <3>2. CASE HelloArrives(n)
      BY <3>2 DEF HelloArrives, TypeOK, Wire
    <3> QED
      BY <1>5, <3>1, <3>2
  <2>2. \A m \in Socket : IsLive(m)' => IsLive(m)
    BY <2>1 DEF IsLive
  <2>3. UNCHANGED <<websocket, simulationId>>
    BY <1>5 DEF HandshakeTimeout, HelloArrives, screen, choice
  <2> QED
    BY <2>1, <2>2, <2>3
<1>6. ASSUME NEW n \in Socket, NEW i \in Slot, NewsArrives(n, i)
      PROVE  LineInv'
  <2>1. /\ \A m \in Socket : sockets'[m].to = sockets[m].to
        /\ \A m \in Socket : IsLive(m)' => IsLive(m)
    BY <1>6 DEF NewsArrives, TypeOK, Wire, IsLive
  <2> QED
    BY <1>6, <2>1 DEF NewsArrives, choice
<1>7. ASSUME NEW n \in Socket, Close(n)
      PROVE  LineInv'
  <2>1. \A m \in Socket : sockets'[m] = IF m = n THEN Unused ELSE sockets[m]
    BY <1>7 DEF Close, TypeOK
  <2>2. \A m \in Socket : IsLive(m)' => IsLive(m) /\ m # n /\ sockets'[m] = sockets[m]
    BY <2>1 DEF IsLive, Unused
  <2> QED
    BY <1>7, <2>2 DEF Close, screen
<1>8. CASE Reconnect
  <2>1. CASE UNCHANGED <<choice, sockets>>
    BY <1>8, <2>1 DEF Reconnect, page, screen, choice, IsLive
  <2>2. CASE simulationId # 0 /\ \E n \in Socket : Dial(n, simulationId)
    <3>1. simulationId' = simulationId /\ simulationId \in Session
      BY <1>8, <2>2, ClientAssumption DEF Reconnect, page, screen, TypeOK, Session
    <3> QED
      BY <1>2, <2>2, <3>1
  <2> QED
    BY <1>8, <2>1, <2>2 DEF Reconnect
<1>9. CASE StopTimer
  BY <1>9, DisconnectEffect DEF StopTimer
<1>10. ASSUME NEW i \in Slot, Arrive(i)
       PROVE  LineInv'
  <2>1. CASE CreateArrives(i)
    BY <1>1, <1>2, <1>10, <2>1 DEF CreateArrives, RequestInv, IsGood, Arrive, screen
  <2>2. CASE ResetToIdle(i)
    BY <2>2, DisconnectEffect DEF ResetToIdle
  <2>3. CASE TimelineArrives(i)
    BY <1>1, <1>3, <2>3 DEF TimelineArrives
  <2>4. CASE FirstArrives(i) \/ PostArrives(i) \/ StateArrives(i)
    BY <1>1, <1>10, <2>4, OffLine DEF Arrive
  <2> QED
    BY <1>10, <2>1, <2>2, <2>3, <2>4 DEF Arrive
<1>11. ASSUME NEW i \in Slot, Start(i)
       PROVE  LineInv'
  <2>1. UNCHANGED simulationId /\ (UNCHANGED line \/
          \E c : Connect(i, c))
    BY <1>11 DEF Start, screen
  <2> QED
    BY <1>1, <1>3, <2>1
<1>12. ASSUME NEW i \in Slot,
              \/ Serve(i) \/ LoseRequest(i) \/ Poll(i) \/ Reload(i)
              \/ Control(i, "control") \/ Control(i, "stop")
       PROVE  LineInv'
  BY <1>1, <1>12, OffLine
<1>13. CASE \/ \E s \in Session : AutoTick(s)
            \/ \E i, j \in Slot : Refresh(i, j)
            \/ Clear \/ UNCHANGED vars
  BY <1>1, <1>13 DEF AutoTick, Refresh, Clear, vars, page, screen
<1> QED
  BY <1>4, <1>5, <1>6, <1>7, <1>8, <1>9, <1>10, <1>11, <1>12, <1>13 DEF Next

-----------------------------------------------------------------------------
(* The calls. *)

Creating == {"create", "openNew", "first"}

\* One slot gets a call: c.
LEMMA BecomesEffect ==
    ASSUME TypeOK, RequestInv, NobodyWaitsInVain, NEW i \in Slot, NEW c \in Call,
           IsGood(c), Becomes(i, c),
           calls[i].at \in Creating => c.at \in Creating,
           c.at = "join" => IsCreating /\ calls[i].at \notin Creating
    PROVE  /\ calls' \in [Slot -> Call] /\ RequestInv'
           /\ calls'[i] = c /\ \A j \in Slot : j # i => calls'[j] = calls[j]
           /\ \A j \in Slot : calls'[j].at = "join" => IsCreating'
<1>1. /\ calls' \in [Slot -> Call]
      /\ calls'[i] = c /\ \A j \in Slot : j # i => calls'[j] = calls[j]
  BY DEF TypeOK, Becomes
<1>2. RequestInv'
  BY <1>1 DEF RequestInv
<1>3. ASSUME IsCreating
      PROVE  IsCreating'
  <2>1. PICK k \in Slot : calls[k].at \in Creating
    BY <1>3 DEF IsCreating, Creating
  <2>2. calls'[k].at \in Creating
    BY <1>1, <2>1
  <2> QED
    BY <2>2 DEF IsCreating, Creating
<1>4. \A j \in Slot : calls'[j].at = "join" => IsCreating
  BY <1>1 DEF NobodyWaitsInVain
<1> QED
  BY <1>1, <1>2, <1>3, <1>4

\* What keeps every wait awake.
LEMMA WaitsKept ==
    ASSUME NobodyWaitsInVain,
           \A j \in Slot : calls'[j].at \in {"open", "openNew"} =>
             \/ /\ calls'[j] = calls[j]
                /\ WillTell(calls[j].on, sockets) => WillTell(calls[j].on, sockets')
             \/ calls'[j].on \in Socket /\ WillTell(calls'[j].on, sockets'),
           \A j \in Slot : calls'[j].at = "join" => IsCreating'
    PROVE  NobodyWaitsInVain'
BY DEF NobodyWaitsInVain, WillTell

CallsInv == calls \in [Slot -> Call] /\ RequestInv /\ NobodyWaitsInVain

\* A step that gives slot i the call c and leaves the sockets alone.
LEMMA OneCall ==
    ASSUME TypeOK, RequestInv, NobodyWaitsInVain, NEW i \in Slot, NEW c \in Call,
           IsGood(c), Becomes(i, c), UNCHANGED sockets,
           calls[i].at \in Creating => c.at \in Creating,
           c.at = "join" => IsCreating /\ calls[i].at \notin Creating,
           c.at \notin {"open", "openNew"}
    PROVE  CallsInv'
<1>1. /\ calls' \in [Slot -> Call] /\ RequestInv'
      /\ calls'[i] = c /\ \A j \in Slot : j # i => calls'[j] = calls[j]
      /\ \A j \in Slot : calls'[j].at = "join" => IsCreating'
  BY BecomesEffect
<1>2. NobodyWaitsInVain'
  BY <1>1, WaitsKept
<1> QED
  BY <1>1, <1>2 DEF CallsInv

\* A call that goes on with its request.
LEMMA GoodRequest ==
    ASSUME NEW op \in Op \ {"none"}, NEW at \in {"first", "post", "state", "timeline"},
           NEW s \in Session
    PROVE  Request(op, at, s) \in Call /\ IsGood(Request(op, at, s))
           /\ Request(op, at, s).at = at
BY RequestType DEF IsGood, At, Session

LEMMA GoodFree == Free \in Call /\ IsGood(Free) /\ Free.at = "none"
BY FreeType DEF IsGood

LEMMA SessionOfPage ==
    ASSUME TypeOK, simulationId # 0
    PROVE  simulationId \in Session
BY ClientAssumption DEF TypeOK, Session

\* What a served request keeps.
LEMMA AnswerEffect ==
    ASSUME TypeOK, RequestInv, NobodyWaitsInVain, NEW i \in Slot, NEW got \in {"ok", "missing", "failed"},
           NEW s \in Nat, NEW ver \in Nat, Answer(i, got, s, ver), UNCHANGED sockets,
           calls[i].at \in {"create", "post", "state", "timeline", "first"},
           calls[i].at = "create" => s \in Session \/ got = "failed",
           calls[i].at # "create" => s = calls[i].on
    PROVE  CallsInv'
<1> DEFINE c == [calls[i] EXCEPT !.got = got, !.on = s, !.ver = ver]
<1>1. calls[i] \in Call
  BY DEF TypeOK
<1>2. c \in Call /\ c.op = calls[i].op /\ c.at = calls[i].at /\ c.on = s /\ c.got = got
  BY <1>1 DEF Call
<1>3. Becomes(i, c)
  BY <1>1, <1>2 DEF Answer, Becomes, TypeOK
<1> HIDE DEF c
<1>4. IsGood(c)
  BY <1>2 DEF RequestInv, IsGood
<1>5. calls[i].at \in Creating => c.at \in Creating
  BY <1>2
<1> QED
  BY <1>2, <1>3, <1>4, <1>5, OneCall

\* The server.
LEMMA ServeCalls ==
    ASSUME TypeOK, RequestInv, NobodyWaitsInVain, NEW i \in Slot, Serve(i)
    PROVE  CallsInv' /\ log' \in [Session -> Seq(Status)]
<1>1. UNCHANGED sockets
  BY DEF Serve, line
<1>2. calls[i].on \in Nat
  BY DEF TypeOK, Call
<1>3. \A s \in Session : log[s] \in Seq(Status) /\ Len(log[s]) \in Nat
  BY DEF TypeOK
<1>4. ASSUME NEW s \in Session, NEW x \in Status
      PROVE  Grow(s, x) => log' \in [Session -> Seq(Status)]
  <2>1. Append(log[s], x) \in Seq(Status)
    BY <1>3
  <2> QED
    BY <2>1 DEF Grow, TypeOK
<1>5. CASE ServePost(i)
  <2>1. calls[i].at = "post" /\ calls[i].on \in Session
    BY <1>5 DEF ServePost, RequestInv, IsGood
  <2> DEFINE s == calls[i].on
             was == log[s][Len(log[s])]
  <2>2. was \in Status
    BY <1>3, <1>5, <2>1 DEF ServePost
  <2>3. /\ \E got \in {"ok", "failed"}, ver \in Nat : Answer(i, got, s, ver)
        /\ \/ UNCHANGED log
           \/ \E x \in {"RUNNING", "STOPPED", "PAUSED", was} : Grow(s, x)
    <3>1. CASE Answer(i, "failed", s, 0) /\ UNCHANGED log
      BY <3>1
    <3>2. CASE Answer(i, "ok", s, Len(log[s])) /\ UNCHANGED log
      BY <1>3, <2>1, <3>2
    <3>3. CASE /\ Answer(i, "ok", s, Len(log[s]) + 1)
               /\ \E x \in {"RUNNING", "STOPPED", "PAUSED", was} : Grow(s, x)
      BY <1>3, <2>1, <3>3
    <3> QED
      BY <1>5, <3>1, <3>2, <3>3 DEF ServePost
  <2> HIDE DEF s, was
  <2>4. log' \in [Session -> Seq(Status)]
    BY <1>4, <2>1, <2>2, <2>3 DEF Status, TypeOK, s
  <2>5. CallsInv'
    BY <1>1, <1>2, <2>1, <2>3, AnswerEffect DEF s
  <2> QED
    BY <2>4, <2>5
<1>6. CASE ServeCreate(i)
  <2>1. PICK s \in Session : Grow(s, "READY") /\ Answer(i, "ok", s, 1)
    BY <1>6 DEF ServeCreate
  <2>2. s \in Nat /\ calls[i].at = "create"
    BY <1>6 DEF ServeCreate, Session
  <2> QED
    BY <1>1, <1>4, <2>1, <2>2, AnswerEffect DEF Status
<1>7. CASE ServeGet(i)
  <2>1. calls[i].at \in {"state", "timeline", "first"} /\ calls[i].on \in Session
    BY <1>7 DEF ServeGet, RequestInv, IsGood
  <2>2. \E got \in {"ok", "missing"} : Answer(i, got, calls[i].on, Len(log[calls[i].on]))
    BY <1>7 DEF ServeGet
  <2>3. log' \in [Session -> Seq(Status)]
    BY <1>7 DEF ServeGet, TypeOK
  <2> QED
    BY <1>1, <1>2, <1>3, <2>1, <2>2, <2>3, AnswerEffect
<1> QED
  BY <1>5, <1>6, <1>7 DEF Serve

LEMMA LoseCalls ==
    ASSUME TypeOK, RequestInv, NobodyWaitsInVain, NEW i \in Slot, LoseRequest(i)
    PROVE  CallsInv'
<1> DEFINE c == [calls[i] EXCEPT !.got = "failed"]
<1>1. calls[i] \in Call /\ calls[i].at \in {"create", "post", "state", "timeline", "first"}
  BY DEF TypeOK, LoseRequest
<1>2. /\ c \in Call /\ c.op = calls[i].op /\ c.at = calls[i].at /\ c.on = calls[i].on
      /\ c.got = "failed"
  BY <1>1 DEF Call
<1>3. Becomes(i, c)
  BY <1>1 DEF LoseRequest, Becomes, TypeOK
<1> HIDE DEF c
<1>4. IsGood(c)
  BY <1>2 DEF RequestInv, IsGood
<1>5. UNCHANGED sockets
  BY DEF LoseRequest, line
<1> QED
  BY <1>1, <1>2, <1>3, <1>4, <1>5, OneCall DEF Creating

\* The connection.
LEMMA OpenedType ==
    ASSUME NEW c \in Call, c.op = "start" => simulationId \in Session
    PROVE  /\ Opened(c) \in Call /\ IsGood(Opened(c))
           /\ Opened(c).at \in {"none", "first", "post"}
           /\ c.op = "start" /\ c.at = "openNew" => Opened(c).at = "first"
<1>1. CASE c.op = "start" /\ c.at = "openNew"
  BY <1>1, GoodRequest DEF Opened, Op
<1>2. CASE c.op = "start" /\ c.at = "open"
  BY <1>2, GoodRequest DEF Opened, Op
<1>3. CASE ~(c.op = "start" /\ c.at = "openNew") /\ ~(c.op = "start" /\ c.at = "open")
  BY <1>3, GoodFree DEF Opened
<1> QED
  BY <1>1, <1>2, <1>3

LineType ==
    /\ sockets \in [Socket -> Wire] /\ websocket \in 0 .. MaxSocket
    /\ intentional \in BOOLEAN /\ timer \in BOOLEAN /\ strays \in Nat

LEMMA ConnectCalls ==
    ASSUME TypeOK, RequestInv, LineInv, NobodyWaitsInVain, NEW i \in Slot, NEW c \in Call,
           Connect(i, c), c.at = "open", c.op # "none",
           c.op = "start" => simulationId # 0,
           calls[i].at \notin Creating
    PROVE  CallsInv' /\ LineType' /\ polling' \in BOOLEAN
<1>1. CASE /\ Becomes(i, Opened(c)) /\ UNCHANGED line
           /\ polling' = (polling \/ Polls(c))
  <2>1. Opened(c) \in Call /\ IsGood(Opened(c)) /\ Opened(c).at \in {"none", "first", "post"}
    BY SessionOfPage, OpenedType
  <2>2. CallsInv'
    BY <1>1, <2>1, OneCall DEF line
  <2>3. LineType' /\ polling' \in BOOLEAN
    BY <1>1 DEF line, choice, timers, LineType, TypeOK
  <2> QED
    BY <2>2, <2>3
<1>n. ASSUME NEW n \in Socket, Becomes(i, [c EXCEPT !.on = n]), WillTell(n, sockets'),
             \A m \in Socket : WillTell(m, sockets) => WillTell(m, sockets')
      PROVE  CallsInv'
  <2> DEFINE d == [c EXCEPT !.on = n]
  <2>1. d \in Call /\ d.at = "open" /\ d.op = c.op /\ d.on = n
    BY DEF Call, Socket
  <2> HIDE DEF d
  <2>2. IsGood(d)
    BY <2>1 DEF IsGood
  <2>3. Becomes(i, d)
    BY <1>n DEF d
  <2>4. /\ calls' \in [Slot -> Call] /\ RequestInv'
        /\ calls'[i] = d /\ \A j \in Slot : j # i => calls'[j] = calls[j]
        /\ \A j \in Slot : calls'[j].at = "join" => IsCreating'
    BY <2>1, <2>2, <2>3, BecomesEffect
  <2>5. \A j \in Slot : calls'[j].at \in {"open", "openNew"} =>
          \/ /\ calls'[j] = calls[j]
             /\ WillTell(calls[j].on, sockets) => WillTell(calls[j].on, sockets')
          \/ calls'[j].on \in Socket /\ WillTell(calls'[j].on, sockets')
    BY <1>n, <2>1, <2>4 DEF NobodyWaitsInVain
  <2>6. NobodyWaitsInVain'
    BY <2>4, <2>5, WaitsKept
  <2> QED
    BY <2>4, <2>6 DEF CallsInv
<1>2. CASE /\ IsConnected /\ sockets[websocket].at = "connecting"
           /\ Becomes(i, [c EXCEPT !.on = websocket])
           /\ UNCHANGED <<polling, line>>
  <2>1. websocket \in Socket /\ sockets' = sockets
    BY <1>2, ClientAssumption DEF IsConnected, TypeOK, Socket, line
  <2>2. WillTell(websocket, sockets')
    BY <1>2, <2>1 DEF WillTell
  <2>3. CallsInv'
    BY <1>2, <1>n, <2>1, <2>2
  <2>4. LineType' /\ polling' \in BOOLEAN
    BY <1>2 DEF line, choice, timers, LineType, TypeOK
  <2> QED
    BY <2>3, <2>4
<1>3. CASE /\ simulationId # 0
           /\ \E n \in Socket : Dial(n, simulationId) /\ Becomes(i, [c EXCEPT !.on = n])
           /\ UNCHANGED <<polling, strays>>
  <2>1. PICK n \in Socket : Dial(n, simulationId) /\ Becomes(i, [c EXCEPT !.on = n])
    BY <1>3
  <2>2. /\ sockets' \in [Socket -> Wire] /\ websocket' \in 0 .. MaxSocket
        /\ intentional' \in BOOLEAN /\ timer' \in BOOLEAN
        /\ WillTell(n, sockets')
        /\ \A m \in Socket : WillTell(m, sockets) => WillTell(m, sockets')
    BY <1>3, <2>1, SessionOfPage, DialEffect
  <2>3. CallsInv'
    BY <1>n, <2>1, <2>2
  <2>4. strays' \in Nat /\ polling' \in BOOLEAN
    BY <1>3 DEF TypeOK
  <2> QED
    BY <2>2, <2>3, <2>4 DEF LineType
<1> QED
  BY <1>1, <1>2, <1>3 DEF Connect

LEMMA FailCalls ==
    ASSUME TypeOK, RequestInv, NobodyWaitsInVain, NEW failed \in SUBSET Slot,
           \A k \in failed : calls[k].at # "first",
           Fail(failed),
           \A i \in Slot : calls[i].at \in {"open", "openNew"} /\ i \notin failed =>
             (WillTell(calls[i].on, sockets) => WillTell(calls[i].on, sockets'))
    PROVE  CallsInv' /\ busy' \in BOOLEAN
<1>1. /\ calls' \in [Slot -> Call] /\ busy' \in BOOLEAN
      /\ RequestInv'
      /\ \A i \in Slot : calls'[i] = Free \/ (i \notin failed /\ calls'[i] = calls[i])
      /\ \A i \in Slot : calls'[i].at = "join" => IsCreating'
  BY FailEffect
<1>2. \A i \in Slot : calls'[i].at \in {"open", "openNew"} =>
        /\ calls'[i] = calls[i]
        /\ WillTell(calls[i].on, sockets) => WillTell(calls[i].on, sockets')
  BY <1>1, FreeType
<1>3. NobodyWaitsInVain'
  BY <1>1, <1>2, WaitsKept
<1> QED
  BY <1>1, <1>3 DEF CallsInv

LEMMA OpenCalls ==
    ASSUME TypeOK, RequestInv, LineInv, NobodyWaitsInVain, NEW n \in Socket, Open(n)
    PROVE  CallsInv' /\ sockets' \in [Socket -> Wire] /\ polling' \in BOOLEAN
<1>1. sockets[n].at = "connecting" /\ sockets[n].to = simulationId /\ simulationId # 0
  BY DEF Open, LineInv, OneLiveSocket, IsLive
<1>2. simulationId \in Session
  BY <1>1, SessionOfPage
<1> DEFINE wire == [at |-> "open", to |-> simulationId, hello |-> Len(log[simulationId]),
                    seen |-> Len(log[simulationId]), late |-> {}]
<1>3. /\ sockets' = [sockets EXCEPT ![n] = wire]
      /\ calls' = [i \in Slot |-> IF Waits(calls[i], n) THEN Opened(calls[i])
                                                       ELSE calls[i]]
      /\ polling' = (polling \/ \E i \in Slot : WaitsToPoll(i, n))
  BY <1>1 DEF Open
<1>4. wire \in Wire
  <2>1. Len(log[simulationId]) \in Nat
    BY <1>2 DEF TypeOK
  <2> QED
    BY <1>2, <2>1 DEF Wire, Session
<1>5. /\ sockets' \in [Socket -> Wire]
      /\ \A m \in Socket : m # n => sockets'[m] = sockets[m]
  BY <1>3, <1>4 DEF TypeOK, Wire
<1>6. \A i \in Slot : /\ Opened(calls[i]) \in Call /\ IsGood(Opened(calls[i]))
                      /\ Opened(calls[i]).at \in {"none", "first", "post"}
                      /\ calls[i].op = "start" /\ calls[i].at = "openNew"
                           => Opened(calls[i]).at = "first"
  BY <1>2, OpenedType DEF TypeOK
<1>7. calls' \in [Slot -> Call] /\ RequestInv'
  BY <1>3, <1>6 DEF TypeOK, RequestInv
<1>8. \A j \in Slot : calls'[j].at \in {"open", "openNew"} =>
        /\ calls'[j] = calls[j] /\ calls[j].on # n /\ calls[j].on \in Socket
        /\ WillTell(calls[j].on, sockets) => WillTell(calls[j].on, sockets')
  <2>1. \A j \in Slot : calls'[j].at \in {"open", "openNew"} =>
          calls'[j] = calls[j] /\ ~Waits(calls[j], n)
    BY <1>3, <1>6
  <2>2. \A j \in Slot : calls'[j].at \in {"open", "openNew"} =>
          calls'[j] = calls[j] /\ calls[j].on # n /\ calls[j].on \in Socket
    BY <2>1 DEF Waits, NobodyWaitsInVain
  <2> QED
    BY <1>5, <2>2 DEF WillTell
<1>9. ASSUME NEW j \in Slot, calls'[j].at = "join"
      PROVE  IsCreating'
  <2>1. calls[j].at = "join"
    BY <1>3, <1>6, <1>9
  <2>2. PICK k \in Slot : calls[k].at \in {"create", "openNew", "first"}
    BY <2>1 DEF NobodyWaitsInVain, IsCreating
  <2>3. calls'[k].at \in {"create", "openNew", "first"}
    BY <1>3, <1>6, <2>2 DEF Waits, RequestInv, IsGood
  <2> QED
    BY <2>3 DEF IsCreating
<1>10. NobodyWaitsInVain'
  BY <1>8, <1>9, WaitsKept
<1>11. polling' \in BOOLEAN
  BY <1>3 DEF TypeOK
<1> QED
  BY <1>5, <1>7, <1>10, <1>11 DEF CallsInv

-----------------------------------------------------------------------------
(* The steps. *)

PageType ==
    /\ simulationId \in 0 .. MaxSession /\ currentState \in Snapshot
    /\ timelineItems \in Seq(Snapshot) /\ polling \in BOOLEAN /\ busy \in BOOLEAN
FlagType == overtaken \in BOOLEAN
LogType == log \in [Session -> Seq(Status)]
CountType == stopTimers \in Nat /\ inputs \in Nat
Held == TypeOK /\ RequestInv /\ NobodyWaitsInVain

LEMMA Parts == TypeOK => LogType /\ PageType /\ LineType /\ CountType
BY DEF TypeOK, LogType, PageType, LineType, CountType

LEMMA Whole ==
    ASSUME LogType', PageType', FlagType', LineType', CountType', CallsInv'
    PROVE  Held'
<1>1. TypeOK'
  BY DEF TypeOK, LogType, PageType, FlagType, LineType, CountType, CallsInv
<1> QED
  BY <1>1 DEF Held, CallsInv

LEMMA InputType == CountType /\ Input /\ UNCHANGED stopTimers => CountType'
BY DEF CountType, Input

\* The list's flag is set by news only, and reset with the list.
LEMMA FlagStep ==
    ASSUME TypeOK, [Next]_vars
    PROVE  FlagType'
<1>1. ASSUME UNCHANGED feed \/ overtaken' = FALSE
      PROVE  FlagType'
  BY <1>1 DEF TypeOK, FlagType
<1>2. ASSUME NEW n \in Socket, NEW i \in Slot, NewsArrives(n, i)
      PROVE  FlagType'
  <2>1. \E late \in BOOLEAN : overtaken' = (overtaken \/ late)
    BY <1>2 DEF NewsArrives
  <2> QED
    BY <2>1 DEF TypeOK, FlagType
<1>3. ASSUME NEW n \in Socket,
             Open(n) \/ HandshakeTimeout(n) \/ Close(n) \/ HelloArrives(n)
      PROVE  FlagType'
  BY <1>1, <1>3 DEF Open, HandshakeTimeout, Close, HelloArrives, screen
<1>4. ASSUME NEW i \in Slot, Arrive(i)
      PROVE  FlagType'
  <2>1. CASE CreateArrives(i) \/ FirstArrives(i) \/ TimelineArrives(i)
    BY <1>1, <2>1 DEF CreateArrives, FirstArrives, TimelineArrives, ReplaceTimeline, screen
  <2>2. CASE PostArrives(i) \/ StateArrives(i) \/ ResetToIdle(i)
    BY <1>1, <2>2 DEF PostArrives, StateArrives, ResetToIdle
  <2> QED
    BY <1>4, <2>1, <2>2 DEF Arrive
<1>5. ASSUME NEW i \in Slot,
             \/ Serve(i) \/ LoseRequest(i) \/ Poll(i) \/ Start(i) \/ Reload(i)
             \/ Control(i, "control") \/ Control(i, "stop")
      PROVE  FlagType'
  BY <1>1, <1>5 DEF Serve, LoseRequest, Poll, Start, Reload, Control, page, screen
<1>6. ASSUME \/ \E s \in Session : AutoTick(s)
             \/ \E i, j \in Slot : Refresh(i, j)
             \/ Reconnect \/ StopTimer \/ Clear \/ UNCHANGED vars
      PROVE  FlagType'
  BY <1>1, <1>6 DEF AutoTick, Refresh, Reconnect, StopTimer, Clear, vars, page, screen
<1> QED
  BY <1>2, <1>3, <1>4, <1>5, <1>6 DEF Next

\* A step that leaves sockets and calls alone.
LEMMA CallsAlone ==
    ASSUME Held, UNCHANGED <<sockets, calls>>
    PROVE  CallsInv'
BY DEF Held, CallsInv, TypeOK, RequestInv, NobodyWaitsInVain, IsCreating

LEMMA SocketSteps ==
    ASSUME Held, FlagType', LineInv, NEW n \in Socket,
           Open(n) \/ HandshakeTimeout(n) \/ Close(n) \/ HelloArrives(n)
    PROVE  Held'
<1> USE Parts DEF Held
<1>1. CASE Open(n)
  <2>1. CallsInv' /\ sockets' \in [Socket -> Wire] /\ polling' \in BOOLEAN
    BY <1>1, OpenCalls
  <2>2. UNCHANGED <<log, screen, busy, choice, timers, stopTimers, inputs>>
    BY <1>1 DEF Open
  <2>3. LogType' /\ PageType' /\ LineType' /\ CountType'
    BY <2>1, <2>2 DEF LogType, PageType, LineType, CountType, screen, choice, timers
  <2> QED
    BY <2>1, <2>3, Whole
<1>2. CASE HandshakeTimeout(n)
  <2>1. sockets' \in [Socket -> Wire] /\
        \A m \in Socket : WillTell(m, sockets) => WillTell(m, sockets')
    BY <1>2 DEF HandshakeTimeout, TypeOK, Wire, WillTell
  <2>2. CallsInv' /\ busy' \in BOOLEAN
    <3> DEFINE failed == {i \in Slot : Waits(calls[i], n)}
    <3>1. failed \in SUBSET Slot /\ \A k \in failed : calls[k].at # "first"
      BY DEF Waits
    <3>2. Fail(failed)
      BY <1>2 DEF HandshakeTimeout
    <3>3. \A i \in Slot : calls[i].at \in {"open", "openNew"} => calls[i].on \in Socket
      BY DEF NobodyWaitsInVain
    <3> HIDE DEF failed
    <3> QED
      BY <2>1, <3>1, <3>2, <3>3, FailCalls
  <2>3. Input /\ UNCHANGED <<log, screen, polling, choice, timers, stopTimers>>
    BY <1>2 DEF HandshakeTimeout
  <2>4. LogType' /\ PageType' /\ LineType' /\ CountType'
    BY <2>1, <2>2, <2>3, InputType DEF LogType, PageType, LineType, screen, choice, timers
  <2> QED
    BY <2>2, <2>4, Whole
<1>3. CASE Close(n)
  <2>1. /\ sockets' \in [Socket -> Wire]
        /\ \A m \in Socket : m # n => sockets'[m] = sockets[m]
    <3>1. Unused \in Wire
      BY ClientAssumption DEF Unused, Wire
    <3> QED
      BY <1>3, <3>1 DEF Close, TypeOK
  <2>2. CallsInv' /\ busy' \in BOOLEAN
    <3> DEFINE failed == {i \in Slot : Waits(calls[i], n)}
    <3>1. failed \in SUBSET Slot /\ \A k \in failed : calls[k].at # "first"
      BY DEF Waits
    <3>2. Fail(failed)
      BY <1>3 DEF Close
    <3>3. \A i \in Slot : calls[i].at \in {"open", "openNew"} /\ i \notin failed =>
            calls[i].on \in Socket /\ calls[i].on # n
      BY DEF NobodyWaitsInVain, Waits
    <3> HIDE DEF failed
    <3>4. \A i \in Slot : calls[i].at \in {"open", "openNew"} /\ i \notin failed =>
            (WillTell(calls[i].on, sockets) => WillTell(calls[i].on, sockets'))
      BY <2>1, <3>3 DEF WillTell
    <3> QED
      BY <3>1, <3>2, <3>4, FailCalls
  <2>3. UNCHANGED <<log, screen, polling, intentional, stopTimers>>
    BY <1>3 DEF Close
  <2>4. CountType'
    <3>1. CASE IsLive(n)
      BY <1>3, <2>3, <3>1, InputType DEF Close
    <3>2. CASE ~IsLive(n)
      BY <1>3, <2>3, <3>2 DEF Close, CountType
    <3> QED
      BY <3>1, <3>2
  <2>5. websocket' \in 0 .. MaxSocket /\ timer' \in BOOLEAN /\ strays' \in Nat
    <3>1. websocket' \in {0, websocket}
      BY <1>3 DEF Close
    <3>2. \/ timer' = timer /\ strays' = strays
          \/ timer' = TRUE /\ strays' = strays + (IF timer THEN 1 ELSE 0)
      BY <1>3 DEF Close, timers
    <3>3. timer' \in {timer, TRUE} /\ timer \in BOOLEAN
      BY <3>2 DEF TypeOK
    <3>4. websocket' \in 0 .. MaxSocket
      BY <3>1, ClientAssumption DEF TypeOK
    <3>5. strays' \in Nat
      BY <3>2 DEF TypeOK
    <3>6. timer' \in BOOLEAN
      BY <3>3
    <3> QED
      BY <3>4, <3>5, <3>6
  <2>6. LogType' /\ PageType' /\ LineType'
    BY <2>1, <2>2, <2>3, <2>5 DEF LogType, PageType, LineType, screen
  <2> QED
    BY <2>2, <2>4, <2>6, Whole
<1>4. CASE HelloArrives(n)
  <2>1. /\ sockets' \in [Socket -> Wire]
        /\ \A m \in Socket : sockets'[m].at = sockets[m].at
    BY <1>4 DEF HelloArrives, TypeOK, Wire
  <2>2. sockets[n].to \in 0 .. MaxSession /\ sockets[n].hello \in Nat
    BY DEF TypeOK, Wire
  <2>3. /\ currentState' = [of |-> sockets[n].to, at |-> sockets[n].hello]
        /\ timelineItems' = Newest(sockets[n].to, sockets[n].hello, Recent)
        /\ busy' = FALSE
        /\ UNCHANGED <<log, simulationId, polling, choice, timers, stopTimers,
                       calls, inputs>>
    BY <1>4 DEF HelloArrives, Show
  <2>4. timelineItems' \in Seq(Snapshot) /\ currentState' \in Snapshot
    BY <2>2, <2>3, NewestType, ClientAssumption DEF Snapshot
  <2>5. LogType' /\ PageType' /\ LineType' /\ CountType'
    BY <2>1, <2>3, <2>4 DEF LogType, PageType, LineType, CountType, choice, timers
  <2>6. CallsInv'
    BY <2>1, <2>3 DEF CallsInv, RequestInv, NobodyWaitsInVain, IsCreating, TypeOK
  <2> QED
    BY <2>5, <2>6, Whole
<1> QED
  BY <1>1, <1>2, <1>3, <1>4

LEMMA NewsSteps ==
    ASSUME Held, FlagType', LineInv, NEW n \in Socket, NEW i \in Slot, NewsArrives(n, i)
    PROVE  Held'
<1> USE Parts DEF Held
<1>1. /\ IsLive(n) /\ sockets[n].to = simulationId /\ simulationId # 0
  BY DEF NewsArrives, LineInv, IsLive
<1>2. simulationId \in Session
  BY <1>1, SessionOfPage
<1>3. sockets[n].seen \in Nat
  BY DEF TypeOK, Wire
<1> DEFINE late == sockets[n].late
           seen == sockets[n].seen
<1>p. PICK k \in late \cup (seen + 1 .. Len(log[sockets[n].to])) :
        /\ AddTimelineItem([of |-> sockets[n].to, at |-> k])
        /\ sockets' = [sockets EXCEPT ![n].seen = IF k > seen THEN k ELSE seen,
                                     ![n].late = (late \cup (seen + 1 .. k)) \ {k}]
  BY DEF NewsArrives
<1>k. k \in Nat
  BY <1>3 DEF TypeOK, Wire
<1>4. /\ sockets' \in [Socket -> Wire]
      /\ \A m \in Socket : sockets'[m].at = sockets[m].at
  <2> DEFINE top == IF k > seen THEN k ELSE seen
             rest == (late \cup (seen + 1 .. k)) \ {k}
             wire == [sockets[n] EXCEPT !.seen = top, !.late = rest]
  <2>1. top \in Nat /\ rest \in SUBSET Nat
    BY <1>3, <1>k DEF TypeOK, Wire
  <2>2. sockets' = [sockets EXCEPT ![n] = wire]
    BY <1>p DEF TypeOK
  <2>3. sockets[n] \in Wire
    BY DEF TypeOK
  <2> HIDE DEF top, rest
  <2>4. wire \in Wire /\ wire.at = sockets[n].at
    BY <2>1, <2>3 DEF Wire
  <2> HIDE DEF wire
  <2> QED
    BY <2>2, <2>4 DEF TypeOK
<1>5. timelineItems' \in Seq(Snapshot)
  <2>1. [of |-> sockets[n].to, at |-> k] \in Snapshot
    BY <1>1, <1>k DEF Snapshot, TypeOK
  <2> QED
    BY <1>p, <2>1, AddType
<1>6. CallsInv'
  <2> DEFINE c == Request("read", "state", simulationId)
  <2>1. c \in Call /\ IsGood(c) /\ c.at = "state"
    BY <1>2, GoodRequest DEF Op
  <2>2. calls[i].at = "none"
    BY DEF NewsArrives, IsFree, RequestInv, IsGood
  <2>3. Becomes(i, c)
    BY DEF NewsArrives, Becomes
  <2> HIDE DEF c
  <2>4. /\ calls' \in [Slot -> Call] /\ RequestInv'
        /\ calls'[i] = c /\ \A j \in Slot : j # i => calls'[j] = calls[j]
        /\ \A j \in Slot : calls'[j].at = "join" => IsCreating'
    BY <2>1, <2>2, <2>3, BecomesEffect DEF Creating
  <2>5. \A m \in Socket : WillTell(m, sockets) => WillTell(m, sockets')
    BY <1>4 DEF WillTell
  <2>6. NobodyWaitsInVain'
    <3>1. \A j \in Slot : calls'[j].at \in {"open", "openNew"} =>
            calls'[j] = calls[j] /\ calls[j].on \in Socket
      BY <2>1, <2>4 DEF NobodyWaitsInVain
    <3> QED
      BY <2>4, <2>5, <3>1, WaitsKept
  <2> QED
    BY <2>4, <2>6 DEF CallsInv
<1>7. LogType' /\ PageType' /\ LineType' /\ CountType'
  <2>1. UNCHANGED <<log, simulationId, currentState, polling, busy, choice,
                   timers, stopTimers, inputs>>
    BY DEF NewsArrives
  <2> QED
    BY <1>4, <1>5, <2>1 DEF LogType, PageType, LineType, CountType, choice, timers
<1> QED
  BY <1>6, <1>7, Whole

LEMMA TimerSteps ==
    ASSUME Held, FlagType', LineInv, Reconnect \/ StopTimer
    PROVE  Held'
<1> USE Parts DEF Held
<1>1. CASE Reconnect
  <2>1. UNCHANGED <<log, page, stopTimers, calls, inputs>>
    BY <1>1 DEF Reconnect
  <2>2. PICK known \in BOOLEAN :
          /\ IF known THEN timer /\ UNCHANGED strays
                      ELSE strays > 0 /\ strays' = strays - 1
          /\ IF simulationId = 0 \/ IsConnected
             THEN /\ timer' = (timer /\ ~known)
                  /\ UNCHANGED <<choice, sockets>>
             ELSE \E n \in Socket : Dial(n, simulationId)
    BY <1>1 DEF Reconnect
  <2>3. strays' \in Nat
    BY <2>2 DEF TypeOK
  <2>4. CASE timer' = (timer /\ ~known) /\ UNCHANGED <<choice, sockets>>
    <3>1. CallsInv'
      BY <2>1, <2>4, CallsAlone
    <3>2. timer' \in BOOLEAN
      BY <2>4 DEF TypeOK
    <3>3. LogType' /\ PageType' /\ LineType' /\ CountType'
      BY <2>1, <2>3, <2>4, <3>2 DEF LogType, PageType, LineType, CountType, page, screen, choice
    <3> QED
      BY <3>1, <3>3, Whole
  <2>5. CASE simulationId # 0 /\ \E n \in Socket : Dial(n, simulationId)
    <3>1. PICK n \in Socket : Dial(n, simulationId)
      BY <2>5
    <3>2. /\ sockets' \in [Socket -> Wire] /\ websocket' \in 0 .. MaxSocket
          /\ intentional' \in BOOLEAN /\ timer' \in BOOLEAN
          /\ \A m \in Socket : WillTell(m, sockets) => WillTell(m, sockets')
      BY <2>5, <3>1, SessionOfPage, DialEffect
    <3>3. LogType' /\ PageType' /\ LineType' /\ CountType'
      BY <2>1, <2>3, <3>2 DEF LogType, PageType, LineType, CountType, page, screen
    <3>4. CallsInv'
      BY <2>1, <3>2 DEF CallsInv, TypeOK, RequestInv, NobodyWaitsInVain, IsCreating, WillTell
    <3> QED
      BY <3>3, <3>4, Whole
  <2> QED
    BY <2>2, <2>4, <2>5
<1>2. CASE StopTimer
  <2>1. /\ stopTimers' \in Nat /\ UNCHANGED <<log, page, strays, calls, inputs>>
    BY <1>2 DEF StopTimer, TypeOK
  <2>2. /\ sockets' \in [Socket -> Wire] /\ websocket' \in 0 .. MaxSocket
        /\ intentional' \in BOOLEAN /\ timer' \in BOOLEAN
        /\ \A m \in Socket : WillTell(m, sockets) => WillTell(m, sockets')
    BY <1>2, DisconnectEffect DEF StopTimer
  <2>3. LogType' /\ PageType' /\ LineType' /\ CountType'
    BY <2>1, <2>2 DEF LogType, PageType, LineType, CountType, page, screen
  <2>4. CallsInv'
    BY <2>1, <2>2 DEF CallsInv, TypeOK, RequestInv, NobodyWaitsInVain, IsCreating, WillTell
  <2> QED
    BY <2>3, <2>4, Whole
<1> QED
  BY <1>1, <1>2

LEMMA ServerSteps ==
    ASSUME Held, FlagType',
           \/ \E i \in Slot : Serve(i) \/ LoseRequest(i)
           \/ \E s \in Session : AutoTick(s)
    PROVE  Held'
<1> USE Parts DEF Held
<1>1. ASSUME NEW i \in Slot, Serve(i)
      PROVE  Held'
  <2>1. CallsInv' /\ log' \in [Session -> Seq(Status)]
    BY <1>1, ServeCalls
  <2>2. UNCHANGED <<page, line, stopTimers, inputs>>
    BY <1>1 DEF Serve
  <2>3. LogType' /\ PageType' /\ LineType' /\ CountType'
    BY <2>1, <2>2 DEF LogType, PageType, LineType, CountType, page, screen, line, choice, timers
  <2> QED
    BY <2>1, <2>3, Whole
<1>2. ASSUME NEW i \in Slot, LoseRequest(i)
      PROVE  Held'
  <2>1. CallsInv'
    BY <1>2, LoseCalls
  <2>2. Input /\ UNCHANGED <<log, page, line, stopTimers>>
    BY <1>2 DEF LoseRequest
  <2>3. LogType' /\ PageType' /\ LineType' /\ CountType'
    BY <2>2, InputType DEF LogType, PageType, LineType, page, screen, line, choice, timers
  <2> QED
    BY <2>1, <2>3, Whole
<1>3. ASSUME NEW s \in Session, AutoTick(s)
      PROVE  Held'
  <2>1. log' \in [Session -> Seq(Status)]
    <3>1. Append(log[s], "RUNNING") \in Seq(Status)
      BY DEF TypeOK, Status
    <3> QED
      BY <1>3, <3>1 DEF AutoTick, Grow, TypeOK
  <2>2. UNCHANGED <<page, line, stopTimers, calls, inputs>>
    BY <1>3 DEF AutoTick
  <2>3. CallsInv'
    BY <2>2, CallsAlone DEF line
  <2>4. LogType' /\ PageType' /\ LineType' /\ CountType'
    BY <2>1, <2>2 DEF LogType, PageType, LineType, CountType, page, screen, line, choice, timers
  <2> QED
    BY <2>3, <2>4, Whole
<1> QED
  BY <1>1, <1>2, <1>3

LEMMA ReplaceType ==
    ASSUME TypeOK, NEW c \in Call, c.on \in Session, ReplaceTimeline(c)
    PROVE  timelineItems' \in Seq(Snapshot)
<1>1. c.ver \in Nat /\ c.on \in 0 .. MaxSession
  BY DEF Call, Session
<1> QED
  BY <1>1, NewestType, ClientAssumption DEF ReplaceTimeline, TypeOK

LEMMA ShowType ==
    ASSUME NEW s \in Session, NEW ver \in Nat, Show(s, ver)
    PROVE  currentState' \in Snapshot /\ busy' = FALSE
BY DEF Show, Snapshot, Session

LEMMA NewCallType ==
    ASSUME NEW n \in Socket
    PROVE  LET c == [Free EXCEPT !.op = "start", !.at = "openNew", !.on = n]
           IN  c \in Call /\ c.op = "start" /\ c.at = "openNew" /\ c.on = n
<1>1. n \in Nat
  BY DEF Socket
<1> QED
  BY <1>1 DEF Free, Call

LEMMA CreateSteps ==
    ASSUME Held, FlagType', LineInv, NEW i \in Slot, calls[i].got # "no", CreateArrives(i),
           UNCHANGED <<log, inputs>>
    PROVE  Held'
<1> USE Parts DEF Held
<1>1. calls[i].at = "create" /\ calls[i] \in Call /\ UNCHANGED stopTimers
  BY DEF CreateArrives, TypeOK
<1>2. LogType' /\ CountType'
  BY <1>1 DEF LogType, CountType
<1>3. CASE calls[i].got = "ok"
  <2> DEFINE s == calls[i].on
  <2>1. s \in Session /\ calls[i].ver \in Nat
    BY <1>1, <1>3 DEF RequestInv, IsGood, Call
  <2>2. /\ simulationId' = s /\ Show(s, calls[i].ver) /\ timelineItems' = <<>>
        /\ polling' = FALSE /\ UNCHANGED strays
    BY <1>3 DEF CreateArrives
  <2>3. PICK n \in Socket :
          /\ Dial(n, s)
          /\ Becomes(i, [Free EXCEPT !.op = "start", !.at = "openNew", !.on = n])
    BY <1>3 DEF CreateArrives
  <2> DEFINE c == [Free EXCEPT !.op = "start", !.at = "openNew", !.on = n]
  <2>4. c \in Call /\ c.op = "start" /\ c.at = "openNew" /\ c.on = n
    BY NewCallType
  <2>5. Becomes(i, c)
    BY <2>3
  <2> HIDE DEF c
  <2>6. /\ calls' \in [Slot -> Call] /\ RequestInv'
        /\ calls'[i] = c /\ \A j \in Slot : j # i => calls'[j] = calls[j]
        /\ \A j \in Slot : calls'[j].at = "join" => IsCreating'
    BY <2>4, <2>5, BecomesEffect DEF Creating, IsGood
  <2>7. /\ sockets' \in [Socket -> Wire] /\ websocket' \in 0 .. MaxSocket
        /\ intentional' \in BOOLEAN /\ timer' \in BOOLEAN
        /\ WillTell(n, sockets')
        /\ \A m \in Socket : WillTell(m, sockets) => WillTell(m, sockets')
    BY <2>1, <2>3, DialEffect
  <2>8. \A j \in Slot : calls'[j].at \in {"open", "openNew"} =>
          \/ /\ calls'[j] = calls[j]
             /\ WillTell(calls[j].on, sockets) => WillTell(calls[j].on, sockets')
          \/ calls'[j].on \in Socket /\ WillTell(calls'[j].on, sockets')
    BY <2>4, <2>6, <2>7 DEF NobodyWaitsInVain
  <2>9. CallsInv'
    BY <2>6, <2>8, WaitsKept DEF CallsInv
  <2>10. LineType'
    BY <2>2, <2>7 DEF LineType
  <2>11. PageType'
    <3>1. simulationId' \in 0 .. MaxSession
      BY <2>1, <2>2 DEF Session
    <3>2. currentState' \in Snapshot /\ busy' = FALSE
      BY <2>1, <2>2, ShowType
    <3>3. polling' \in BOOLEAN /\ busy' \in BOOLEAN
      BY <2>2, <3>2
    <3>4. timelineItems' \in Seq(Snapshot)
      BY <2>2
    <3> QED
      BY <3>1, <3>2, <3>3, <3>4 DEF PageType
  <2> QED
    BY <1>2, <2>9, <2>10, <2>11, Whole
<1>4. CASE calls[i].got # "ok"
  <2>1. Fail({i}) /\ UNCHANGED <<screen, polling, line>>
    BY <1>4 DEF CreateArrives
  <2>2. CallsInv' /\ busy' \in BOOLEAN
    <3>1. UNCHANGED sockets
      BY <2>1 DEF line
    <3> QED
      BY <1>1, <2>1, <3>1, FailCalls
  <2>3. PageType' /\ LineType'
    BY <2>1, <2>2 DEF PageType, LineType, screen, line, choice, timers
  <2> QED
    BY <1>2, <2>2, <2>3, Whole
<1> QED
  BY <1>3, <1>4

LEMMA FirstSteps ==
    ASSUME Held, FlagType', NEW i \in Slot, FirstArrives(i), UNCHANGED <<log, inputs>>
    PROVE  Held'
<1> USE Parts DEF Held
<1>1. calls[i].at = "first" /\ calls[i] \in Call /\ calls[i].on \in Session
  BY DEF FirstArrives, TypeOK, RequestInv, IsGood
<1>2. timelineItems' \in Seq(Snapshot)
  BY <1>1, ReplaceType DEF FirstArrives
<1>3. UNCHANGED <<simulationId, currentState, line, stopTimers>>
  BY DEF FirstArrives
<1>4. CASE simulationId # 0
  <2> DEFINE c == Request("start", "post", simulationId)
  <2>1. c \in Call /\ IsGood(c) /\ c.at = "post"
    BY <1>4, SessionOfPage, GoodRequest DEF Op
  <2>2. calls' = [j \in Slot |-> IF j = i \/ calls[j].at = "join" THEN c ELSE calls[j]]
    BY <1>4 DEF FirstArrives
  <2> HIDE DEF c
  <2>3. calls' \in [Slot -> Call] /\ RequestInv'
    BY <2>1, <2>2 DEF TypeOK, RequestInv
  <2>4. \A j \in Slot : calls'[j].at \in {"open", "openNew"} => calls'[j] = calls[j]
    BY <2>1, <2>2
  <2>5. \A j \in Slot : calls'[j].at # "join"
    BY <2>1, <2>2
  <2>6. UNCHANGED sockets
    BY <1>3 DEF line
  <2>7. NobodyWaitsInVain'
    BY <2>4, <2>5, <2>6, WaitsKept
  <2>8. CallsInv'
    BY <2>3, <2>7 DEF CallsInv
  <2>9. polling' = TRUE /\ UNCHANGED busy
    BY <1>4 DEF FirstArrives
  <2>10. LogType' /\ PageType' /\ LineType' /\ CountType'
    BY <1>2, <1>3, <2>9 DEF LogType, PageType, LineType, CountType, line, choice, timers
  <2> QED
    BY <2>8, <2>10, Whole
<1>5. CASE simulationId = 0
  <2> DEFINE failed == {j \in Slot : j = i \/ calls[j].at = "join"}
  <2>1. Fail(failed) /\ UNCHANGED polling
    BY <1>5 DEF FirstArrives
  <2>2. /\ failed \in SUBSET Slot
        /\ \A k \in failed : calls[k].at = "first" =>
             \A j \in Slot : calls[j].at = "join" => j \in failed
    OBVIOUS
  <2> HIDE DEF failed
  <2>3. /\ calls' \in [Slot -> Call] /\ busy' \in BOOLEAN
        /\ RequestInv'
        /\ \A j \in Slot : calls'[j] = Free \/ (j \notin failed /\ calls'[j] = calls[j])
        /\ \A j \in Slot : calls'[j].at = "join" => IsCreating'
    BY <2>1, <2>2, FailEffect
  <2>4. \A j \in Slot : calls'[j].at \in {"open", "openNew"} => calls'[j] = calls[j]
    BY <2>3, FreeType
  <2>5. UNCHANGED sockets
    BY <1>3 DEF line
  <2>6. CallsInv'
    BY <2>3, <2>4, <2>5, WaitsKept DEF CallsInv
  <2>7. LogType' /\ PageType' /\ LineType' /\ CountType'
    BY <1>2, <1>3, <2>1, <2>3 DEF LogType, PageType, LineType, CountType, line, choice, timers
  <2> QED
    BY <2>6, <2>7, Whole
<1> QED
  BY <1>4, <1>5

LEMMA StopEndsType ==
    ASSUME TypeOK, StopEnds \/ UNCHANGED <<polling, stopTimers>>
    PROVE  polling' \in BOOLEAN /\ stopTimers' \in Nat
<1>1. polling' \in {FALSE, polling} /\ polling \in BOOLEAN
  BY DEF StopEnds, TypeOK
<1>2. stopTimers' \in {stopTimers, stopTimers + 1} /\ stopTimers \in Nat
  BY DEF StopEnds, TypeOK
<1>3. polling' \in BOOLEAN
  BY <1>1
<1>4. stopTimers' \in Nat
  BY <1>2
<1> QED
  BY <1>3, <1>4

LEMMA EmptyType ==
    ASSUME TypeOK, timelineItems' \in {<<>>, timelineItems}
    PROVE  timelineItems' \in Seq(Snapshot)
<1>1. timelineItems \in Seq(Snapshot)
  BY DEF TypeOK
<1>2. <<>> \in Seq(Snapshot)
  OBVIOUS
<1> QED
  BY <1>1, <1>2

LEMMA PostSteps ==
    ASSUME Held, FlagType', NEW i \in Slot, calls[i].got # "no", PostArrives(i),
           UNCHANGED <<log, inputs>>
    PROVE  Held'
<1> USE Parts DEF Held
<1> DEFINE c == calls[i]
           next == IF c.op = "stop" THEN "timeline" ELSE "state"
<1>1. c.at = "post" /\ c \in Call /\ c.on \in Session /\ c.ver \in Nat /\ c.op \in Op \ {"none"}
  <2>1. c.at = "post" /\ c \in Call
    BY DEF PostArrives, TypeOK
  <2> QED
    BY <2>1 DEF RequestInv, IsGood, Call, Op
<1>2. UNCHANGED <<simulationId, line>>
  BY DEF PostArrives
<1>3. timelineItems' \in Seq(Snapshot)
  <2>1. timelineItems' \in {<<>>, timelineItems}
    BY DEF PostArrives
  <2> QED
    BY <2>1, EmptyType
<1>4. polling' \in BOOLEAN /\ stopTimers' \in Nat
  BY StopEndsType DEF PostArrives
<1>5. CASE c.got = "ok"
  <2>1. /\ Show(c.on, c.ver)
        /\ IF simulationId # 0 THEN Becomes(i, Request(c.op, next, simulationId))
                               ELSE Ends(i)
    BY <1>5 DEF PostArrives
  <2>2. currentState' \in Snapshot /\ busy' \in BOOLEAN
    BY <1>1, <2>1, ShowType
  <2>3. UNCHANGED sockets /\ c.at \notin Creating
    BY <1>1, <1>2 DEF line, Creating
  <2>4. CallsInv'
    <3>1. CASE simulationId # 0
      <4>1. next \in {"timeline", "state"} /\ simulationId \in Session
        BY <3>1, SessionOfPage
      <4> HIDE DEF next
      <4>2. /\ Request(c.op, next, simulationId) \in Call
            /\ IsGood(Request(c.op, next, simulationId))
            /\ Request(c.op, next, simulationId).at \in {"timeline", "state"}
        BY <1>1, <4>1, GoodRequest
      <4>3. Becomes(i, Request(c.op, next, simulationId))
        BY <2>1, <3>1
      <4> QED
        BY <2>3, <4>2, <4>3, OneCall
    <3>2. CASE simulationId = 0
      BY <2>1, <2>3, <3>2, GoodFree, OneCall DEF Ends
    <3> QED
      BY <3>1, <3>2
  <2>5. LogType' /\ PageType' /\ LineType' /\ CountType'
    BY <1>2, <1>3, <1>4, <2>2 DEF LogType, PageType, LineType, CountType, line, choice, timers
  <2> QED
    BY <2>4, <2>5, Whole
<1>6. CASE c.got # "ok"
  <2>1. Fail({i}) /\ UNCHANGED currentState /\ UNCHANGED sockets
    BY <1>2, <1>6 DEF PostArrives, line
  <2>2. CallsInv' /\ busy' \in BOOLEAN
    BY <1>1, <2>1, FailCalls
  <2>3. LogType' /\ PageType' /\ LineType' /\ CountType'
    BY <1>2, <1>3, <1>4, <2>1, <2>2
       DEF LogType, PageType, LineType, CountType, line, choice, timers
  <2> QED
    BY <2>2, <2>3, Whole
<1> QED
  BY <1>5, <1>6

LEMMA StateSteps ==
    ASSUME Held, FlagType', NEW i \in Slot, calls[i].got # "no", StateArrives(i),
           UNCHANGED <<log, inputs>>
    PROVE  Held'
<1> USE Parts DEF Held
<1> DEFINE c == calls[i]
           isOver == log[c.on][c.ver] = "STOPPED"
           next == IF c.op = "boot" /\ isOver THEN "over" ELSE c.op
           goesOn == /\ simulationId # 0
                     /\ c.op = "start" \/ (c.op = "boot" /\ c.got = "ok")
<1>1. c.at = "state" /\ c \in Call /\ c.on \in Session /\ c.ver \in Nat /\ c.op \in Op \ {"none"}
  <2>1. c.at = "state" /\ c \in Call
    BY DEF StateArrives, TypeOK
  <2> QED
    BY <2>1 DEF RequestInv, IsGood, Call, Op
<1>2. UNCHANGED <<simulationId, line, stopTimers>>
  BY DEF StateArrives
<1>3. /\ timelineItems' \in {<<>>, timelineItems}
      /\ polling' = (polling \/ (c.op = "control" /\ simulationId # 0))
  BY DEF StateArrives
<1>4. timelineItems' \in Seq(Snapshot)
  BY <1>3, EmptyType
<1>5. polling' \in BOOLEAN
  BY <1>3 DEF TypeOK
<1>6. currentState' \in Snapshot /\ busy' \in BOOLEAN
  <2>1. CASE Show(c.on, c.ver)
    BY <1>1, <2>1, ShowType
  <2>2. CASE busy' = (busy /\ (goesOn \/ ~IsClick(c))) /\ UNCHANGED currentState
    <3>1. busy' \in BOOLEAN
      BY <2>2 DEF TypeOK
    <3> QED
      BY <2>2, <3>1 DEF TypeOK
  <2> QED
    BY <2>1, <2>2 DEF StateArrives
<1>7. CallsInv'
  <2>1. UNCHANGED sockets /\ c.at \notin Creating
    BY <1>1, <1>2 DEF line, Creating
  <2>2. CASE goesOn
    <3>1. next \in Op \ {"none"} /\ simulationId \in Session
      BY <1>1, <2>2, SessionOfPage DEF Op
    <3>2. Becomes(i, Request(next, "timeline", simulationId))
      BY <2>2 DEF StateArrives
    <3> HIDE DEF next
    <3>3. /\ Request(next, "timeline", simulationId) \in Call
          /\ IsGood(Request(next, "timeline", simulationId))
          /\ Request(next, "timeline", simulationId).at = "timeline"
      BY <3>1, GoodRequest
    <3> QED
      BY <2>1, <3>2, <3>3, OneCall
  <2>3. CASE ~goesOn
    <3>1. Ends(i)
      BY <2>3 DEF StateArrives
    <3> QED
      BY <2>1, <3>1, GoodFree, OneCall DEF Ends
  <2> QED
    BY <2>2, <2>3
<1>8. LogType' /\ PageType' /\ LineType' /\ CountType'
  BY <1>2, <1>4, <1>5, <1>6 DEF LogType, PageType, LineType, CountType, line, choice, timers
<1> QED
  BY <1>7, <1>8, Whole

LEMMA IdleSteps ==
    ASSUME Held, FlagType', LineInv, NEW i \in Slot, ResetToIdle(i), UNCHANGED <<log, inputs>>
    PROVE  Held'
<1> USE Parts DEF Held
<1>1. calls[i].at = "state" /\ Becomes(i, Free) /\ UNCHANGED <<strays, stopTimers>>
  BY DEF ResetToIdle, Ends
<1>2. /\ calls' \in [Slot -> Call] /\ RequestInv'
      /\ calls'[i] = Free /\ \A j \in Slot : j # i => calls'[j] = calls[j]
      /\ \A j \in Slot : calls'[j].at = "join" => IsCreating'
  BY <1>1, GoodFree, BecomesEffect DEF Creating
<1>3. /\ sockets' \in [Socket -> Wire] /\ websocket' \in 0 .. MaxSocket
      /\ intentional' \in BOOLEAN /\ timer' \in BOOLEAN
      /\ \A m \in Socket : WillTell(m, sockets) => WillTell(m, sockets')
  BY DisconnectEffect DEF ResetToIdle
<1>4. \A j \in Slot : calls'[j].at \in {"open", "openNew"} =>
        calls'[j] = calls[j] /\ calls[j].on \in Socket
  BY <1>2, FreeType DEF NobodyWaitsInVain
<1>5. CallsInv'
  BY <1>2, <1>3, <1>4, WaitsKept DEF CallsInv
<1>6. PageType'
  <2>1. /\ simulationId' = 0 /\ currentState' = Nothing /\ timelineItems' = <<>>
        /\ polling' = FALSE /\ busy' = FALSE
    BY DEF ResetToIdle
  <2>2. polling' \in BOOLEAN /\ busy' \in BOOLEAN
    BY <2>1
  <2>3. Nothing \in Snapshot /\ 0 \in 0 .. MaxSession
    BY ClientAssumption DEF Nothing, Snapshot
  <2>4. timelineItems' \in Seq(Snapshot)
    BY <2>1
  <2> QED
    BY <2>1, <2>2, <2>3, <2>4 DEF PageType
<1>7. LogType' /\ LineType' /\ CountType'
  BY <1>1, <1>3 DEF LogType, LineType, CountType
<1> QED
  BY <1>5, <1>6, <1>7, Whole

LEMMA TimelineSteps ==
    ASSUME Held, FlagType', LineInv, NEW i \in Slot, TimelineArrives(i), UNCHANGED <<log, inputs>>
    PROVE  Held'
<1> USE Parts DEF Held
<1> DEFINE c == calls[i]
           d == [Free EXCEPT !.op = c.op, !.at = "open"]
<1>1. c.at = "timeline" /\ c \in Call /\ c.on \in Session /\ c.op \in Op
  <2>1. c.at = "timeline" /\ c \in Call
    BY DEF TimelineArrives, TypeOK
  <2> QED
    BY <2>1 DEF RequestInv, IsGood, Call, Op
<1>2. timelineItems' \in Seq(Snapshot)
  BY <1>1, ReplaceType DEF TimelineArrives
<1>3. UNCHANGED <<simulationId, currentState>> /\ busy' = (busy /\ ~IsClick(c))
  BY DEF TimelineArrives
<1>4. busy' \in BOOLEAN
  BY <1>3 DEF TypeOK
<1>5. CASE c.op \in {"boot", "over"} /\ Connect(i, d) /\ UNCHANGED stopTimers
  <2>1. d \in Call /\ d.op = c.op /\ d.at = "open"
    BY <1>1 DEF Free, Call, Op
  <2> HIDE DEF d
  <2>2. c.at \notin Creating /\ d.op # "none" /\ d.op # "start"
    BY <1>1, <1>5, <2>1 DEF Creating
  <2>3. CallsInv' /\ LineType' /\ polling' \in BOOLEAN
    BY <1>5, <2>1, <2>2, ConnectCalls
  <2>4. LogType' /\ PageType' /\ CountType'
    BY <1>2, <1>3, <1>4, <1>5, <2>3 DEF LogType, PageType, CountType
  <2> QED
    BY <2>3, <2>4, Whole
<1>6. CASE Ends(i) /\ UNCHANGED line /\ (UNCHANGED <<polling, stopTimers>> \/ StopEnds)
  <2>1. UNCHANGED sockets /\ c.at \notin Creating /\ Becomes(i, Free)
    BY <1>1, <1>6 DEF line, Creating, Ends
  <2>2. CallsInv'
    BY <2>1, GoodFree, OneCall
  <2>3. polling' \in BOOLEAN /\ stopTimers' \in Nat
    BY <1>6, StopEndsType
  <2>4. LogType' /\ PageType' /\ LineType' /\ CountType'
    BY <1>2, <1>3, <1>4, <1>6, <2>3 DEF LogType, PageType, LineType, CountType, line, choice, timers
  <2> QED
    BY <2>2, <2>4, Whole
<1> QED
  BY <1>5, <1>6 DEF TimelineArrives

LEMMA PressedType ==
    ASSUME RequestInv, NEW i \in Slot, IsFree(i)
    PROVE  calls[i].at = "none"
BY DEF IsFree, RequestInv, IsGood

\* A timer or a button whose request takes slot i.
LEMMA AskSteps ==
    ASSUME Held, FlagType', NEW i \in Slot, Poll(i) \/ Control(i, "control") \/ Control(i, "stop")
    PROVE  Held'
<1> USE Parts DEF Held
<1>1. /\ simulationId \in Session /\ calls[i].at \notin Creating
      /\ UNCHANGED <<log, screen, polling, line, stopTimers>>
      /\ CountType' /\ busy' \in {TRUE, busy}
      /\ \E op \in {"read", "control", "stop"}, at \in {"state", "post"} :
            Becomes(i, Request(op, at, simulationId))
  <2>1. CASE Poll(i)
    BY <2>1, SessionOfPage, PressedType DEF Poll, Creating, page, CountType
  <2>2. CASE Control(i, "control") \/ Control(i, "stop")
    <3>1. Press(i) /\ UNCHANGED <<log, screen, polling, line, stopTimers>> /\ HasSession
          /\ busy' = TRUE
      BY <2>2 DEF Control
    <3>2. CountType'
      BY <3>1, InputType DEF Press
    <3>3. \E op \in {"control", "stop"} : Becomes(i, Request(op, "post", simulationId))
      BY <2>2 DEF Control
    <3> QED
      BY <3>1, <3>2, <3>3, SessionOfPage, PressedType DEF Press, HasSession, Creating
  <2> QED
    BY <2>1, <2>2
<1>2. PICK op \in {"read", "control", "stop"}, at \in {"state", "post"} :
        Becomes(i, Request(op, at, simulationId))
  BY <1>1
<1>3. /\ Request(op, at, simulationId) \in Call /\ IsGood(Request(op, at, simulationId))
      /\ Request(op, at, simulationId).at = at
  BY <1>1, GoodRequest DEF Op
<1>4. UNCHANGED sockets
  BY <1>1 DEF line
<1>5. CallsInv'
  BY <1>1, <1>2, <1>3, <1>4, OneCall
<1>6. busy' \in BOOLEAN
  BY <1>1 DEF TypeOK
<1>7. LogType' /\ PageType' /\ LineType' /\ CountType'
  BY <1>1, <1>6 DEF LogType, PageType, LineType, screen, line, choice, timers
<1> QED
  BY <1>5, <1>7, Whole

LEMMA StartSteps ==
    ASSUME Held, FlagType', LineInv, NEW i \in Slot, Start(i)
    PROVE  Held'
<1> USE Parts DEF Held
<1>1. /\ Press(i) /\ busy' = TRUE /\ UNCHANGED <<log, screen, stopTimers>>
      /\ calls[i].at \notin Creating
  BY PressedType DEF Start, Press, Creating
<1>2. CountType'
  BY <1>1, InputType DEF Press
<1>3. busy' \in BOOLEAN
  BY <1>1
<1>4. ASSUME NEW c \in Call, Becomes(i, c), c.op = "start", c.got = "no",
             c.at = "create" \/ (c.at = "join" /\ IsCreating),
             UNCHANGED <<polling, line>>
      PROVE  Held'
  <2>1. UNCHANGED sockets /\ IsGood(c)
    BY <1>4 DEF line, IsGood
  <2>2. CallsInv'
    BY <1>1, <1>4, <2>1, OneCall
  <2>3. LogType' /\ PageType' /\ LineType'
    BY <1>1, <1>3, <1>4 DEF LogType, PageType, LineType, screen, line, choice, timers
  <2> QED
    BY <1>2, <2>2, <2>3, Whole
<1>5. CASE IsCreating /\ Becomes(i, [Free EXCEPT !.op = "start", !.at = "join"])
           /\ UNCHANGED <<polling, line>>
  <2> DEFINE c == [Free EXCEPT !.op = "start", !.at = "join"]
  <2>1. c \in Call /\ c.op = "start" /\ c.got = "no" /\ c.at = "join"
    BY DEF Free, Call
  <2>2. Becomes(i, c)
    BY <1>5
  <2> HIDE DEF c
  <2> QED
    BY <1>4, <1>5, <2>1, <2>2
<1>6. CASE Becomes(i, Request("start", "create", 0)) /\ UNCHANGED <<polling, line>>
  <2> DEFINE c == Request("start", "create", 0)
  <2>1. c \in Call /\ c.op = "start" /\ c.got = "no" /\ c.at = "create"
    BY RequestType DEF Op, At
  <2>2. Becomes(i, c)
    BY <1>6
  <2> HIDE DEF c
  <2> QED
    BY <1>4, <1>6, <2>1, <2>2
<1>7. CASE HasSession /\ Connect(i, [Free EXCEPT !.op = "start", !.at = "open"])
  <2> DEFINE c == [Free EXCEPT !.op = "start", !.at = "open"]
  <2>1. c \in Call /\ c.op = "start" /\ c.at = "open"
    BY DEF Free, Call
  <2>2. Connect(i, c)
    BY <1>7
  <2> HIDE DEF c
  <2>3. CallsInv' /\ LineType' /\ polling' \in BOOLEAN
    BY <1>1, <1>7, <2>1, <2>2, ConnectCalls DEF HasSession
  <2>4. LogType' /\ PageType'
    BY <1>1, <1>3, <2>3 DEF LogType, PageType, screen
  <2> QED
    BY <1>2, <2>3, <2>4, Whole
<1>8. \/ /\ IsCreating
         /\ Becomes(i, [Free EXCEPT !.op = "start", !.at = "join"])
         /\ UNCHANGED <<polling, line>>
      \/ Becomes(i, Request("start", "create", 0)) /\ UNCHANGED <<polling, line>>
      \/ HasSession /\ Connect(i, [Free EXCEPT !.op = "start", !.at = "open"])
  <2>1. CASE ~HasSession \/ StatusShown = "STOPPED"
    BY <2>1 DEF Start
  <2>2. CASE HasSession /\ StatusShown # "STOPPED"
    BY <2>2 DEF Start
  <2> QED
    BY <2>1, <2>2
<1> QED
  BY <1>5, <1>6, <1>7, <1>8

LEMMA ButtonSteps ==
    ASSUME Held, FlagType',
           \/ \E i, j \in Slot : Refresh(i, j)
           \/ \E i \in Slot : Reload(i)
           \/ Clear
    PROVE  Held'
<1> USE Parts DEF Held
<1>1. ASSUME NEW i \in Slot, NEW j \in Slot, Refresh(i, j)
      PROVE  Held'
  <2> DEFINE c == Request("read", "state", simulationId)
             d == Request("read", "timeline", simulationId)
  <2>1. c \in Call /\ IsGood(c) /\ c.at = "state" /\ d \in Call /\ IsGood(d) /\ d.at = "timeline"
    BY <1>1, SessionOfPage, GoodRequest DEF Refresh, HasSession, Op
  <2>2. /\ calls' = [calls EXCEPT ![i] = c, ![j] = d] /\ i # j
        /\ calls[i].at = "none" /\ calls[j].at = "none"
    BY <1>1, PressedType DEF Refresh, Press, RequestInv, IsGood
  <2> HIDE DEF c, d
  <2>3. /\ calls' \in [Slot -> Call] /\ calls'[i] = c /\ calls'[j] = d
        /\ \A k \in Slot \ {i, j} : calls'[k] = calls[k]
    BY <2>1, <2>2 DEF TypeOK
  <2>4. RequestInv'
    BY <2>1, <2>3 DEF RequestInv
  <2>5. UNCHANGED <<log, page, line, stopTimers>> /\ Press(i)
    BY <1>1 DEF Refresh
  <2>6. \A k \in Slot : calls'[k].at \in {"open", "openNew"} => calls'[k] = calls[k]
    BY <2>1, <2>3
  <2>7. ASSUME NEW k \in Slot, calls'[k].at = "join"
        PROVE  IsCreating'
    <3>1. calls[k].at = "join"
      BY <2>1, <2>3, <2>7
    <3>2. PICK m \in Slot : calls[m].at \in {"create", "openNew", "first"}
      BY <3>1 DEF NobodyWaitsInVain, IsCreating
    <3>3. calls'[m].at \in {"create", "openNew", "first"}
      BY <2>2, <2>3, <3>2
    <3> QED
      BY <3>3 DEF IsCreating
  <2>8. UNCHANGED sockets
    BY <2>5 DEF line
  <2>9. CallsInv'
    BY <2>3, <2>4, <2>6, <2>7, <2>8, WaitsKept DEF CallsInv
  <2>10. LogType' /\ PageType' /\ LineType' /\ CountType'
    BY <2>5, InputType DEF Press, LogType, PageType, LineType, page, screen, line, choice, timers
  <2> QED
    BY <2>9, <2>10, Whole
<1>2. ASSUME NEW i \in Slot, Reload(i)
      PROVE  Held'
  <2>1. /\ UNCHANGED <<log, simulationId, currentState, polling, busy, line, stopTimers>>
        /\ Press(i) /\ calls[i].at \notin Creating
    BY <1>2, PressedType DEF Reload, Press, Creating
  <2>2. UNCHANGED sockets
    BY <2>1 DEF line
  <2>3. timelineItems' \in Seq(Snapshot)
    BY <1>2, EmptyType DEF Reload
  <2>4. CallsInv'
    <3>1. CASE simulationId = 0
      BY <1>2, <2>2, <3>1, CallsAlone DEF Reload
    <3>2. CASE simulationId # 0
      <4>1. /\ Request("read", "timeline", simulationId) \in Call
            /\ IsGood(Request("read", "timeline", simulationId))
            /\ Request("read", "timeline", simulationId).at = "timeline"
        BY <3>2, SessionOfPage, GoodRequest DEF Op
      <4>2. Becomes(i, Request("read", "timeline", simulationId))
        BY <1>2, <3>2 DEF Reload
      <4> QED
        BY <2>1, <2>2, <4>1, <4>2, OneCall
    <3> QED
      BY <3>1, <3>2
  <2>5. LogType' /\ PageType' /\ LineType' /\ CountType'
    BY <2>1, <2>3, InputType DEF Press, LogType, PageType, LineType, line, choice, timers
  <2> QED
    BY <2>4, <2>5, Whole
<1>3. CASE Clear
  <2>1. /\ UNCHANGED <<log, simulationId, currentState, polling, busy, line, stopTimers, calls>>
        /\ Input
    BY <1>3 DEF Clear
  <2>2. timelineItems' \in Seq(Snapshot)
    BY <1>3, EmptyType DEF Clear
  <2>3. CallsInv'
    BY <2>1, CallsAlone DEF line
  <2>4. LogType' /\ PageType' /\ LineType' /\ CountType'
    BY <2>1, <2>2, InputType DEF LogType, PageType, LineType, line, choice, timers
  <2> QED
    BY <2>3, <2>4, Whole
<1> QED
  BY <1>1, <1>2, <1>3

LEMMA StepHeld ==
    ASSUME ClientInv, [Next]_vars
    PROVE  Held'
<1>1. Held /\ LineInv /\ FlagType'
  BY FlagStep DEF ClientInv, Held
<1>2. ASSUME NEW i \in Slot, Arrive(i)
      PROVE  Held'
  BY <1>1, <1>2, CreateSteps, FirstSteps, PostSteps, StateSteps, IdleSteps, TimelineSteps DEF Arrive
<1>3. CASE UNCHANGED vars
  <2>1. CallsInv'
    BY <1>1, <1>3, CallsAlone DEF vars, line
  <2>2. LogType' /\ PageType' /\ LineType' /\ CountType'
    BY <1>1, <1>3, Parts DEF Held, LogType, PageType, LineType, CountType, vars, page, screen,
                             line, choice, timers
  <2> QED
    BY <1>1, <2>1, <2>2, Whole
<1>4. ASSUME NEW n \in Socket,
             \/ Open(n) \/ HandshakeTimeout(n) \/ Close(n) \/ HelloArrives(n)
             \/ \E i \in Slot : NewsArrives(n, i)
      PROVE  Held'
  BY <1>1, <1>4, SocketSteps, NewsSteps
<1>5. ASSUME \/ Reconnect \/ StopTimer \/ Clear
             \/ \E i, j \in Slot : Refresh(i, j)
             \/ \E s \in Session : AutoTick(s)
      PROVE  Held'
  <2>1. CASE Reconnect \/ StopTimer
    BY <1>1, <2>1, TimerSteps
  <2>2. CASE Clear \/ \E i, j \in Slot : Refresh(i, j)
    <3>1. Held /\ FlagType'
      BY <1>1
    <3> QED
      BY ONLY <2>2, <3>1, ButtonSteps
  <2>3. CASE \E s \in Session : AutoTick(s)
    BY <1>1, <2>3, ServerSteps
  <2> QED
    BY <1>5, <2>1, <2>2, <2>3
<1>6. ASSUME NEW i \in Slot,
             \/ Serve(i) \/ LoseRequest(i) \/ Poll(i) \/ Start(i) \/ Reload(i)
             \/ Control(i, "control") \/ Control(i, "stop")
      PROVE  Held'
  <2>1. CASE Serve(i) \/ LoseRequest(i)
    BY <1>1, <2>1, ServerSteps
  <2>2. CASE Poll(i) \/ Control(i, "control") \/ Control(i, "stop")
    BY <1>1, <2>2, AskSteps
  <2>3. CASE Start(i)
    BY <1>1, <2>3, StartSteps
  <2>4. CASE Reload(i)
    BY <1>1, <2>4, ButtonSteps
  <2> QED
    BY <1>6, <2>1, <2>2, <2>3, <2>4
<1> QED
  BY <1>2, <1>3, <1>4, <1>5, <1>6 DEF Next

LEMMA ClientStep ==
    ASSUME ClientInv, [Next]_vars
    PROVE  ClientInv'
<1>1. Held'
  BY StepHeld
<1>2. LineInv'
  BY StepLine DEF ClientInv
<1> QED
  BY <1>1, <1>2 DEF Held, ClientInv

LEMMA ClientInvariant == Spec => []ClientInv
<1>1. Init => ClientInv
  BY InitClient
<1>2. ClientInv /\ [Next]_vars => ClientInv'
  BY ClientStep
<1> QED
  BY <1>1, <1>2, PTL DEF Spec

-----------------------------------------------------------------------------
(* The list.  A socket that falls behind the list leaves no hole in it as   *)
(* long as a list reaches back to the socket's last item.                   *)

\* No open socket has more items to read than a list holds.
FewBehind ==
    \A n \in Socket : sockets[n].at = "open" =>
        Len(log[sockets[n].to]) <= sockets[n].seen + Limit

Shown(s, a) == OnScreen([of |-> s, at |-> a])

ItemsExist ==
    \A i \in DOMAIN timelineItems :
        /\ timelineItems[i].of \in Session
        /\ timelineItems[i].at \in 1 .. Len(log[timelineItems[i].of])

WireExists ==
    \A n \in Socket : sockets[n].at = "open" =>
        /\ sockets[n].hello <= sockets[n].seen
        /\ sockets[n].seen <= Len(log[sockets[n].to])
        /\ \A k \in sockets[n].late : k \in 1 .. sockets[n].seen

\* Items ahead of the socket are on the screen with all before them, as long
\* as no late item has pushed others out of the list.
NoHole ==
    ~overtaken => \A n \in Socket : sockets[n].at = "open" =>
        \A i \in DOMAIN timelineItems : timelineItems[i].of = sockets[n].to =>
            \A b \in sockets[n].seen + 1 .. timelineItems[i].at :
                Shown(sockets[n].to, b)

IsList(c) == c.at \in {"timeline", "first"} /\ c.got = "ok"
AnswersExist ==
    \A j \in Slot : IsList(calls[j]) => calls[j].ver <= Len(log[calls[j].on])

ListInv == OnceAndNewestFirst /\ ItemsExist /\ WireExists /\ NoHole
FeedInv == ClientInv /\ ListInv /\ AnswersExist

LEMMA NewestEffect ==
    ASSUME NEW s, NEW ver \in Nat, NEW k \in Nat
    PROVE  /\ \A i \in DOMAIN Newest(s, ver, k) :
                /\ i \in Nat /\ Newest(s, ver, k)[i] = [of |-> s, at |-> ver + 1 - i]
                /\ ver + 1 - i \in 1 .. ver
           /\ \A b \in 1 .. ver : b > ver - k =>
                \E i \in DOMAIN Newest(s, ver, k) : Newest(s, ver, k)[i] = [of |-> s, at |-> b]
<1> DEFINE m == IF ver < k THEN ver ELSE k
<1>1. m \in Nat /\ m <= ver /\ m <= k /\ (m = ver \/ m = k)
  OBVIOUS
<1>2. Newest(s, ver, k) = [i \in 1 .. m |-> [of |-> s, at |-> ver + 1 - i]]
  BY DEF Newest
<1> HIDE DEF m
<1>3. \A i \in 1 .. m : i \in Nat /\ ver + 1 - i \in 1 .. ver
  BY <1>1
<1>4. ASSUME NEW b \in 1 .. ver, b > ver - k
      PROVE  \E i \in 1 .. m : Newest(s, ver, k)[i] = [of |-> s, at |-> b]
  <2>1. ver + 1 - b \in 1 .. m /\ ver + 1 - (ver + 1 - b) = b
    BY <1>1, <1>4
  <2> QED
    BY <1>2, <2>1
<1>5. DOMAIN Newest(s, ver, k) = 1 .. m
  BY <1>2
<1> QED
  BY <1>2, <1>3, <1>4, <1>5

LEMMA AddEffect ==
    ASSUME TypeOK, NEW item, ~OnScreen(item), AddTimelineItem(item)
    PROVE  \A i \in DOMAIN timelineItems' :
             /\ i \in Nat /\ (i = 1 \/ i - 1 \in DOMAIN timelineItems)
             /\ timelineItems'[i] = IF i = 1 THEN item ELSE timelineItems[i - 1]
<1> DEFINE longer == <<item>> \o timelineItems
           size == IF Len(timelineItems) < Limit THEN Len(timelineItems) + 1 ELSE Limit
<1>1. /\ Len(timelineItems) \in Nat /\ DOMAIN timelineItems = 1 .. Len(timelineItems)
      /\ Len(longer) = Len(timelineItems) + 1
      /\ \A i \in 1 .. Len(timelineItems) + 1 :
            longer[i] = IF i = 1 THEN item ELSE timelineItems[i - 1]
  BY DEF TypeOK
<1>2. size \in Nat /\ size <= Len(longer)
  BY <1>1, ClientAssumption
<1>3. timelineItems' = SubSeq(longer, 1, size)
  BY DEF AddTimelineItem
<1> HIDE DEF longer, size
<1>4. /\ DOMAIN timelineItems' = 1 .. size
      /\ \A i \in 1 .. size : timelineItems'[i] = longer[i]
  BY <1>1, <1>2, <1>3
<1> QED
  BY <1>1, <1>2, <1>4

\* What the steps of the server and of the connection do to the list's facts:
\* logs grow, an open socket is one that was open or has read everything.
Grown ==
    \A s \in Session : /\ Len(log[s]) \in Nat /\ Len(log'[s]) \in Nat
                       /\ Len(log[s]) <= Len(log'[s])
SameLine == \A n \in Socket : sockets'[n].at = "open" => sockets'[n] = sockets[n]
NoNewAnswer ==
    \A j \in Slot : IsList(calls'[j]) =>
        IsList(calls[j]) /\ calls'[j].on = calls[j].on /\ calls'[j].ver = calls[j].ver

LEMMA LogType2 ==
    ASSUME TypeOK
    PROVE  \A s \in Session : log[s] \in Seq(Status) /\ Len(log[s]) \in Nat
BY DEF TypeOK

LEMMA SameLog ==
    ASSUME TypeOK, UNCHANGED log
    PROVE  Grown
BY LogType2 DEF Grown

LEMMA GrowLog ==
    ASSUME TypeOK, NEW s \in Session, NEW x, Grow(s, x)
    PROVE  Grown /\ Len(log'[s]) = Len(log[s]) + 1
<1>1. \A t \in Session : log'[t] = IF t = s THEN Append(log[s], x) ELSE log[t]
  BY DEF Grow, TypeOK
<1>2. Len(Append(log[s], x)) = Len(log[s]) + 1
  BY LogType2
<1>3. \A t \in Session : /\ Len(log[t]) \in Nat /\ Len(log'[t]) \in Nat
                          /\ Len(log[t]) <= Len(log'[t])
  <2> TAKE t \in Session
  <2>1. Len(log[t]) \in Nat
    BY LogType2
  <2>2. Len(log'[t]) = Len(log[t]) \/ Len(log'[t]) = Len(log[t]) + 1
    BY <1>1, <1>2
  <2> QED
    BY <2>1, <2>2
<1> QED
  BY <1>1, <1>2, <1>3 DEF Grown

\* An open socket belongs to a session and is the only one.
LEMMA OpenSocket ==
    ASSUME ClientInv, NEW n \in Socket, sockets[n].at = "open"
    PROVE  /\ sockets[n].to = simulationId /\ simulationId \in Session /\ n = websocket
           /\ sockets[n].seen \in Nat /\ sockets[n].hello \in Nat
<1>1. n = websocket /\ sockets[n].to = simulationId /\ simulationId # 0
  BY DEF ClientInv, LineInv, OneLiveSocket, IsLive
<1>2. sockets[n].seen \in Nat /\ sockets[n].hello \in Nat
  BY DEF ClientInv, TypeOK, Wire
<1> QED
  BY <1>1, <1>2, SessionOfPage DEF ClientInv

LEMMA AnswersKept ==
    ASSUME ClientInv, AnswersExist, Grown, NoNewAnswer
    PROVE  AnswersExist'
<1> SUFFICES ASSUME NEW j \in Slot, IsList(calls'[j])
             PROVE  calls'[j].ver <= Len(log'[calls'[j].on])
  BY DEF AnswersExist, IsList
<1>1. /\ IsList(calls[j]) /\ calls'[j].on = calls[j].on /\ calls'[j].ver = calls[j].ver
  BY DEF NoNewAnswer
<1>2. calls[j].ver \in Nat /\ calls[j].on \in Session
  BY <1>1 DEF ClientInv, RequestInv, IsGood, IsList, TypeOK, Call
<1>3. calls[j].ver <= Len(log[calls[j].on])
  BY <1>1 DEF AnswersExist
<1> QED
  BY <1>1, <1>2, <1>3 DEF Grown

LEMMA WireKept ==
    ASSUME ClientInv, WireExists, Grown, SameLine
    PROVE  WireExists'
<1> SUFFICES ASSUME NEW n \in Socket, sockets'[n].at = "open"
             PROVE  /\ sockets'[n].hello <= sockets'[n].seen
                    /\ sockets'[n].seen <= Len(log'[sockets'[n].to])
                    /\ \A k \in sockets'[n].late : k \in 1 .. sockets'[n].seen
  BY DEF WireExists
<1>1. sockets'[n] = sockets[n]
  BY DEF SameLine
<1>2. /\ sockets[n].hello <= sockets[n].seen /\ sockets[n].seen <= Len(log[sockets[n].to])
      /\ \A k \in sockets[n].late : k \in 1 .. sockets[n].seen
      /\ sockets[n].to \in Session /\ sockets[n].seen \in Nat
  BY <1>1, OpenSocket DEF WireExists
<1> QED
  BY <1>1, <1>2 DEF Grown

\* The list is left alone or emptied.
LEMMA QuietList ==
    ASSUME ClientInv, ListInv, Grown, SameLine, ShowList(<<>>) \/ UNCHANGED feed
    PROVE  ListInv'
<1>1. WireExists'
  BY WireKept DEF ListInv
<1>2. CASE timelineItems' = <<>>
  <2>1. DOMAIN timelineItems' = {}
    BY <1>2
  <2> QED
    BY <1>1, <2>1 DEF ListInv, OnceAndNewestFirst, InOrder, ItemsExist, NoHole
<1>3. CASE UNCHANGED feed
  <2>1. OnceAndNewestFirst'
    BY <1>3 DEF ListInv, OnceAndNewestFirst, InOrder
  <2>2. ItemsExist'
    <3> SUFFICES ASSUME NEW i \in DOMAIN timelineItems
                 PROVE  /\ timelineItems[i].of \in Session
                        /\ timelineItems[i].at \in 1 .. Len(log'[timelineItems[i].of])
      BY <1>3 DEF ItemsExist
    <3>1. /\ timelineItems[i].of \in Session
          /\ timelineItems[i].at \in 1 .. Len(log[timelineItems[i].of])
      BY DEF ListInv, ItemsExist
    <3> QED
      BY <3>1 DEF Grown
  <2>3. NoHole'
    <3>1. \A n \in Socket : sockets'[n].at = "open" => sockets'[n] = sockets[n]
      BY DEF SameLine
    <3> QED
      BY <1>3, <3>1 DEF ListInv, NoHole, Shown, OnScreen
  <2> QED
    BY <1>1, <2>1, <2>2, <2>3 DEF ListInv
<1> QED
  BY <1>2, <1>3

\* An answer replaces the list: it reaches back to what the socket has read.
LEMMA ReplacedList ==
    ASSUME ClientInv, ListInv, FewBehind, Grown, SameLine, NEW s \in Session, NEW ver \in Nat,
           ver <= Len(log[s]), ShowList(Newest(s, ver, Limit))
    PROVE  ListInv'
<1> DEFINE list == Newest(s, ver, Limit)
<1>l. Limit \in Nat
  BY ClientAssumption
<1>1. /\ \A i \in DOMAIN list : /\ i \in Nat /\ list[i] = [of |-> s, at |-> ver + 1 - i]
                                /\ ver + 1 - i \in 1 .. ver
      /\ \A b \in 1 .. ver : b > ver - Limit =>
           \E i \in DOMAIN list : list[i] = [of |-> s, at |-> b]
  BY <1>l, NewestEffect
<1> HIDE DEF list
<1>2. timelineItems' = list
  BY DEF list
<1>3. OnceAndNewestFirst'
  <2>1. \A i, j \in DOMAIN list : i # j => list[i] # list[j]
    BY <1>1
  <2>2. InOrder'
    BY <1>1, <1>2 DEF InOrder
  <2> QED
    BY <1>2, <2>1, <2>2 DEF OnceAndNewestFirst
<1>4. ItemsExist'
  <2>1. Len(log'[s]) \in Nat /\ ver <= Len(log'[s])
    BY DEF Grown
  <2>2. \A i \in DOMAIN list : list[i].of = s /\ list[i].at \in 1 .. ver
    BY <1>1
  <2> QED
    BY <1>2, <2>1, <2>2 DEF ItemsExist
<1>5. NoHole'
  <2> SUFFICES ASSUME NEW n \in Socket, sockets[n].at = "open", NEW i \in DOMAIN list,
                      list[i].of = sockets[n].to,
                      NEW b \in sockets[n].seen + 1 .. list[i].at
               PROVE  \E k \in DOMAIN list : list[k] = [of |-> sockets[n].to, at |-> b]
    <3>1. \A m \in Socket : sockets'[m].at = "open" =>
            sockets[m].at = "open" /\ sockets'[m] = sockets[m]
      BY DEF SameLine
    <3> QED
      BY <1>2, <3>1 DEF NoHole, Shown, OnScreen
  <2>1. sockets[n].to = s /\ list[i].at \in 1 .. ver
    BY <1>1
  <2>2. sockets[n].seen \in Nat /\ Len(log[s]) \in Nat /\ Len(log[s]) <= sockets[n].seen + Limit
    BY <2>1, OpenSocket DEF FewBehind, Grown
  <2> DEFINE seen == sockets[n].seen
             at == list[i].at
             len == Len(log[s])
  <2>a. /\ b \in seen + 1 .. at /\ at \in 1 .. ver
        /\ seen \in Nat /\ len \in Nat /\ len <= seen + Limit /\ ver <= len
    BY <2>1, <2>2
  <2> HIDE DEF seen, at, len
  <2>3. b \in 1 .. ver /\ b > ver - Limit
    BY <1>l, <2>a
  <2> QED
    BY <1>1, <2>1, <2>3
<1> QED
  BY <1>3, <1>4, <1>5, WireKept DEF ListInv

LEMMA ReplaceList ==
    ASSUME FeedInv, FewBehind, Grown, SameLine, NEW i \in Slot,
           calls[i].at \in {"timeline", "first"}, ReplaceTimeline(calls[i])
    PROVE  ListInv'
<1>1. calls[i].on \in Session /\ calls[i].ver \in Nat
  BY DEF FeedInv, ClientInv, RequestInv, IsGood, TypeOK, Call
<1>2. CASE calls[i].got = "ok"
  <2>1. calls[i].ver <= Len(log[calls[i].on])
    BY <1>2 DEF FeedInv, AnswersExist, IsList
  <2> QED
    BY <1>1, <1>2, <2>1, ReplacedList DEF FeedInv, ReplaceTimeline
<1>3. CASE calls[i].got # "ok"
  BY <1>3, QuietList DEF FeedInv, ReplaceTimeline
<1> QED
  BY <1>2, <1>3

LEMMA HungUpLine ==
    ASSUME ClientInv, sockets' = HungUp(sockets)
    PROVE  SameLine
<1> SUFFICES ASSUME NEW n \in Socket, sockets'[n].at = "open"
             PROVE  sockets'[n] = sockets[n]
  BY DEF SameLine
<1>1. sockets[n] \in Wire
  BY DEF ClientInv, TypeOK
<1>2. HungUp(sockets)[n] = IF n = websocket /\ IsLive(n)
                           THEN [sockets[n] EXCEPT !.at = "closing"] ELSE sockets[n]
  BY DEF HungUp
<1> QED
  BY <1>1, <1>2 DEF Wire

LEMMA DialLine ==
    ASSUME ClientInv, NEW n \in Socket, NEW s, Dial(n, s)
    PROVE  SameLine
<1> SUFFICES ASSUME NEW m \in Socket, sockets'[m].at = "open"
             PROVE  sockets'[m] = sockets[m]
  BY DEF SameLine
<1>1. HungUp(sockets) \in [Socket -> Wire]
  BY HungUpType DEF ClientInv
<1>2. /\ sockets' = [HungUp(sockets) EXCEPT ![n] =
                        [at |-> "connecting", to |-> s, hello |-> 0, seen |-> 0,
                         late |-> {}]]
  BY DEF Dial
<1>3. m # n /\ sockets'[m] = HungUp(sockets)[m]
  BY <1>1, <1>2
<1>4. sockets[m] \in Wire
  BY DEF ClientInv, TypeOK
<1>5. HungUp(sockets)[m] = IF m = websocket /\ IsLive(m)
                           THEN [sockets[m] EXCEPT !.at = "closing"] ELSE sockets[m]
  BY DEF HungUp
<1> QED
  BY <1>3, <1>4, <1>5 DEF Wire

LEMMA StillLine == UNCHANGED line => SameLine
BY DEF line, SameLine

LEMMA ConnectLine ==
    ASSUME ClientInv, NEW i \in Slot, NEW c, Connect(i, c)
    PROVE  SameLine
BY StillLine, DialLine DEF Connect

\* A call without an answer.
LEMMA Unanswered ==
    /\ ~IsList(Free)
    /\ \A op, at, s : ~IsList(Request(op, at, s))
    /\ \A c : ~IsList(Opened(c))
    /\ \A op, at, n : ~IsList([Free EXCEPT !.op = op, !.at = at, !.on = n])
    /\ \A op, at : ~IsList([Free EXCEPT !.op = op, !.at = at])
BY DEF IsList, Free, Request, Opened

LEMMA NewCall ==
    ASSUME ClientInv, NEW i \in Slot, NEW c, Becomes(i, c), ~IsList(c)
    PROVE  NoNewAnswer
<1>1. \A j \in Slot : calls'[j] = IF j = i THEN c ELSE calls[j]
  BY DEF Becomes, ClientInv, TypeOK
<1> QED
  BY <1>1 DEF NoNewAnswer

LEMMA FailAnswers ==
    ASSUME ClientInv, NEW failed \in SUBSET Slot, Fail(failed)
    PROVE  NoNewAnswer
<1>1. \A j \in Slot : calls'[j] = Free \/ calls'[j] = calls[j]
  BY DEF Fail
<1> QED
  BY <1>1, Unanswered DEF NoNewAnswer

LEMMA ConnectAnswers ==
    ASSUME ClientInv, NEW i \in Slot, NEW op, Connect(i, [Free EXCEPT !.op = op, !.at = "open"])
    PROVE  NoNewAnswer
<1> DEFINE c == [Free EXCEPT !.op = op, !.at = "open"]
<1>1. /\ ~IsList(Opened(c)) /\ \A n : ~IsList([c EXCEPT !.on = n])
  BY Unanswered DEF IsList, Free
<1>2. PICK d : Becomes(i, d) /\ ~IsList(d)
  <2> HIDE DEF c
  <2>1. Connect(i, c)
    BY DEF c
  <2> QED
    BY <1>1, <2>1 DEF Connect
<1> QED
  BY <1>2, NewCall

LEMMA StillCalls == UNCHANGED calls => NoNewAnswer
BY DEF NoNewAnswer

\* The steps of the server.
LEMMA ServerFeed ==
    ASSUME FeedInv, \/ \E i \in Slot : Serve(i) \/ LoseRequest(i)
                    \/ \E s \in Session : AutoTick(s)
    PROVE  ListInv' /\ AnswersExist'
<1>1. UNCHANGED <<page, line>>
  BY DEF Serve, LoseRequest, AutoTick
<1>2. SameLine /\ UNCHANGED feed
  BY <1>1, StillLine DEF page, screen
<1>3. ASSUME NEW s \in Session, AutoTick(s)
      PROVE  Grown /\ NoNewAnswer
  BY <1>3, GrowLog, StillCalls DEF AutoTick, FeedInv, ClientInv
<1>4. ASSUME NEW i \in Slot, LoseRequest(i)
      PROVE  Grown /\ NoNewAnswer
  <2>1. \A j \in Slot : calls'[j] = calls[j] \/ calls'[j].got = "failed"
    BY <1>4 DEF LoseRequest, FeedInv, ClientInv, TypeOK, Call
  <2>2. NoNewAnswer
    BY <2>1 DEF NoNewAnswer, IsList
  <2> QED
    BY <1>4, <2>2, SameLog DEF LoseRequest, FeedInv, ClientInv
<1>5. ASSUME NEW i \in Slot, Serve(i)
      PROVE  Grown /\ AnswersExist'
  <2>1. ASSUME NEW got, NEW s, NEW ver, Answer(i, got, s, ver)
        PROVE  \A j \in Slot : /\ calls'[j].at = calls[j].at
                               /\ j # i => calls'[j] = calls[j]
                               /\ j = i => calls'[j].on = s /\ calls'[j].ver = ver
    BY <2>1 DEF Answer, FeedInv, ClientInv, TypeOK, Call
  <2>2. CASE ServePost(i) \/ ServeCreate(i)
    <3>1. Grown
      <4>1. UNCHANGED log \/ \E s \in Session, x \in {"READY", "RUNNING", "STOPPED", "PAUSED",
                                                 log[calls[i].on][Len(log[calls[i].on])]} : Grow(s, x)
        BY <2>2 DEF ServePost, ServeCreate, FeedInv, ClientInv, RequestInv, IsGood
      <4> QED
        BY <4>1, SameLog, GrowLog DEF FeedInv, ClientInv
    <3>2. calls[i].at \in {"post", "create"} /\ \E got, s, ver : Answer(i, got, s, ver)
      BY <2>2 DEF ServePost, ServeCreate
    <3>3. NoNewAnswer
      BY <2>1, <3>2 DEF NoNewAnswer, IsList
    <3> QED
      BY <3>1, <3>3, AnswersKept DEF FeedInv
  <2>3. CASE ServeGet(i)
    <3>1. UNCHANGED log /\ \E got : Answer(i, got, calls[i].on, Len(log[calls[i].on]))
      BY <2>3 DEF ServeGet
    <3>2. calls[i].on \in Session
      BY <2>3 DEF ServeGet, FeedInv, ClientInv, RequestInv, IsGood
    <3>3. \A j \in Slot : IsList(calls'[j]) => calls'[j].ver <= Len(log[calls'[j].on])
      <4>1. \A j \in Slot : j # i => calls'[j] = calls[j]
        BY <2>1, <3>1
      <4>2. calls'[i].on = calls[i].on /\ calls'[i].ver = Len(log[calls[i].on])
        BY <2>1, <3>1
      <4>3. Len(log[calls[i].on]) <= Len(log[calls[i].on])
        BY <3>2, LogType2 DEF FeedInv, ClientInv
      <4> QED
        BY <4>1, <4>2, <4>3 DEF FeedInv, AnswersExist
    <3>4. AnswersExist'
      BY <3>1, <3>3 DEF AnswersExist, IsList
    <3> QED
      BY <3>1, <3>4, SameLog DEF FeedInv, ClientInv
  <2> QED
    BY <1>5, <2>2, <2>3 DEF Serve
<1>6. Grown /\ AnswersExist'
  BY <1>3, <1>4, <1>5, AnswersKept DEF FeedInv
<1> QED
  BY <1>2, <1>6, QuietList DEF FeedInv

\* The steps of the connection.
LEMMA OpenFeed ==
    ASSUME FeedInv, NEW n \in Socket, Open(n)
    PROVE  ListInv' /\ AnswersExist'
<1>1. sockets[n].at = "connecting" /\ sockets[n].to = simulationId /\ simulationId \in Session
  <2>1. sockets[n].at = "connecting" /\ sockets[n].to = simulationId /\ simulationId # 0
    BY DEF Open, FeedInv, ClientInv, LineInv, OneLiveSocket, IsLive
  <2> QED
    BY <2>1, SessionOfPage DEF FeedInv, ClientInv
<1> DEFINE len == Len(log[simulationId])
<1>2. len \in Nat
  BY <1>1, LogType2 DEF FeedInv, ClientInv
<1>3. UNCHANGED <<log, feed>>
  BY DEF Open, screen
<1>4. /\ \A m \in Socket \ {n} : sockets'[m] = sockets[m]
      /\ sockets'[n].to = simulationId /\ sockets'[n].hello = len /\ sockets'[n].seen = len
      /\ sockets'[n].late = {}
  BY <1>1 DEF Open, FeedInv, ClientInv, TypeOK, Wire
<1> HIDE DEF len
<1>5. WireExists'
  BY <1>2, <1>3, <1>4 DEF FeedInv, ListInv, WireExists, len
<1>6. NoHole'
  <2> SUFFICES ASSUME NEW m \in Socket, sockets'[m].at = "open", NEW i \in DOMAIN timelineItems,
                      timelineItems[i].of = sockets'[m].to,
                      NEW b \in sockets'[m].seen + 1 .. timelineItems[i].at, ~overtaken
               PROVE  Shown(sockets'[m].to, b)
    BY <1>3 DEF NoHole, Shown, OnScreen
  <2>1. CASE m = n
    <3>1. b \in len + 1 .. timelineItems[i].at
      BY <1>4, <2>1
    <3>2. timelineItems[i].at \in 1 .. len
      BY <1>4, <2>1 DEF FeedInv, ListInv, ItemsExist, len
    <3> QED
      BY <1>2, <3>1, <3>2
  <2>2. CASE m # n
    BY <1>4, <2>2 DEF FeedInv, ListInv, NoHole
  <2> QED
    BY <2>1, <2>2
<1>7. OnceAndNewestFirst' /\ ItemsExist'
  BY <1>3 DEF FeedInv, ListInv, OnceAndNewestFirst, InOrder, ItemsExist
<1>8. NoNewAnswer
  <2>1. \A j \in Slot : calls'[j] = calls[j] \/ calls'[j] = Opened(calls[j])
    BY <1>1 DEF Open
  <2> QED
    BY <2>1, Unanswered DEF NoNewAnswer
<1>9. AnswersExist'
  BY <1>3, <1>8, SameLog, AnswersKept DEF FeedInv, ClientInv
<1> QED
  BY <1>5, <1>6, <1>7, <1>9 DEF ListInv

LEMMA LostFeed ==
    ASSUME FeedInv, NEW n \in Socket, HandshakeTimeout(n) \/ Close(n)
    PROVE  ListInv' /\ AnswersExist'
<1>1. UNCHANGED <<log, feed>> /\ \E failed \in SUBSET Slot : Fail(failed)
  <2>1. {i \in Slot : Waits(calls[i], n)} \in SUBSET Slot
    OBVIOUS
  <2> QED
    BY <2>1 DEF HandshakeTimeout, Close, screen
<1>2. SameLine
  <2>1. sockets'[n].at # "open" /\ \A m \in Socket \ {n} : sockets'[m] = sockets[m]
    BY DEF HandshakeTimeout, Close, Unused, FeedInv, ClientInv, TypeOK, Wire
  <2> QED
    BY <2>1 DEF SameLine
<1> QED
  BY <1>1, <1>2, FailAnswers, SameLog, QuietList, AnswersKept DEF FeedInv, ClientInv

LEMMA HelloFeed ==
    ASSUME FeedInv, NEW n \in Socket, HelloArrives(n)
    PROVE  ListInv' /\ AnswersExist'
<1>1. /\ sockets[n].at = "open" /\ sockets[n].to \in Session
      /\ sockets[n].seen \in Nat /\ sockets[n].hello \in Nat
      /\ sockets[n].hello <= sockets[n].seen /\ sockets[n].seen <= Len(log[sockets[n].to])
      /\ \A k \in sockets[n].late : k \in 1 .. sockets[n].seen
      /\ \A m \in Socket : sockets[m].at = "open" => m = n
  BY OpenSocket DEF HelloArrives, FeedInv, ListInv, WireExists
<1> DEFINE s == sockets[n].to
           hello == sockets[n].hello
           list == Newest(s, hello, Recent)
<1>2. UNCHANGED <<log, calls>> /\ timelineItems' = list /\ overtaken' = FALSE
  BY DEF HelloArrives
<1>3. /\ \A m \in Socket \ {n} : sockets'[m] = sockets[m]
      /\ sockets'[n].to = s /\ sockets'[n].hello = 0 /\ sockets'[n].seen = sockets[n].seen
      /\ sockets'[n].late = sockets[n].late
  BY DEF HelloArrives, FeedInv, ClientInv, TypeOK, Wire
<1>4. \A i \in DOMAIN list : /\ i \in Nat /\ list[i] = [of |-> s, at |-> hello + 1 - i]
                             /\ hello + 1 - i \in 1 .. hello
  <2>1. Recent \in Nat
    BY ClientAssumption
  <2> QED
    BY <1>1, <2>1, NewestEffect
<1>5. WireExists'
  BY <1>1, <1>2, <1>3 DEF WireExists
<1> HIDE DEF list
<1>6. \A i \in DOMAIN list : list[i].of = s /\ list[i].at \in 1 .. hello
  BY <1>4
<1>7. OnceAndNewestFirst'
  <2>1. \A i, j \in DOMAIN list : i # j => list[i] # list[j]
    BY <1>1, <1>4
  <2>2. InOrder'
    BY <1>1, <1>2, <1>4 DEF InOrder
  <2> QED
    BY <1>2, <2>1, <2>2 DEF OnceAndNewestFirst
<1>8. ItemsExist'
  <2>1. Len(log[s]) \in Nat
    BY <1>1, LogType2 DEF FeedInv, ClientInv
  <2>2. \A a \in 1 .. hello : a \in 1 .. Len(log[s])
    BY <1>1, <2>1
  <2> QED
    BY <1>1, <1>2, <1>6, <2>2 DEF ItemsExist
<1>9. NoHole'
  <2> SUFFICES ASSUME NEW i \in DOMAIN list, NEW b \in sockets[n].seen + 1 .. list[i].at
               PROVE  FALSE
    BY <1>1, <1>2, <1>3 DEF NoHole
  <2>1. list[i].at \in 1 .. hello
    BY <1>6
  <2> QED
    BY <1>1, <2>1
<1> QED
  BY <1>2, <1>5, <1>7, <1>8, <1>9, SameLog, StillCalls, AnswersKept
     DEF ListInv, FeedInv, ClientInv

LEMMA NewsFeed ==
    ASSUME FeedInv, NEW n \in Socket, NEW i \in Slot, NewsArrives(n, i)
    PROVE  ListInv' /\ AnswersExist'
<1>1. /\ sockets[n].at = "open" /\ sockets[n].to \in Session
      /\ sockets[n].seen \in Nat /\ sockets[n].hello = 0
      /\ sockets[n].seen <= Len(log[sockets[n].to])
      /\ \A k \in sockets[n].late : k \in 1 .. sockets[n].seen
      /\ \A m \in Socket : sockets[m].at = "open" => m = n
  BY OpenSocket DEF NewsArrives, FeedInv, ListInv, WireExists
<1> DEFINE s == sockets[n].to
           seen == sockets[n].seen
           late == sockets[n].late
<1>2. PICK k \in late \cup (seen + 1 .. Len(log[s])) :
        /\ AddTimelineItem([of |-> s, at |-> k])
        /\ sockets' = [sockets EXCEPT ![n].seen = IF k > seen THEN k ELSE seen,
                                     ![n].late = (late \cup (seen + 1 .. k)) \ {k}]
        /\ overtaken' = (overtaken \/ (k \in late /\ ~OnScreen([of |-> s, at |-> k])))
  BY DEF NewsArrives
<1> DEFINE item == [of |-> s, at |-> k]
           top == IF k > seen THEN k ELSE seen
<1>3. /\ \A m \in Socket \ {n} : sockets'[m] = sockets[m]
      /\ sockets'[n].to = s /\ sockets'[n].hello = 0 /\ sockets'[n].at = "open"
      /\ sockets'[n].seen = top
      /\ sockets'[n].late = (late \cup (seen + 1 .. k)) \ {k}
  BY <1>1, <1>2 DEF FeedInv, ClientInv, TypeOK, Wire
<1>4. Len(log[s]) \in Nat /\ UNCHANGED log
  BY <1>1, LogType2 DEF FeedInv, ClientInv, NewsArrives
<1>o. /\ item.of = s /\ item.at = k /\ k \in 1 .. Len(log[s])
      /\ s \in Session /\ seen \in Nat /\ top \in Nat /\ seen <= top /\ k <= top
      /\ top <= Len(log[s])
  BY <1>1, <1>2, <1>4
<1>5. WireExists'
  <2>1. \A x \in sockets'[n].late : x \in 1 .. top
    BY <1>1, <1>3, <1>o
  <2> HIDE DEF top, item
  <2> QED
    BY <1>1, <1>3, <1>4, <1>o, <2>1 DEF WireExists
<1>6. AnswersExist'
  <2>1. \E op, at, to : Becomes(i, Request(op, at, to))
    BY DEF NewsArrives, Becomes
  <2>2. NoNewAnswer
    BY <2>1, Unanswered, NewCall DEF FeedInv
  <2> QED
    BY <1>4, <2>2, SameLog, AnswersKept DEF FeedInv, ClientInv
<1>h. ASSUME ~overtaken, NEW j \in DOMAIN timelineItems, timelineItems[j].of = s,
             NEW b \in seen + 1 .. timelineItems[j].at
      PROVE  \E m \in DOMAIN timelineItems : timelineItems[m] = [of |-> s, at |-> b]
  BY <1>1, <1>h DEF FeedInv, ListInv, NoHole, Shown, OnScreen
<1>e. \A j \in DOMAIN timelineItems :
        /\ timelineItems[j].of \in Session
        /\ timelineItems[j].at \in 1 .. Len(log[timelineItems[j].of])
  BY DEF FeedInv, ListInv, ItemsExist
<1>n. \A j, m \in DOMAIN timelineItems : j # m => timelineItems[j] # timelineItems[m]
  BY DEF FeedInv, ListInv, OnceAndNewestFirst
<1>7. OnceAndNewestFirst' /\ ItemsExist' /\ NoHole'
  <2>1. CASE OnScreen(item)
    <3>1. timelineItems' = timelineItems /\ overtaken' = overtaken
      BY <1>2, <2>1 DEF AddTimelineItem, FeedInv, ClientInv, TypeOK
    <3>2. OnceAndNewestFirst' /\ ItemsExist'
      BY <1>4, <3>1 DEF FeedInv, ListInv, OnceAndNewestFirst, InOrder, ItemsExist
    <3>3. NoHole'
      <4> SUFFICES ASSUME ~overtaken, NEW j \in DOMAIN timelineItems,
                          timelineItems[j].of = s,
                          NEW b \in top + 1 .. timelineItems[j].at
                   PROVE  \E m \in DOMAIN timelineItems : timelineItems[m] = [of |-> s, at |-> b]
        BY <1>1, <1>3, <3>1 DEF NoHole, Shown, OnScreen
      <4>1. timelineItems[j].at \in 1 .. Len(log[s])
        BY <1>e
      <4> HIDE DEF top
      <4>2. b \in seen + 1 .. timelineItems[j].at
        BY <1>o, <4>1
      <4> QED
        BY <1>h, <4>2
    <3> QED
      BY <3>2, <3>3
  <2>2. CASE ~OnScreen(item)
    <3>1. \A j \in DOMAIN timelineItems' :
             /\ j \in Nat /\ (j = 1 \/ j - 1 \in DOMAIN timelineItems)
             /\ timelineItems'[j] = IF j = 1 THEN item ELSE timelineItems[j - 1]
      <4> HIDE DEF item
      <4> QED
        BY <1>2, <2>2, AddEffect DEF FeedInv, ClientInv, item
    <3>2. ASSUME ~overtaken', NEW j \in DOMAIN timelineItems, timelineItems[j].of = s
          PROVE  timelineItems[j].at \in Nat /\ timelineItems[j].at < k
      <4>1. timelineItems[j].at \in 1 .. Len(log[s])
        BY <1>e, <3>2
      <4>2. ~overtaken /\ k \in seen + 1 .. Len(log[s])
        BY <1>2, <2>2, <3>2
      <4>3. ~(k \in seen + 1 .. timelineItems[j].at)
        BY <1>h, <2>2, <3>2, <4>2 DEF OnScreen
      <4> QED
        BY <1>o, <4>1, <4>2, <4>3
    <3>n. \A j \in DOMAIN timelineItems : timelineItems[j] # item
      BY <2>2 DEF OnScreen
    <3> HIDE DEF item, top
    <3>i. ASSUME NEW j \in DOMAIN timelineItems', NEW m \in DOMAIN timelineItems', j < m
          PROVE  /\ j \in Nat /\ m \in Nat /\ m # 1 /\ m - 1 \in DOMAIN timelineItems
                 /\ timelineItems'[m] = timelineItems[m - 1]
      <4>1. j \in Nat /\ m \in Nat /\ (j = 1 \/ j - 1 \in DOMAIN timelineItems)
        BY <3>1
      <4>2. j # 0
        BY <4>1 DEF FeedInv, ClientInv, TypeOK
      <4>3. m # 1
        BY <3>i, <4>1, <4>2
      <4> QED
        BY <3>1, <4>1, <4>3
    <3>3. InOrder' \/ overtaken'
      <4> SUFFICES ASSUME ~overtaken', NEW j \in DOMAIN timelineItems',
                          NEW m \in DOMAIN timelineItems',
                          j < m, timelineItems'[j].of = timelineItems'[m].of
                   PROVE  timelineItems'[j].at > timelineItems'[m].at
        BY DEF InOrder
      <4>1. /\ j \in Nat /\ m \in Nat /\ m # 1 /\ m - 1 \in DOMAIN timelineItems
            /\ timelineItems'[m] = timelineItems[m - 1]
        BY <3>i
      <4>2. CASE j = 1
        <5>1. timelineItems'[j] = item
          BY <3>1, <4>2
        <5>2. timelineItems[m - 1].of = s
          BY <1>o, <4>1, <5>1
        <5>3. timelineItems[m - 1].at \in Nat /\ timelineItems[m - 1].at < k
          BY <3>2, <4>1, <5>2
        <5> QED
          BY <1>o, <4>1, <5>1, <5>3
      <4>3. CASE j # 1
        <5>1. j - 1 \in DOMAIN timelineItems /\ timelineItems'[j] = timelineItems[j - 1]
          BY <3>1, <4>3
        <5>2. j - 1 < m - 1
          BY <4>1
        <5>3. ~overtaken
          BY <1>2
        <5> QED
          BY <4>1, <5>1, <5>2, <5>3 DEF FeedInv, ListInv, OnceAndNewestFirst, InOrder
      <4> QED
        BY <4>2, <4>3
    <3>4. OnceAndNewestFirst'
      <4>1. ASSUME NEW j \in DOMAIN timelineItems', NEW m \in DOMAIN timelineItems', j < m
            PROVE  timelineItems'[j] # timelineItems'[m]
        <5>1. /\ j \in Nat /\ m \in Nat /\ m - 1 \in DOMAIN timelineItems
              /\ timelineItems'[m] = timelineItems[m - 1]
          BY <3>i, <4>1
        <5>2. CASE j = 1
          BY <3>1, <3>n, <5>1, <5>2
        <5>3. CASE j # 1
          <6>1. /\ j - 1 \in DOMAIN timelineItems
                /\ timelineItems'[j] = timelineItems[j - 1] /\ j - 1 # m - 1
            BY <3>1, <4>1, <5>1, <5>3
          <6> QED
            BY <1>n, <5>1, <6>1
        <5> QED
          BY <5>2, <5>3
      <4>2. ASSUME NEW j \in DOMAIN timelineItems', NEW m \in DOMAIN timelineItems', j # m
            PROVE  timelineItems'[j] # timelineItems'[m]
        <5>1. j < m \/ m < j
          BY <3>1, <4>2
        <5> QED
          BY <4>1, <5>1
      <4> QED
        BY <3>3, <4>2 DEF OnceAndNewestFirst
    <3>5. ItemsExist'
      BY <1>4, <1>o, <1>e, <3>1 DEF ItemsExist
    <3>6. NoHole'
      <4> SUFFICES ASSUME ~overtaken', NEW j \in DOMAIN timelineItems',
                          timelineItems'[j].of = s,
                          NEW b \in top + 1 .. timelineItems'[j].at
                   PROVE  FALSE
        BY <1>1, <1>3 DEF NoHole
      <4>1. timelineItems'[j].at \in Nat /\ timelineItems'[j].at <= k
        <5>1. CASE j = 1
          BY <1>o, <3>1, <5>1
        <5>2. CASE j # 1
          <6>1. j - 1 \in DOMAIN timelineItems /\ timelineItems'[j] = timelineItems[j - 1]
            BY <3>1, <5>2
          <6>2. timelineItems[j - 1].at \in Nat /\ timelineItems[j - 1].at < k
            BY <3>2, <6>1
          <6> QED
            BY <1>o, <6>1, <6>2
        <5> QED
          BY <5>1, <5>2
      <4> QED
        BY <1>o, <4>1
    <3> QED
      BY <3>4, <3>5, <3>6
  <2> QED
    BY <2>1, <2>2
<1> QED
  BY <1>5, <1>6, <1>7 DEF ListInv

LEMMA TimerFeed ==
    ASSUME FeedInv, Reconnect \/ StopTimer
    PROVE  ListInv' /\ AnswersExist'
<1>1. UNCHANGED <<log, page, calls>>
  BY DEF Reconnect, StopTimer
<1>2. SameLine
  <2>1. CASE UNCHANGED sockets
    BY <2>1 DEF SameLine
  <2>2. CASE \E n \in Socket : Dial(n, simulationId)
    BY <2>2, DialLine DEF FeedInv
  <2>3. CASE DisconnectTimeline
    BY <2>3, HungUpLine DEF DisconnectTimeline, FeedInv
  <2> QED
    BY <2>1, <2>2, <2>3 DEF Reconnect, StopTimer
<1> QED
  BY <1>1, <1>2, SameLog, StillCalls, QuietList, AnswersKept DEF FeedInv, ClientInv, page, screen

\* The answers.
LEMMA ArriveFeed ==
    ASSUME FeedInv, FewBehind, NEW i \in Slot, Arrive(i)
    PROVE  ListInv' /\ AnswersExist'
<1>1. Grown /\ ClientInv
  BY SameLog DEF Arrive, FeedInv, ClientInv
<1>2. CASE CreateArrives(i)
  <2>1. CASE calls[i].got = "ok"
    <3>1. PICK n \in Socket :
            /\ Dial(n, calls[i].on)
            /\ Becomes(i, [Free EXCEPT !.op = "start", !.at = "openNew", !.on = n])
      BY <1>2, <2>1 DEF CreateArrives
    <3>2. ShowList(<<>>)
      BY <1>2, <2>1 DEF CreateArrives
    <3>3. SameLine /\ NoNewAnswer
      BY <1>1, <3>1, DialLine, Unanswered, NewCall
    <3> QED
      BY <1>1, <3>2, <3>3, QuietList, AnswersKept DEF FeedInv
  <2>2. CASE calls[i].got # "ok"
    <3>1. Fail({i}) /\ UNCHANGED <<screen, line>>
      BY <1>2, <2>2 DEF CreateArrives
    <3>2. SameLine /\ NoNewAnswer
      BY <1>1, <3>1, StillLine, FailAnswers
    <3> QED
      BY <1>1, <3>1, <3>2, QuietList, AnswersKept DEF FeedInv, screen
  <2> QED
    BY <2>1, <2>2
<1>3. CASE FirstArrives(i)
  <2>1. SameLine /\ ListInv'
    BY <1>1, <1>3, StillLine, ReplaceList DEF FirstArrives
  <2>2. NoNewAnswer
    <3>1. CASE simulationId # 0
      <4>1. \A j \in Slot : calls'[j] = calls[j] \/ calls'[j] = Request("start", "post", simulationId)
        BY <1>3, <3>1 DEF FirstArrives
      <4>2. \A j \in Slot : calls'[j] = calls[j] \/ ~IsList(calls'[j])
        BY <4>1 DEF IsList, Request, Free
      <4> QED
        BY <4>2 DEF NoNewAnswer
    <3>2. CASE simulationId = 0
      <4> DEFINE failed == {j \in Slot : j = i \/ calls[j].at = "join"}
      <4>1. failed \in SUBSET Slot
        OBVIOUS
      <4>2. Fail(failed)
        BY <1>3, <3>2 DEF FirstArrives
      <4> HIDE DEF failed
      <4> QED
        BY <1>1, <4>1, <4>2, FailAnswers
    <3> QED
      BY <3>1, <3>2
  <2> QED
    BY <1>1, <2>1, <2>2, AnswersKept DEF FeedInv
<1>4. CASE PostArrives(i)
  <2>1. SameLine /\ (ShowList(<<>>) \/ UNCHANGED feed)
    BY <1>4, StillLine DEF PostArrives
  <2>2. NoNewAnswer
    <3>1. \/ \E op, at, s : Becomes(i, Request(op, at, s))
          \/ Becomes(i, Free) \/ Fail({i})
      BY <1>4 DEF PostArrives, Ends
    <3> QED
      BY <1>1, <3>1, Unanswered, NewCall, FailAnswers
  <2> QED
    BY <1>1, <2>1, <2>2, QuietList, AnswersKept DEF FeedInv
<1>5. CASE StateArrives(i)
  <2>1. SameLine /\ (ShowList(<<>>) \/ UNCHANGED feed)
    BY <1>5, StillLine DEF StateArrives
  <2>2. NoNewAnswer
    <3>1. (\E op, at, s : Becomes(i, Request(op, at, s))) \/ Becomes(i, Free)
      BY <1>5 DEF StateArrives, Ends
    <3> QED
      BY <1>1, <3>1, Unanswered, NewCall
  <2> QED
    BY <1>1, <2>1, <2>2, QuietList, AnswersKept DEF FeedInv
<1>6. CASE ResetToIdle(i)
  <2>1. SameLine /\ NoNewAnswer /\ ShowList(<<>>)
    BY <1>1, <1>6, HungUpLine, Unanswered, NewCall DEF ResetToIdle, DisconnectTimeline, Ends
  <2> QED
    BY <1>1, <2>1, QuietList, AnswersKept DEF FeedInv
<1>7. CASE TimelineArrives(i)
  <2>1. SameLine /\ NoNewAnswer
    <3>1. CASE \E op : Connect(i, [Free EXCEPT !.op = op, !.at = "open"])
      BY <1>1, <3>1, ConnectLine, ConnectAnswers
    <3>2. CASE Ends(i) /\ UNCHANGED line
      BY <1>1, <3>2, StillLine, Unanswered, NewCall DEF Ends
    <3> QED
      BY <1>7, <3>1, <3>2 DEF TimelineArrives
  <2>2. ListInv'
    BY <1>1, <1>7, <2>1, ReplaceList DEF TimelineArrives
  <2> QED
    BY <1>1, <2>1, <2>2, AnswersKept DEF FeedInv
<1> QED
  BY <1>2, <1>3, <1>4, <1>5, <1>6, <1>7 DEF Arrive

\* The timers and the buttons.
LEMMA ButtonFeed ==
    ASSUME FeedInv,
           \/ \E i \in Slot : \/ Poll(i) \/ Start(i) \/ Reload(i)
                              \/ Control(i, "control") \/ Control(i, "stop")
           \/ \E i, j \in Slot : Refresh(i, j)
           \/ Clear \/ UNCHANGED vars
    PROVE  ListInv' /\ AnswersExist'
<1>1. UNCHANGED log /\ (ShowList(<<>>) \/ UNCHANGED feed)
  BY DEF Poll, Start, Reload, Control, Refresh, Clear, vars, page, screen
<1>2. ASSUME NEW i \in Slot, Start(i)
      PROVE  SameLine /\ NoNewAnswer
  <2>1. CASE UNCHANGED line /\ \E op, at : Becomes(i, [Free EXCEPT !.op = op, !.at = at])
    BY <2>1, StillLine, Unanswered, NewCall DEF FeedInv
  <2>2. CASE UNCHANGED line /\ \E op, at, s : Becomes(i, Request(op, at, s))
    BY <2>2, StillLine, Unanswered, NewCall DEF FeedInv
  <2>3. CASE \E op : Connect(i, [Free EXCEPT !.op = op, !.at = "open"])
    BY <2>3, ConnectLine, ConnectAnswers DEF FeedInv
  <2> QED
    BY <1>2, <2>1, <2>2, <2>3 DEF Start
<1>3. ASSUME NEW i \in Slot,
             Poll(i) \/ Reload(i) \/ Control(i, "control") \/ Control(i, "stop")
      PROVE  SameLine /\ NoNewAnswer
  <2>1. UNCHANGED line
    BY <1>3 DEF Poll, Reload, Control
  <2>2. UNCHANGED calls \/ \E op, at, s : Becomes(i, Request(op, at, s))
    BY <1>3 DEF Poll, Reload, Control
  <2> QED
    BY <2>1, <2>2, StillLine, StillCalls, Unanswered, NewCall DEF FeedInv
<1>4. ASSUME NEW i \in Slot, NEW j \in Slot, Refresh(i, j)
      PROVE  SameLine /\ NoNewAnswer
  <2>1. UNCHANGED line /\ calls' = [calls EXCEPT ![i] = Request("read", "state", simulationId),
                                                ![j] = Request("read", "timeline", simulationId)]
    BY <1>4 DEF Refresh
  <2>2. \A k \in Slot : calls'[k] = calls[k] \/ \E op, at, s : calls'[k] = Request(op, at, s)
    BY <2>1 DEF FeedInv, ClientInv, TypeOK
  <2>3. \A k \in Slot : calls'[k] = calls[k] \/ ~IsList(calls'[k])
    BY <2>2 DEF IsList, Request, Free
  <2>4. NoNewAnswer
    BY <2>3 DEF NoNewAnswer
  <2> QED
    BY <2>1, <2>4, StillLine
<1>5. ASSUME Clear \/ UNCHANGED vars
      PROVE  SameLine /\ NoNewAnswer
  BY <1>5, StillLine, StillCalls DEF Clear, vars
<1>6. SameLine /\ NoNewAnswer
  BY <1>2, <1>3, <1>4, <1>5
<1> QED
  BY <1>1, <1>6, SameLog, QuietList, AnswersKept DEF FeedInv, ClientInv

LEMMA FeedStep ==
    ASSUME FeedInv, FewBehind, [Next]_vars
    PROVE  FeedInv'
<1>1. ClientInv'
  BY ClientStep DEF FeedInv
<1>2. ListInv' /\ AnswersExist'
  BY ServerFeed, OpenFeed, LostFeed, HelloFeed, NewsFeed, TimerFeed, ArriveFeed, ButtonFeed DEF Next
<1> QED
  BY <1>1, <1>2 DEF FeedInv

LEMMA InitFeed == Init => FeedInv
<1> SUFFICES ASSUME Init
             PROVE  FeedInv
  OBVIOUS
<1>1. timelineItems = <<>> /\ \A n \in Socket : sockets[n].at = "none"
  BY DEF Init, Unused
<1>2. DOMAIN timelineItems = {}
  BY <1>1
<1>3. AnswersExist
  <2>1. \A j \in Slot : calls[j] = Free \/ calls[j] = Request("boot", "state", simulationId)
    BY DEF Init
  <2>2. ASSUME NEW j \in Slot
        PROVE  ~IsList(calls[j])
    <3>1. ~IsList(Free) /\ ~IsList(Request("boot", "state", simulationId))
      BY DEF IsList, Request, Free
    <3>2. CASE calls[j] = Free
      BY <3>1, <3>2
    <3>3. CASE calls[j] = Request("boot", "state", simulationId)
      BY <3>1, <3>3
    <3> QED
      BY <2>1, <3>2, <3>3
  <2> QED
    BY <2>2 DEF AnswersExist
<1> QED
  BY <1>1, <1>2, <1>3, InitClient
     DEF FeedInv, ListInv, OnceAndNewestFirst, InOrder, ItemsExist, WireExists, NoHole

-----------------------------------------------------------------------------
(* The theorems. *)

\* Every variable of the page keeps its type: ids of sessions and sockets stay
\* in their ranges, and the list holds snapshots (examples/
\* terrarium_client.html, the page's variables).
THEOREM TypeCorrect == Spec => []TypeOK
<1>1. ClientInv => TypeOK
  BY DEF ClientInv
<1> QED
  BY <1>1, ClientInvariant, PTL

\* However reconnect timers, clicks, failures and late closings interleave,
\* the page never has two sockets open or opening, nor one of a session it
\* has left (connectTimeline, disconnectTimeline).
THEOREM PageHasOneSocket == Spec => []OneLiveSocket
<1>1. ClientInv => OneLiveSocket
  BY DEF ClientInv, LineInv
<1> QED
  BY <1>1, ClientInvariant, PTL

\* A call of the page that waits for a socket or for a session that another
\* call creates is always going to be resumed or failed
\* (waitForWebSocketOpen, createSimulationPromise).
THEOREM WaitsAreAnswered == Spec => []NobodyWaitsInVain
<1>1. ClientInv => NobodyWaitsInVain
  BY DEF ClientInv
<1> QED
  BY <1>1, ClientInvariant, PTL

\* As long as no socket is further behind its session than a list is long, no
\* item is listed twice, whichever items overtake each other on the socket or
\* never come; and the items of a session are listed newest first unless a
\* late one has been put on top since the list was last replaced
\* (addTimelineItem, replaceTimeline with MAX_TIMELINE_ITEMS).  Beyond that
\* length they need not be: an item that the list is too new to contain is
\* put on top of it.
THEOREM ListIsInOrder == Spec /\ []FewBehind => []OnceAndNewestFirst
<1>1. Init => FeedInv
  BY InitFeed
<1>2. FeedInv /\ FewBehind /\ [Next]_vars => FeedInv'
  BY FeedStep
<1>3. FeedInv => OnceAndNewestFirst
  BY DEF FeedInv, ListInv
<1> QED
  BY <1>1, <1>2, <1>3, PTL DEF Spec
=============================================================================
