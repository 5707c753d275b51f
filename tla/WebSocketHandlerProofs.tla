------------------------ MODULE WebSocketHandlerProofs ------------------------
(***************************************************************************)
(* Proofs about EventTimeline and WebSocketHandler, for any number of      *)
(* connections, tasks, simulations, events and requests.                   *)
(***************************************************************************)
EXTENDS WebSocketHandler, SequenceTheorems, TLAPS

USE DEF timelineVars, registryVars

-----------------------------------------------------------------------------
(* The two lists *)

\* The newest of the numbers 1 .. n, as a deque of length MaxEvents keeps them.
Width(n) == IF n <= MaxEvents THEN n ELSE MaxEvents
Window(n) == [i \in 1 .. Width(n) |-> n - Width(n) + i]

LEMMA WindowType ==
    ASSUME NEW n \in Nat
    PROVE  Window(n) \in Seq(Nat) /\ Len(Window(n)) = Width(n) /\ Width(n) \in Nat
<1>1. Width(n) \in Nat /\ Width(n) <= n
  BY TimelineAssumption DEF Width
<1>2. \A i \in 1 .. Width(n) : n - Width(n) + i \in Nat
  BY <1>1
<1>3. QED
  BY <1>1, <1>2 DEF Window

\* Both lists being windows is HistoryIsRecent, put so that it can be used.
LEMMA NewestIsWindow ==
    ASSUME NEW n \in Nat
    PROVE  Newest([k \in 1 .. n |-> k], MaxEvents) = Window(n)
<1> DEFINE all == [k \in 1 .. n |-> k]
<1>1. all \in Seq(Nat) /\ Len(all) = n
  OBVIOUS
<1>2. CASE n <= MaxEvents
  <2>1. Newest(all, MaxEvents) = all
    BY <1>1, <1>2 DEF Newest
  <2>2. Window(n) = [i \in 1 .. n |-> n - n + i]
    BY <1>2 DEF Window, Width
  <2>3. QED
    BY <2>1, <2>2
<1>3. CASE n > MaxEvents
  <2>1. Newest(all, MaxEvents) = SubSeq(all, n - MaxEvents + 1, n)
    BY <1>1, <1>3, TimelineAssumption DEF Newest
  <2>2. SubSeq(all, n - MaxEvents + 1, n)
          = [i \in 1 .. MaxEvents |-> all[n - MaxEvents + 1 + i - 1]]
    BY <1>1, <1>3, TimelineAssumption
  <2>3. \A i \in 1 .. MaxEvents : all[n - MaxEvents + 1 + i - 1] = n - MaxEvents + i
    BY <1>3, TimelineAssumption
  <2>4. Window(n) = [i \in 1 .. MaxEvents |-> n - MaxEvents + i]
    BY <1>3, TimelineAssumption DEF Window, Width
  <2>5. QED
    BY <2>1, <2>2, <2>3, <2>4
<1>4. QED
  BY <1>2, <1>3, TimelineAssumption

\* Pushing the next number moves the window on by one.
LEMMA PushMovesWindow ==
    ASSUME NEW n \in Nat
    PROVE  Push(Window(n), n + 1) = Window(n + 1)
<1> DEFINE q == Append(Window(n), n + 1)
<1>1. Window(n) \in Seq(Nat) /\ Len(Window(n)) = Width(n) /\ Width(n) \in Nat
  BY WindowType
<1>2. q \in Seq(Nat) /\ Len(q) = Width(n) + 1
  BY <1>1
<1>3. \A i \in 1 .. Width(n) : q[i] = n - Width(n) + i
  BY <1>1 DEF Window
<1>4. q[Width(n) + 1] = n + 1
  BY <1>1
<1> HIDE DEF q
<1>5. CASE n < MaxEvents
  <2>1. Width(n) = n /\ Width(n + 1) = n + 1
    BY <1>5, TimelineAssumption DEF Width
  <2>2. Push(Window(n), n + 1) = q
    BY <1>2, <1>5, <2>1, TimelineAssumption DEF Push, Newest, q
  <2>3. Window(n + 1) = [i \in 1 .. (n + 1) |-> i]
    BY <2>1 DEF Window
  <2>4. \A i \in 1 .. (n + 1) : q[i] = i
    BY <1>3, <1>4, <2>1
  <2>5. QED
    BY <1>2, <2>1, <2>2, <2>3, <2>4
<1>6. CASE n >= MaxEvents
  <2>1. Width(n) = MaxEvents /\ Width(n + 1) = MaxEvents
    BY <1>6, TimelineAssumption DEF Width
  <2>2. Push(Window(n), n + 1) = SubSeq(q, 2, MaxEvents + 1)
    BY <1>2, <2>1, TimelineAssumption DEF Push, Newest, q
  <2>3. SubSeq(q, 2, MaxEvents + 1) = [i \in 1 .. MaxEvents |-> q[2 + i - 1]]
    BY <1>2, <2>1, TimelineAssumption
  <2>4. \A i \in 1 .. MaxEvents : q[2 + i - 1] = n + 1 - MaxEvents + i
    <3> TAKE i \in 1 .. MaxEvents
    <3>1. CASE i < MaxEvents
      <4>1. i + 1 \in 1 .. Width(n) /\ 2 + i - 1 = i + 1
        BY <2>1, <3>1, TimelineAssumption
      <4>2. QED
        BY <1>3, <2>1, <4>1, TimelineAssumption
    <3>2. CASE i = MaxEvents
      BY <1>4, <2>1, <3>2, TimelineAssumption
    <3>3. QED
      BY <3>1, <3>2, TimelineAssumption
  <2>5. Window(n + 1) = [i \in 1 .. MaxEvents |-> n + 1 - MaxEvents + i]
    BY <2>1, TimelineAssumption DEF Window
  <2>6. QED
    BY <2>2, <2>3, <2>4, <2>5
<1>7. QED
  BY <1>5, <1>6, TimelineAssumption

ListInv ==
    /\ emitted \in [Sim -> Nat]
    /\ events = [s \in Sim |-> Window(emitted[s])]
    /\ items = [s \in Sim |-> Window(emitted[s])]

LEMMA RecordKeepsLists ==
    ASSUME ListInv, NEW s \in Sim, NEW audience, Record(s, audience)
    PROVE  ListInv'
<1>1. emitted'[s] = emitted[s] + 1 /\ emitted' \in [Sim -> Nat]
  BY DEF ListInv, Record
<1>2. Push(Window(emitted[s]), emitted'[s]) = Window(emitted'[s])
  BY <1>1, PushMovesWindow DEF ListInv
<1>3. \A r \in Sim : r # s => emitted'[r] = emitted[r]
  BY DEF ListInv, Record
<1>4. events' = [r \in Sim |-> Window(emitted'[r])]
  BY <1>2, <1>3 DEF ListInv, Record
<1>5. items' = [r \in Sim |-> Window(emitted'[r])]
  BY <1>2, <1>3 DEF ListInv, Record
<1>6. QED
  BY <1>1, <1>4, <1>5 DEF ListInv

LEMMA ListsAreRecent == ListInv => HistoryIsRecent /\ TimelineTypeOK
<1> SUFFICES ASSUME ListInv PROVE HistoryIsRecent /\ TimelineTypeOK
  OBVIOUS
<1>1. \A s \in Sim : events[s] = Window(emitted[s]) /\ items[s] = Window(emitted[s])
  BY DEF ListInv
<1>2. HistoryIsRecent
  BY <1>1, NewestIsWindow DEF ListInv, HistoryIsRecent
<1>3. QED
  BY <1>2, WindowType DEF ListInv, TimelineTypeOK


-----------------------------------------------------------------------------
(* The connections *)

SendPc == {"greeting", "rejecting", "telling", "answering"}

ConnType ==
    /\ pc \in [Proc -> Pc]
    /\ sid \in [Conn -> Sim \cup {None}]
    /\ about \in [Conn -> Sim \cup {None}]
    /\ registered \in [Conn -> BOOLEAN]
    /\ link \in [Conn -> {"open", "lost"}]
    /\ wire \in [Conn -> Seq(Message)]
    /\ out \in [Proc -> Message \cup {None}]

\* What the place of a process says about it.
PlaceInv ==
    /\ \A t \in Task : pc[t] \in {"idle", "telling"}
    /\ \A p \in Proc : Sending(p) => pc[p] \in SendPc
    /\ \A c \in Conn : IF pc[c] = "off" THEN sid[c] = None ELSE sid[c] \in Sim
    /\ \A c \in Conn : pc[c] \in {"working", "telling"} => about[c] \in Sim

\* An endpoint that has not begun, or has returned, is not registered.
OutsideInv ==
    \A c \in Conn : pc[c] \in {"off", "accepting", "done"} => ~registered[c]

\* A registered peer that is still there has been greeted.
GreetInv ==
    \A c \in Conn :
        /\ pc[c] \in {"off", "accepting"} => wire[c] = <<>>
        /\ registered[c] /\ link[c] = "open" => wire[c] # <<>>
        /\ wire[c] # <<>> => wire[c][1].kind \in {"connected", "error"}

ObserverInv == ListInv /\ ConnType /\ PlaceInv /\ OutsideInv /\ GreetInv

\* A message that is written: it goes to the end of one peer's wire.
LEMMA WrittenAppends ==
    ASSUME ConnType, NEW c \in Conn, NEW m \in Message
    PROVE  /\ Written(c, m) \in [Conn -> Seq(Message)]
           /\ \A d \in Conn :
                 \/ Written(c, m)[d] = wire[d]
                 \/ d = c /\ link[c] = "open" /\ Written(c, m)[d] = Append(wire[d], m)
BY DEF ConnType, Written

\* The first message stays the first when others follow.
LEMMA AppendKeepsFirst ==
    ASSUME NEW q \in Seq(Message), NEW m \in Message
    PROVE  /\ Append(q, m) # <<>>
           /\ q # <<>> => Append(q, m)[1] = q[1]
           /\ q = <<>> => Append(q, m)[1] = m
OBVIOUS

LEMMA SnapshotType ==
    ASSUME ListInv, NEW s \in Sim
    PROVE  Connected(s) \in Message /\ \A c \in Conn : State(c, s) \in Message
<1>1. emitted[s] \in Nat /\ items[s] \in Seq(Nat)
  BY WindowType DEF ListInv
<1>2. Clamp(SnapshotLimit) \in Nat \ {0}
  BY TimelineAssumption, ObserverAssumption DEF Clamp
<1>3. ListItems(s, SnapshotLimit) \in Seq(Nat)
  <2>1. CASE Len(items[s]) <= Clamp(SnapshotLimit)
    BY <1>1, <2>1 DEF ListItems, Newest
  <2>2. CASE Len(items[s]) > Clamp(SnapshotLimit)
    <3> DEFINE from == Len(items[s]) - Clamp(SnapshotLimit) + 1
    <3>1. from \in 1 .. Len(items[s]) + 1
      BY <1>1, <1>2, <2>2
    <3>2. SubSeq(items[s], from, Len(items[s])) \in Seq(Nat)
      BY <1>1, <3>1
    <3>3. ~(Len(items[s]) <= Clamp(SnapshotLimit))
      BY <1>1, <1>2, <2>2
    <3>4. ListItems(s, SnapshotLimit) = SubSeq(items[s], from, Len(items[s]))
      BY ONLY <3>3 DEF ListItems, Newest
    <3>5. QED
      BY <3>2, <3>4
  <2>3. QED
    BY <1>1, <1>2, <2>1, <2>2
<1>4. QED
  BY <1>1, <1>3 DEF Connected, State, Message

\* What one leg of a broadcast does: it destroys, it never registers; it only
\* writes to a peer that is there and registered; and it leaves the sender at
\* the same await, or at one that follows.
LEMMA ProceedStep ==
    ASSUME ConnType, NEW p \in Proc, NEW m \in Message, NEW rest, NEW failed,
           NEW busy \in SendPc, p \in Task => busy = "telling",
           Proceed(p, m, rest, failed, busy)
    PROVE  /\ \A c \in Conn : registered'[c] => registered[c]
           /\ registered' \in [Conn -> BOOLEAN]
           /\ out' \in [Proc -> Message \cup {None}]
           /\ \A q \in Proc : q # p => out'[q] = out[q] /\ pc'[q] = pc[q]
           /\ pc' \in [Proc -> Pc]
           /\ out'[p] # None => pc'[p] = busy
           /\ pc'[p] \in SendPc => pc'[p] = busy
           /\ pc'[p] \notin {"off", "accepting"}
           /\ p \in Task => pc'[p] \in {"idle", "telling"}
           /\ pc'[p] = "working" => busy = "telling"
           /\ p \in Conn /\ pc'[p] = "done" => ~registered'[p]
           /\ wire' \in [Conn -> Seq(Message)]
           /\ \A c \in Conn : wire'[c] # wire[c] =>
                 registered[c] /\ link[c] = "open" /\ wire'[c] = Append(wire[c], m)
<1>1. PICK at \in 1 .. (Len(rest) + 1) :
        LET passed == 1 .. (at - 1)
            gone   == Destroyed(failed) \cup {rest[i] : i \in passed}
            ended  == at = Len(rest) + 1
            then   == IF ended THEN After(p, busy, failed, gone) ELSE busy
        IN /\ ~ended => CanSend(rest[at], failed)
           /\ Unregister(gone)
           /\ out' = [out EXCEPT ![p] = IF ended THEN None ELSE m]
           /\ wire' = IF ended THEN wire ELSE Written(rest[at], m)
           /\ Goto(p, then)
  BY DEF Proceed
<1> DEFINE gone  == Destroyed(failed) \cup {rest[i] : i \in 1 .. (at - 1)}
           ended == at = Len(rest) + 1
           then  == IF ended THEN After(p, busy, failed, gone) ELSE busy
<1>2. /\ ~ended => CanSend(rest[at], failed)
      /\ Unregister(gone)
      /\ out' = [out EXCEPT ![p] = IF ended THEN None ELSE m]
      /\ wire' = IF ended THEN wire ELSE Written(rest[at], m)
      /\ Goto(p, then)
  BY <1>1
<1>3. failed \subseteq gone
  BY DEF Destroyed
<1> HIDE DEF gone, ended
<1>4. /\ registered' = [c \in Conn |-> registered[c] /\ c \notin gone]
      /\ registered' \in [Conn -> BOOLEAN]
  BY <1>2 DEF Unregister, ConnType
<1>5. /\ out' \in [Proc -> Message \cup {None}]
      /\ \A q \in Proc : q # p => out'[q] = out[q]
      /\ ended => out'[p] = None
  BY <1>2 DEF ConnType
<1>6. then \in Pc /\ pc' = [pc EXCEPT ![p] = then] /\ pc'[p] = then
  BY <1>2 DEF Goto, ConnType, After, Pc, SendPc
<1>7. /\ pc' \in [Proc -> Pc]
      /\ \A q \in Proc : q # p => pc'[q] = pc[q]
  BY <1>6 DEF ConnType
<1>8. CASE ended
  <2>1. then = After(p, busy, failed, gone)
    BY <1>8
  <2>2. /\ then \in SendPc => then = busy
        /\ then \notin {"off", "accepting"}
        /\ p \in Task => then \in {"idle", "telling"}
        /\ then = "working" => busy = "telling"
        /\ then = "done" => p \in failed \/ ~(registered[p] /\ p \notin gone)
    BY <2>1 DEF After, SendPc
  <2>3. p \in Conn /\ then = "done" => ~registered'[p]
    BY <1>3, <1>4, <2>2
  <2>4. wire' = wire
    BY <1>2, <1>8
  <2>5. QED
    BY <1>4, <1>5, <1>6, <1>7, <1>8, <2>2, <2>3, <2>4 DEF ConnType
<1>9. CASE ~ended
  <2>1. then = busy
    BY <1>9
  <2>2. CanSend(rest[at], failed) /\ wire' = Written(rest[at], m)
    BY <1>2, <1>9
  <2>3. wire' \in [Conn -> Seq(Message)]
    <3>1. CASE rest[at] \in Conn
      BY <2>2, <3>1, WrittenAppends
    <3>2. CASE rest[at] \notin Conn
      <4>1. [wire EXCEPT ![rest[at]] = Append(@, m)] = wire
        BY <3>2 DEF ConnType
      <4>2. QED
        BY <2>2, <4>1 DEF ConnType, Written
    <3>3. QED
      BY <3>1, <3>2
  <2>4. \A c \in Conn : wire'[c] # wire[c] =>
          registered[c] /\ link[c] = "open" /\ wire'[c] = Append(wire[c], m)
    BY <2>2 DEF CanSend, Sendable, ConnType, Written
  <2>5. busy \in SendPc /\ (p \in Task => busy = "telling")
    OBVIOUS
  <2>6. QED
    BY <1>4, <1>5, <1>6, <1>7, <2>1, <2>3, <2>4, <2>5 DEF SendPc
<1>10. QED
  BY <1>8, <1>9

\* No step writes to a connection that is not registered, but for the one
\* that registers it.
WritesAreWelcome ==
    \A c \in Conn :
        pc[c] \notin {"off", "accepting"} /\ ~registered[c] => wire'[c] = wire[c]

ConnInv == ConnType /\ PlaceInv /\ OutsideInv /\ GreetInv

\* A leg of a broadcast, whoever takes it, keeps the invariant.
LEMMA LegKeeps ==
    ASSUME ConnInv, NEW p \in Proc, NEW m \in Message, NEW rest, NEW failed,
           NEW busy \in SendPc, p \in Task => busy = "telling",
           Proceed(p, m, rest, failed, busy),
           UNCHANGED <<sid, link>>,
           p \in Conn => pc[p] \notin {"off", "accepting"},
           about' \in [Conn -> Sim \cup {None}],
           \A c \in Conn : c # p => about'[c] = about[c],
           p \in Conn /\ busy = "telling" => about'[p] \in Sim
    PROVE  ConnInv' /\ WritesAreWelcome
<1> USE DEF ConnInv
<1>1. /\ \A c \in Conn : registered'[c] => registered[c]
      /\ registered' \in [Conn -> BOOLEAN]
      /\ out' \in [Proc -> Message \cup {None}]
      /\ \A q \in Proc : q # p => out'[q] = out[q] /\ pc'[q] = pc[q]
      /\ pc' \in [Proc -> Pc]
      /\ out'[p] # None => pc'[p] = busy
      /\ pc'[p] \in SendPc => pc'[p] = busy
      /\ pc'[p] \notin {"off", "accepting"}
      /\ p \in Task => pc'[p] \in {"idle", "telling"}
      /\ pc'[p] = "working" => busy = "telling"
      /\ p \in Conn /\ pc'[p] = "done" => ~registered'[p]
  BY ProceedStep
<1>2. /\ wire' \in [Conn -> Seq(Message)]
      /\ \A c \in Conn : wire'[c] # wire[c] =>
            registered[c] /\ link[c] = "open" /\ wire'[c] = Append(wire[c], m)
  BY ProceedStep
<1>3. ConnType'
  BY <1>1, <1>2 DEF ConnType
<1>4. PlaceInv'
  <2>1. \A t \in Task : pc'[t] \in {"idle", "telling"}
    BY <1>1 DEF PlaceInv, Proc
  <2>2. \A q \in Proc : Sending(q)' => pc'[q] \in SendPc
    BY <1>1 DEF PlaceInv, Sending
  <2>3. \A c \in Conn : IF pc'[c] = "off" THEN sid'[c] = None ELSE sid'[c] \in Sim
    BY <1>1 DEF PlaceInv, Proc
  <2>4. \A c \in Conn : pc'[c] \in {"working", "telling"} => about'[c] \in Sim
    <3> SUFFICES ASSUME NEW c \in Conn, pc'[c] \in {"working", "telling"}
                 PROVE  about'[c] \in Sim
      OBVIOUS
    <3>1. CASE c = p
      BY <1>1, <3>1 DEF SendPc
    <3>2. CASE c # p
      BY <1>1, <3>2 DEF PlaceInv, Proc
    <3>3. QED
      BY <3>1, <3>2
  <2>5. QED
    BY <2>1, <2>2, <2>3, <2>4 DEF PlaceInv
<1>5. OutsideInv'
  BY <1>1 DEF OutsideInv, Proc
<1>6. GreetInv'
  <2> SUFFICES ASSUME NEW c \in Conn
               PROVE  /\ pc'[c] \in {"off", "accepting"} => wire'[c] = <<>>
                      /\ registered'[c] /\ link'[c] = "open" => wire'[c] # <<>>
                      /\ wire'[c] # <<>> => wire'[c][1].kind \in {"connected", "error"}
    BY DEF GreetInv
  <2>1. wire[c] \in Seq(Message)
    BY DEF ConnType
  <2>2. CASE wire'[c] = wire[c]
    <3>1. pc'[c] \in {"off", "accepting"} => wire'[c] = <<>>
      BY <1>1, <2>2 DEF GreetInv, Proc
    <3>2. registered'[c] /\ link'[c] = "open" => wire'[c] # <<>>
      BY <1>1, <2>2 DEF GreetInv
    <3>3. QED
      BY <2>2, <3>1, <3>2 DEF GreetInv
  <2>3. CASE wire'[c] # wire[c]
    <3>1. registered[c] /\ link[c] = "open" /\ wire'[c] = Append(wire[c], m)
      BY <1>2, <2>3
    <3>2. wire[c] # <<>> /\ wire[c][1].kind \in {"connected", "error"}
      BY <3>1 DEF GreetInv
    <3>3. wire'[c] # <<>> /\ wire'[c][1] = wire[c][1]
      BY <2>1, <3>1, <3>2, AppendKeepsFirst
    <3>4. pc'[c] \notin {"off", "accepting"}
      BY <1>1, <3>1 DEF OutsideInv, Proc
    <3>5. QED
      BY <3>2, <3>3, <3>4
  <2>4. QED
    BY <2>2, <2>3
<1>7. WritesAreWelcome
  BY <1>2 DEF WritesAreWelcome
<1>8. QED
  BY <1>3, <1>4, <1>5, <1>6, <1>7

-----------------------------------------------------------------------------
(* The actions, one by one *)

LEMMA SendKeeps ==
    ASSUME ConnInv, NEW p \in Proc, SendReturns(p) \/ SendRaises(p)
    PROVE  ConnInv' /\ WritesAreWelcome
<1>1. /\ out[p] \in Message /\ pc[p] \in SendPc
      /\ UNCHANGED <<sid, link, about>>
  BY DEF ConnInv, ConnType, PlaceInv, SendReturns, SendRaises, Sending
<1>2. \E failed : Proceed(p, out[p], Tail(todo[p]), failed, pc[p])
  BY DEF SendReturns, SendRaises
<1>3. p \in Task => pc[p] = "telling"
  BY <1>1 DEF ConnInv, PlaceInv, SendPc
<1>4. /\ about' \in [Conn -> Sim \cup {None}]
      /\ p \in Conn => pc[p] \notin {"off", "accepting"}
      /\ p \in Conn /\ pc[p] = "telling" => about'[p] \in Sim
  BY <1>1 DEF ConnInv, ConnType, PlaceInv, SendPc
<1>5. QED
  BY <1>1, <1>2, <1>3, <1>4, LegKeeps

LEMMA EmitKeeps ==
    ASSUME ListInv, ConnInv, NEW p \in Proc, NEW s \in Sim, EmitFrom(p, s),
           UNCHANGED <<sid, link, about>>,
           p \in Conn => pc[p] = "working"
    PROVE  ListInv' /\ ConnInv' /\ WritesAreWelcome
<1>1. ListInv'
  BY RecordKeepsLists DEF EmitFrom
<1>2. Event(emitted'[s], p) \in Message
  <2>1. emitted'[s] \in Nat \ {0}
    BY DEF EmitFrom, Record, ListInv
  <2>2. QED
    BY <2>1 DEF Event, Message
<1>3. Proceed(p, Event(emitted'[s], p), sessions[s], {}, "telling")
  BY DEF EmitFrom
<1>4. p \in Conn => about'[p] \in Sim
  BY DEF ConnInv, PlaceInv
<1>5. about' \in [Conn -> Sim \cup {None}]
  BY DEF ConnInv, ConnType
<1>6. ConnInv' /\ WritesAreWelcome
  BY <1>2, <1>3, <1>4, <1>5, LegKeeps DEF SendPc
<1>7. QED
  BY <1>1, <1>6

\* An answer of endpoint c, to a session or to c itself.
LEMMA AnswerKeeps ==
    ASSUME ConnInv, NEW c \in Conn, NEW m \in Message, NEW rest,
           Proceed(c, m, rest, {}, "answering"),
           UNCHANGED <<sid, link>>,
           pc[c] \notin {"off", "accepting"},
           about' \in [Conn -> Sim \cup {None}],
           \A d \in Conn : d # c => about'[d] = about[d]
    PROVE  ConnInv' /\ WritesAreWelcome
BY LegKeeps, ObserverAssumption DEF SendPc, Proc

\* A step that writes nothing and registers nobody.
LEMMA SilentKeepsGreeting ==
    ASSUME ConnInv, UNCHANGED wire,
           \A c \in Conn : registered'[c] => registered[c],
           \A c \in Conn : link'[c] = "open" => link[c] = "open",
           \A c \in Conn : pc'[c] \in {"off", "accepting"}
                           => pc[c] \in {"off", "accepting"}
    PROVE  GreetInv' /\ WritesAreWelcome
BY DEF ConnInv, GreetInv, WritesAreWelcome

\* A step that only moves endpoint c, and may unregister connections.
LEMMA MoveKeeps ==
    ASSUME ConnInv, NEW c \in Conn, NEW label \in Pc, Goto(c, label),
           UNCHANGED <<sid, link, wire, out>>,
           ~Sending(c),
           label \notin {"off", "accepting", "telling", "idle"},
           label = "done" => ~registered'[c],
           pc[c] # "off",
           registered' \in [Conn -> BOOLEAN],
           \A d \in Conn : registered'[d] => registered[d],
           about' \in [Conn -> Sim \cup {None}],
           \A d \in Conn : d # c => about'[d] = about[d],
           label = "working" => about'[c] \in Sim
    PROVE  ConnInv' /\ WritesAreWelcome
<1> USE DEF ConnInv
<1>1. /\ pc' \in [Proc -> Pc] /\ pc'[c] = label
      /\ \A q \in Proc : q # c => pc'[q] = pc[q]
  BY DEF Goto, ConnType, Proc
<1>2. ConnType'
  BY <1>1 DEF ConnType
<1>3. PlaceInv'
  BY <1>1, ObserverAssumption DEF PlaceInv, Sending, Proc
<1>4. OutsideInv'
  BY <1>1 DEF OutsideInv, Proc
<1>5. GreetInv' /\ WritesAreWelcome
  <2>1. \A d \in Conn : pc'[d] \in {"off", "accepting"}
                        => pc[d] \in {"off", "accepting"}
    BY <1>1 DEF Proc
  <2>2. QED
    BY <2>1, SilentKeepsGreeting
<1>6. QED
  BY <1>2, <1>3, <1>4, <1>5

\* Unregistering keeps the type and registers nobody.
LEMMA UnregisterShrinks ==
    ASSUME ConnType, NEW gone, Unregister(gone)
    PROVE  /\ registered' \in [Conn -> BOOLEAN]
           /\ \A c \in Conn : registered'[c] => registered[c]
           /\ \A c \in Conn : c \in gone => ~registered'[c]
BY DEF ConnType, Unregister

\* Only the four sending places send.
LEMMA NotSending ==
    ASSUME ConnInv, NEW p \in Proc, pc[p] \notin SendPc
    PROVE  ~Sending(p)
BY DEF ConnInv, PlaceInv

LEMMA ConnectKeeps ==
    ASSUME ConnInv, NEW c \in Conn, Connect(c)
    PROVE  ConnInv' /\ WritesAreWelcome
<1> USE DEF ConnInv
<1>1. PICK s \in Sim : sid' = [sid EXCEPT ![c] = s]
  BY DEF Connect
<1>2. pc[c] = "off" /\ Goto(c, "accepting")
      /\ UNCHANGED <<registered, link, wire, out, about>>
  BY DEF Connect
<1>3. /\ pc' \in [Proc -> Pc] /\ pc'[c] = "accepting"
      /\ \A q \in Proc : q # c => pc'[q] = pc[q]
  BY <1>2 DEF Goto, ConnType, Proc, Pc
<1>4. ConnType'
  BY <1>1, <1>2, <1>3 DEF ConnType
<1>5. ~Sending(c)
  BY <1>2, NotSending DEF Proc, SendPc
<1>6. PlaceInv'
  BY <1>1, <1>2, <1>3, <1>5, ObserverAssumption
  DEF PlaceInv, Sending, Proc, ConnType
<1>7. OutsideInv'
  BY <1>2, <1>3 DEF OutsideInv, Proc
<1>8. GreetInv' /\ WritesAreWelcome
  <2>1. \A d \in Conn : pc'[d] \in {"off", "accepting"}
                        => pc[d] \in {"off", "accepting"}
    BY <1>2, <1>3 DEF Proc
  <2>2. QED
    BY <1>2, <2>1, SilentKeepsGreeting
<1>9. QED
  BY <1>4, <1>6, <1>7, <1>8

LEMMA AcceptKeeps ==
    ASSUME ListInv, ConnInv, NEW c \in Conn, Accept(c)
    PROVE  ConnInv' /\ WritesAreWelcome
<1> USE DEF ConnInv
<1> DEFINE s == sid[c]
           m == IF Known(s) THEN Connected(s) ELSE [kind |-> "error"]
           label == IF Known(s) THEN "greeting" ELSE "rejecting"
<1>1. /\ pc[c] = "accepting"
      /\ registered' = [registered EXCEPT ![c] = TRUE]
      /\ out' = [out EXCEPT ![c] = m]
      /\ wire' = Written(c, m)
      /\ Goto(c, label)
      /\ UNCHANGED <<sid, link, about>>
  BY DEF Accept, Register
<1>2. s \in Sim
  BY <1>1 DEF PlaceInv
<1>3. m \in Message /\ m.kind \in {"connected", "error"}
  <2>1. Connected(s) \in Message
    BY <1>2, SnapshotType
  <2>2. Connected(s).kind = "connected"
    BY DEF Connected
  <2>3. [kind |-> "error"] \in Message
    BY DEF Message
  <2>4. QED
    BY <2>1, <2>2, <2>3
<1>4. label \in SendPc /\ label \in Pc /\ label # "telling"
  BY DEF SendPc, Pc
<1> HIDE DEF s, m, label
<1>5. /\ pc' \in [Proc -> Pc] /\ pc'[c] = label
      /\ \A q \in Proc : q # c => pc'[q] = pc[q]
  BY <1>1, <1>4 DEF Goto, ConnType, Proc
<1>6. /\ wire' \in [Conn -> Seq(Message)]
      /\ \A d \in Conn :
            \/ wire'[d] = wire[d]
            \/ d = c /\ link[c] = "open" /\ wire'[d] = Append(wire[d], m)
  <2>1. ConnType
    OBVIOUS
  <2>2. /\ Written(c, m) \in [Conn -> Seq(Message)]
        /\ \A d \in Conn :
              \/ Written(c, m)[d] = wire[d]
              \/ /\ d = c /\ link[c] = "open"
                 /\ Written(c, m)[d] = Append(wire[d], m)
    BY ONLY <1>3, <2>1, WrittenAppends
  <2>3. wire' = Written(c, m)
    BY <1>1
  <2>4. QED
    BY ONLY <2>2, <2>3
<1>7. ConnType'
  BY <1>1, <1>3, <1>5, <1>6 DEF ConnType
<1>8. PlaceInv'
  <2>1. \A t \in Task : pc'[t] \in {"idle", "telling"}
    BY <1>5, ObserverAssumption DEF PlaceInv, Proc
  <2>2. \A q \in Proc : Sending(q)' => pc'[q] \in SendPc
    BY <1>1, <1>4, <1>5 DEF PlaceInv, Sending, ConnType
  <2>3. \A d \in Conn : IF pc'[d] = "off" THEN sid'[d] = None ELSE sid'[d] \in Sim
    BY <1>1, <1>4, <1>5 DEF PlaceInv, Proc, SendPc
  <2>4. \A d \in Conn : pc'[d] \in {"working", "telling"} => about'[d] \in Sim
    BY <1>1, <1>4, <1>5 DEF PlaceInv, Proc, SendPc
  <2>5. QED
    BY <2>1, <2>2, <2>3, <2>4 DEF PlaceInv
<1>9. OutsideInv'
  BY <1>1, <1>4, <1>5 DEF OutsideInv, Proc, SendPc, ConnType
<1>10. GreetInv'
  <2> SUFFICES ASSUME NEW d \in Conn
               PROVE  /\ pc'[d] \in {"off", "accepting"} => wire'[d] = <<>>
                      /\ registered'[d] /\ link'[d] = "open" => wire'[d] # <<>>
                      /\ wire'[d] # <<>> => wire'[d][1].kind \in {"connected", "error"}
    BY DEF GreetInv
  <2>1. CASE d # c
    <3>1. wire'[d] = wire[d] /\ pc'[d] = pc[d] /\ registered'[d] = registered[d]
      BY <1>1, <1>5, <1>6, <2>1 DEF Proc, ConnType
    <3>2. QED
      BY <1>1, <3>1 DEF GreetInv
  <2>2. CASE d = c
    <3>1. wire[c] = <<>> /\ wire[c] \in Seq(Message)
      BY <1>1 DEF GreetInv, ConnType
    <3>2. pc'[c] \notin {"off", "accepting"}
      BY <1>4, <1>5 DEF SendPc
    <3>3. CASE link[c] = "open"
      <4>1. wire'[c] = Append(wire[c], m)
        BY <1>1, <3>3 DEF Written, ConnType
      <4>2. wire'[c] # <<>> /\ wire'[c][1] = m
        BY <1>3, <3>1, <4>1, AppendKeepsFirst
      <4>3. QED
        BY <1>3, <2>2, <3>2, <4>2
    <3>4. CASE link[c] # "open"
      <4>1. wire'[c] = wire[c] /\ link'[c] # "open"
        BY <1>1, <3>4 DEF Written
      <4>2. QED
        BY <2>2, <3>1, <3>2, <4>1
    <3>5. QED
      BY <3>3, <3>4
  <2>3. QED
    BY <2>1, <2>2
<1>11. WritesAreWelcome
  BY <1>1, <1>6 DEF WritesAreWelcome
<1>12. QED
  BY <1>7, <1>8, <1>9, <1>10, <1>11

LEMMA EndpointMovesKeep ==
    ASSUME ConnInv, NEW c \in Conn,
           AcceptRaises(c) \/ Closed(c) \/ ReceiveCommand(c) \/ Hangup(c)
    PROVE  ConnInv' /\ WritesAreWelcome
<1> USE DEF ConnInv
<1>1. c \in Proc /\ {"done", "working"} \subseteq Pc
  BY DEF Proc, Pc
<1>2. CASE AcceptRaises(c)
  <2>1. /\ pc[c] = "accepting" /\ Goto(c, "done")
        /\ UNCHANGED <<registered, sid, link, wire, out, about>>
    BY <1>2 DEF AcceptRaises
  <2>2. ~Sending(c) /\ ~registered'[c]
    BY <1>1, <2>1, NotSending DEF SendPc, OutsideInv
  <2>3. QED
    BY <1>1, <2>1, <2>2, MoveKeeps DEF ConnType
<1>3. CASE Closed(c)
  <2>1. /\ pc[c] = "closing" /\ Goto(c, "done") /\ Unregister({c})
        /\ UNCHANGED <<sid, link, wire, out, about>>
    BY <1>3 DEF Closed
  <2>2. ~Sending(c)
    BY <1>1, <2>1, NotSending DEF SendPc
  <2>3. QED
    BY <1>1, <2>1, <2>2, UnregisterShrinks, MoveKeeps DEF ConnType
<1>4. CASE ReceiveCommand(c)
  <2>1. PICK s \in Sim : about' = [about EXCEPT ![c] = s]
    BY <1>4 DEF ReceiveCommand
  <2>2. /\ pc[c] = "receiving" /\ Goto(c, "working")
        /\ UNCHANGED <<registered, sid, link, wire, out>>
    BY <1>4 DEF ReceiveCommand, Receives
  <2>3. ~Sending(c)
    BY <1>1, <2>2, NotSending DEF SendPc
  <2>4. /\ about' \in [Conn -> Sim \cup {None}] /\ about'[c] \in Sim
        /\ \A d \in Conn : d # c => about'[d] = about[d]
    BY <2>1 DEF ConnType
  <2>5. QED
    BY <1>1, <2>2, <2>3, <2>4, MoveKeeps DEF ConnType
<1>5. CASE Hangup(c)
  <2>1. /\ pc[c] = "receiving" /\ Goto(c, "done") /\ Unregister({c})
        /\ UNCHANGED <<sid, link, wire, out, about>>
    BY <1>5 DEF Hangup
  <2>2. ~Sending(c)
    BY <1>1, <2>1, NotSending DEF SendPc
  <2>3. QED
    BY <1>1, <2>1, <2>2, UnregisterShrinks, MoveKeeps DEF ConnType
<1>6. QED
  BY <1>2, <1>3, <1>4, <1>5

LEMMA AnswersKeep ==
    ASSUME ListInv, ConnInv, NEW c \in Conn,
           ReceiveInvalid(c) \/ ReceiveQuery(c) \/ CommandReturns(c)
    PROVE  ConnInv' /\ WritesAreWelcome
<1>1. Notice \in Message
  BY DEF Message, Notice
<1>2. about \in [Conn -> Sim \cup {None}]
  BY DEF ConnInv, ConnType
<1>3. CASE ReceiveInvalid(c)
  <2>1. /\ pc[c] = "receiving"
        /\ Proceed(c, Notice, <<c>>, {}, "answering")
        /\ UNCHANGED <<sid, link, about>>
    BY <1>3 DEF ReceiveInvalid, Receives
  <2>2. QED
    BY <1>1, <1>2, <2>1, AnswerKeeps
<1>4. CASE ReceiveQuery(c)
  <2>1. PICK s \in Sim :
          \E m \in {Notice} \cup IF Known(s) THEN {State(c, s)} ELSE {} :
              Proceed(c, m, sessions[s], {}, "answering")
    BY <1>4 DEF ReceiveQuery
  <2>2. \E m \in Message : Proceed(c, m, sessions[s], {}, "answering")
    BY <1>1, <2>1, SnapshotType
  <2>3. pc[c] = "receiving" /\ UNCHANGED <<sid, link, about>>
    BY <1>4 DEF ReceiveQuery, Receives
  <2>4. QED
    BY <1>2, <2>2, <2>3, AnswerKeeps
<1>5. CASE CommandReturns(c)
  <2>1. pc[c] = "working" /\ about[c] \in Sim
    BY <1>5 DEF CommandReturns, ConnInv, PlaceInv
  <2>2. \E m \in Message : Proceed(c, m, sessions[about[c]], {}, "answering")
    BY <1>1, <1>5, <2>1, SnapshotType DEF CommandReturns
  <2>3. about' = [about EXCEPT ![c] = None] /\ UNCHANGED <<sid, link>>
    BY <1>5 DEF CommandReturns
  <2>4. QED
    BY <1>2, <2>1, <2>2, <2>3, AnswerKeeps
<1>6. QED
  BY <1>3, <1>4, <1>5

LEMMA EmitsKeep ==
    ASSUME ListInv, ConnInv, NEW p \in Proc,
           (p \in Task /\ Emit(p)) \/ (p \in Conn /\ CommandEmits(p))
    PROVE  ListInv' /\ ConnInv' /\ WritesAreWelcome
<1>1. CASE p \in Task /\ Emit(p)
  <2>1. PICK s \in Sim : EmitFrom(p, s)
    BY <1>1 DEF Emit
  <2>2. UNCHANGED <<sid, link, about>> /\ p \notin Conn
    BY <1>1, ObserverAssumption DEF Emit
  <2>3. QED
    BY <2>1, <2>2, EmitKeeps
<1>2. CASE p \in Conn /\ CommandEmits(p)
  <2>1. pc[p] = "working" /\ EmitFrom(p, about[p]) /\ UNCHANGED <<sid, link, about>>
    BY <1>2 DEF CommandEmits
  <2>2. about[p] \in Sim
    BY <1>2, <2>1 DEF ConnInv, PlaceInv
  <2>3. QED
    BY <2>1, <2>2, EmitKeeps
<1>3. QED
  BY <1>1, <1>2

\* A cancelled task is between two events again.
LEMMA CancelKeeps ==
    ASSUME ConnInv, NEW l \in Loop, Cancel(l)
    PROVE  ConnInv' /\ WritesAreWelcome
<1> USE DEF ConnInv
<1>1. /\ Goto(l, "idle") /\ out' = [out EXCEPT ![l] = None]
      /\ UNCHANGED <<registered, sid, link, wire, about>>
  BY DEF Cancel
<1>2. l \in Task /\ l \in Proc /\ l \notin Conn /\ "idle" \in Pc
  BY ObserverAssumption DEF Proc, Pc
<1>3. /\ pc' \in [Proc -> Pc] /\ pc'[l] = "idle"
      /\ out' \in [Proc -> Message \cup {None}] /\ out'[l] = None
      /\ \A q \in Proc : q # l => pc'[q] = pc[q] /\ out'[q] = out[q]
  BY <1>1, <1>2 DEF Goto, ConnType
<1>4. \A c \in Conn : pc'[c] = pc[c]
  BY <1>2, <1>3 DEF Proc
<1>5. ConnType'
  BY <1>1, <1>3 DEF ConnType
<1>6. PlaceInv'
  BY <1>1, <1>2, <1>3, <1>4 DEF PlaceInv, Sending, Proc
<1>7. OutsideInv'
  BY <1>1, <1>4 DEF OutsideInv
<1>8. GreetInv' /\ WritesAreWelcome
  BY <1>1, <1>4, SilentKeepsGreeting
<1>9. QED
  BY <1>5, <1>6, <1>7, <1>8

\* What the environment and the shutdown do to the connections.
LEMMA OutsideKeeps ==
    ASSUME ConnInv,
           \/ \E c \in Conn : LoseLink(c)
           \/ ShutDown \/ CloseNext \/ DestroyNext
           \/ UNCHANGED vars
    PROVE  ConnInv' /\ WritesAreWelcome
<1> USE DEF ConnInv
<1>1. /\ UNCHANGED <<pc, sid, wire, out, about>>
      /\ registered' \in [Conn -> BOOLEAN]
      /\ \A c \in Conn : registered'[c] => registered[c]
  BY UnregisterShrinks
  DEF LoseLink, ShutDown, CloseNext, DestroyNext, vars, ConnType
<1>2. /\ link' \in [Conn -> {"open", "lost"}]
      /\ \A c \in Conn : link'[c] = "open" => link[c] = "open"
  BY DEF LoseLink, ShutDown, CloseNext, DestroyNext, vars, ConnType
<1>3. ConnType'
  BY <1>1, <1>2 DEF ConnType
<1>4. PlaceInv'
  BY <1>1 DEF PlaceInv, Sending
<1>5. OutsideInv'
  BY <1>1 DEF OutsideInv
<1>6. GreetInv' /\ WritesAreWelcome
  BY <1>1, <1>2, SilentKeepsGreeting
<1>7. QED
  BY <1>3, <1>4, <1>5, <1>6

\* Every step but an emit leaves the lists alone.
LEMMA ListsStay ==
    ASSUME ListInv, UNCHANGED timelineVars
    PROVE  ListInv'
BY DEF ListInv

LEMMA InitHasInv == Init => ObserverInv
<1> SUFFICES ASSUME Init PROVE ObserverInv
  OBVIOUS
<1>1. ListInv
  <2>1. Width(0) = 0
    BY TimelineAssumption DEF Width
  <2>2. Window(0) = <<>>
    BY <2>1 DEF Window
  <2>3. QED
    BY <2>2 DEF ListInv, Init, TimelineInit
<1>2. pc \in [Proc -> Pc] /\ (\A p \in Proc : pc[p] \in {"idle", "off"})
      /\ \A t \in Task : pc[t] = "idle"
  BY DEF Init, Pc, Proc
<1>3. ConnType
  BY <1>2 DEF Init, ConnType
<1>4. PlaceInv
  BY <1>2, ObserverAssumption DEF Init, PlaceInv, Sending, Proc
<1>5. OutsideInv /\ GreetInv
  BY DEF Init, OutsideInv, GreetInv
<1>6. QED
  BY <1>1, <1>3, <1>4, <1>5 DEF ObserverInv

LEMMA StepKeepsInv == ObserverInv /\ [Next]_vars => ObserverInv' /\ WritesAreWelcome
<1> SUFFICES ASSUME ObserverInv, [Next]_vars PROVE ObserverInv' /\ WritesAreWelcome
  OBVIOUS
<1>1. ListInv /\ ConnInv
  BY DEF ObserverInv, ConnInv
<1>2. ASSUME ListInv', ConnInv', WritesAreWelcome
      PROVE  ObserverInv' /\ WritesAreWelcome
  BY <1>2 DEF ObserverInv, ConnInv
<1>3. ASSUME NEW p \in Proc, SendReturns(p) \/ SendRaises(p)
      PROVE  ObserverInv' /\ WritesAreWelcome
  <2>1. UNCHANGED timelineVars
    BY <1>3 DEF SendReturns, SendRaises
  <2>2. QED
    BY <1>1, <1>2, <1>3, <2>1, ListsStay, SendKeeps
<1>4. ASSUME NEW t \in Task, Emit(t) PROVE ObserverInv' /\ WritesAreWelcome
  BY <1>1, <1>2, <1>4, EmitsKeep DEF Proc
<1>5. ASSUME NEW c \in Conn, Connect(c) PROVE ObserverInv' /\ WritesAreWelcome
  <2>1. UNCHANGED timelineVars
    BY <1>5 DEF Connect
  <2>2. QED
    BY <1>1, <1>2, <1>5, <2>1, ListsStay, ConnectKeeps
<1>6. ASSUME NEW c \in Conn, Accept(c) PROVE ObserverInv' /\ WritesAreWelcome
  <2>1. UNCHANGED timelineVars
    BY <1>6 DEF Accept
  <2>2. QED
    BY <1>1, <1>2, <1>6, <2>1, ListsStay, AcceptKeeps
<1>7. ASSUME NEW c \in Conn,
             AcceptRaises(c) \/ Closed(c) \/ ReceiveCommand(c) \/ Hangup(c)
      PROVE  ObserverInv' /\ WritesAreWelcome
  <2>1. UNCHANGED timelineVars
    BY <1>7 DEF AcceptRaises, Closed, ReceiveCommand, Hangup
  <2>2. QED
    BY <1>1, <1>2, <1>7, <2>1, ListsStay, EndpointMovesKeep
<1>8. ASSUME NEW c \in Conn,
             ReceiveInvalid(c) \/ ReceiveQuery(c) \/ CommandReturns(c)
      PROVE  ObserverInv' /\ WritesAreWelcome
  <2>1. UNCHANGED timelineVars
    BY <1>8 DEF ReceiveInvalid, ReceiveQuery, CommandReturns
  <2>2. QED
    BY <1>1, <1>2, <1>8, <2>1, ListsStay, AnswersKeep
<1>9. ASSUME NEW c \in Conn, CommandEmits(c) PROVE ObserverInv' /\ WritesAreWelcome
  BY <1>1, <1>2, <1>9, EmitsKeep DEF Proc
<1>10. ASSUME \/ \E c \in Conn : LoseLink(c)
              \/ ShutDown \/ CloseNext \/ DestroyNext
              \/ UNCHANGED vars
       PROVE  ObserverInv' /\ WritesAreWelcome
  <2>1. UNCHANGED timelineVars
    BY <1>10 DEF LoseLink, ShutDown, CloseNext, DestroyNext, vars
  <2>2. QED
    BY <1>1, <1>2, <1>10, <2>1, ListsStay, OutsideKeeps
<1>11. ASSUME NEW l \in Loop, Cancel(l) PROVE ObserverInv' /\ WritesAreWelcome
  <2>1. UNCHANGED timelineVars
    BY <1>11 DEF Cancel
  <2>2. QED
    BY <1>1, <1>2, <1>11, <2>1, ListsStay, CancelKeeps
<1>12. QED
  BY <1>3, <1>4, <1>5, <1>6, <1>7, <1>8, <1>9, <1>10, <1>11 DEF Next

\* The inductive invariant holds in every reachable state.
THEOREM ObserversInvariant == Spec => []ObserverInv
<1>1. ObserverInv /\ [Next]_vars => ObserverInv'
  BY StepKeepsInv
<1>2. QED
  BY <1>1, InitHasInv, PTL DEF Spec

-----------------------------------------------------------------------------
(* What follows from it *)

\* Both lists hold the newest events, in order, however the emits of any
\* number of coroutines interleave.
THEOREM HistoryIsAlwaysRecent == Spec => []HistoryIsRecent
<1>1. ObserverInv => HistoryIsRecent
  BY ListsAreRecent DEF ObserverInv
<1>2. QED
  BY <1>1, ObserversInvariant, PTL

\* No endpoint leaves its connection registered.
THEOREM EndpointsCleanUp == Spec => []EndpointCleansUp
<1>1. ObserverInv => EndpointCleansUp
  BY DEF ObserverInv, OutsideInv, EndpointCleansUp
<1>2. QED
  BY <1>1, ObserversInvariant, PTL

\* Every connection hears its snapshot, or its rejection, first.
THEOREM AllAreGreetedFirst == Spec => []GreetedFirst
<1>1. ObserverInv => GreetedFirst
  BY DEF ObserverInv, GreetInv, GreetedFirst
<1>2. QED
  BY <1>1, ObserversInvariant, PTL

\* No broadcast writes to a connection that somebody has destroyed.
THEOREM DestroyedHearNothing == Spec => NothingToDestroyed
<1>1. ObserverInv /\ [Next]_vars
      => [\A c \in Conn :
             pc[c] \notin {"off", "accepting"} /\ ~registered[c]
             => wire'[c] = wire[c]]_vars
  BY StepKeepsInv DEF WritesAreWelcome
<1>2. QED
  BY <1>1, ObserversInvariant, PTL DEF Spec, NothingToDestroyed
=============================================================================
