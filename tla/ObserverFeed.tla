----------------------------- MODULE ObserverFeed -----------------------------
(***************************************************************************)
(* What the server promises to those who observe a simulation, however its *)
(* broadcasts are served: a feed that begins with all there is, and goes   *)
(* on with news only.  An event is heard once at most and never before the *)
(* snapshot that came without it; what one source tells comes in the order *)
(* it was told; who has left hears nothing any more.                       *)
(***************************************************************************)
EXTENDS Naturals, Sequences

CONSTANTS
    Sim,       \* simulations
    Observer,  \* those who observe
    Source,    \* those who tell: tasks, and the commands of observers
    None       \* no simulation asked for yet

VARIABLES
    emitted,   \* how many events each simulation has had
    session,   \* the simulation each observer has asked for
    phase,     \* "new", "following" or "gone"
    feed       \* what each observer has heard

vars == <<emitted, session, phase, feed>>

Snapshot(n) == [kind |-> "snapshot", n |-> n]
Notice      == [kind |-> "notice"]
Event(n)    == [kind : {"event"}, n : n, by : Source]
State(n)    == [kind : {"state"}, n : n, by : Source]

Init ==
    /\ emitted = [s \in Sim |-> 0]
    /\ session = [o \in Observer |-> None]
    /\ phase = [o \in Observer |-> "new"]
    /\ feed = [o \in Observer |-> <<>>]

IsTale(m) == m.kind \in {"event", "state"}

\* m may be told to one who has heard l: no source goes back, and no two
\* events are the same.
MayFollow(l, m) ==
    IsTale(l) /\ IsTale(m) =>
        /\ l.by = m.by => l.n <= m.n
        /\ l.kind = "event" /\ m.kind = "event" => l.n # m.n

\* What there is to tell o: events after its snapshot, states up to now, and
\* notices, which tell nothing of the simulation.
ToTell(o) ==
    LET now == emitted'[session[o]]
    IN  {Notice} \cup Event((feed[o][1].n + 1) .. now) \cup State(0 .. now)

Same(o) == phase'[o] = phase[o] /\ session'[o] = session[o] /\ feed'[o] = feed[o]

Asks(o) ==
    /\ phase[o] = "new" /\ session[o] = None
    /\ session'[o] \in Sim
    /\ phase'[o] = phase[o] /\ feed'[o] = feed[o]

\* The greeting is the whole story, unless its receiver is lost already.
Joins(o) ==
    /\ phase[o] = "new" /\ session[o] \in Sim
    /\ phase'[o] = "following"
    /\ feed'[o] \in {<<>>, <<Snapshot(emitted[session[o]])>>}
    /\ session'[o] = session[o]

Hears(o) ==
    /\ phase[o] = "following" /\ feed[o] # <<>>
    /\ \E m \in ToTell(o) :
          /\ feed'[o] = Append(feed[o], m)
          /\ \A i \in DOMAIN feed[o] : MayFollow(feed[o][i], m)
    /\ session'[o] = session[o] /\ phase'[o] = phase[o]

Leaves(o) ==
    /\ phase[o] # "gone" /\ phase'[o] = "gone"
    /\ session'[o] = session[o] /\ feed'[o] = feed[o]

\* One event at most; in the same step it may reach some and lose others.
Emits == \/ emitted' = emitted
         \/ \E s \in Sim : emitted' = [emitted EXCEPT ![s] = @ + 1]

Next ==
    /\ Emits
    /\ \A o \in Observer : Same(o) \/ Asks(o) \/ Joins(o) \/ Hears(o) \/ Leaves(o)

Spec == Init /\ [][Next]_vars
=============================================================================
