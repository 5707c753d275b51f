----------------------------- MODULE EventTimeline -----------------------------
(***************************************************************************)
(* The EventManager and the TimelineService: two bounded lists for each    *)
(* simulation, one of domain events and one of the timeline items made     *)
(* from them.  The n-th event a simulation emits, and its item, are the    *)
(* number n: what they say does not matter here.                           *)
(***************************************************************************)
EXTENDS Integers, Sequences, FiniteSets, SequencesExt

CONSTANTS
    Sim,        \* simulation ids
    MaxEvents   \* terrarium.max_events, the length of both deques

ASSUME TimelineAssumption == MaxEvents \in Nat \ {0}

VARIABLES
    emitted,  \* how many events each simulation has emitted
    events,   \* EventManager._events
    items     \* TimelineService._items

timelineVars == <<emitted, events, items>>

TimelineTypeOK ==
    /\ emitted \in [Sim -> Nat]
    /\ events \in [Sim -> Seq(Nat)]
    /\ items \in [Sim -> Seq(Nat)]

TimelineInit ==
    /\ emitted = [s \in Sim |-> 0]
    /\ events = [s \in Sim |-> <<>>]
    /\ items = [s \in Sim |-> <<>>]

\* The last k elements of q (all of them if there are fewer): q[-k:].
Newest(q, k) == IF Len(q) <= k THEN q ELSE SubSeq(q, Len(q) - k + 1, Len(q))

\* append on a deque with maxlen.
Push(q, x) == Newest(Append(q, x), MaxEvents)

Clamp(limit) == IF limit > MaxEvents THEN MaxEvents
                ELSE IF limit < 1 THEN 1 ELSE limit

\* Mutant: the slice is taken from the wrong end.
OldestItems(s, limit) == SubSeq(items[s], 1, IF Len(items[s]) < Clamp(limit)
                                             THEN Len(items[s]) ELSE Clamp(limit))

\* list_events and list_items.
ListEvents(s, limit) == Newest(events[s], Clamp(limit))
ListItems(s, limit)  == Newest(items[s], Clamp(limit))

\* get(simulation_id) finds it: create and ensure emit as they register it.
Known(s) == emitted[s] > 0

\* emit up to the broadcast: the event, then the item publish makes of it.
Record(s, audience) ==
    /\ emitted' = [emitted EXCEPT ![s] = @ + 1]
    /\ events' = [events EXCEPT ![s] = Push(@, emitted'[s])]
    /\ items' = [items EXCEPT ![s] = Push(@, emitted'[s])]

\* Both lists hold exactly the newest events, in the order they were emitted,
\* whoever emitted them and whether or not anyone was connected.
HistoryIsRecent ==
    \A s \in Sim :
        LET all == [n \in 1 .. emitted[s] |-> n]
        IN /\ events[s] = Newest(all, MaxEvents)
           /\ items[s] = events[s]
=============================================================================
