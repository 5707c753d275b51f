------------------------------ MODULE AgentActors ------------------------------
(***************************************************************************)
(* What the two actors of AgentManager may decide in a world: the fixed    *)
(* cycle of MockAgentActor, and the actions of an LLM that LLMAgentActor   *)
(* accepts.  The wording rules of a speech (length, sentences, forbidden   *)
(* phrases, similarity to earlier lines) are abstracted to a verdict that  *)
(* may fall either way; the rules about the world are kept.                *)
(***************************************************************************)
EXTENDS WorldManager, Sequences, FiniteSets

CONSTANTS
    Deltas,  \* relationship_delta of an LLM's answer
    Replies  \* reply_relationship_delta of an LLM's answer
ASSUME DeltasAssumption == Deltas \subseteq -3 .. 3 /\ Replies \subseteq Int

VARIABLE history  \* agent.action_history: pairs <<kind, target>>

Kind == {"MOVE", "TALK", "USE_RESOURCE", "OBSERVE", "WAIT"}

\* An action of the mock: it leaves the reply_* fields at their defaults.
Action(kind, who, where, what, said, delta, mood) ==
    [kind |-> kind, who |-> who, where |-> where, what |-> what,
     said |-> said, delta |-> delta, mood |-> mood,
     reply |-> 0, replyMood |-> NoMood]

\* What an LLM may answer that passes AgentAction's model_validate, which
\* takes the reply_* fields as it takes the others, without a range.  Fields
\* that the kind does not use are ignored by the code and empty here.
Answers ==
    [kind : {"TALK"}, who : Agent \cup {Nobody}, where : {Nowhere},
     what : {"none"}, said : BOOLEAN, delta : Deltas, mood : Moods,
     reply : Replies, replyMood : Moods \cup {NoMood}]
    \cup
    [kind : {"MOVE"}, who : {Nobody}, where : Location \cup {Nowhere},
     what : {"none"}, said : BOOLEAN, delta : Deltas, mood : Moods,
     reply : {0}, replyMood : {NoMood}]
    \cup
    [kind : {"USE_RESOURCE"}, who : {Nobody}, where : {Nowhere},
     what : {"food", "water", "none"}, said : BOOLEAN, delta : Deltas,
     mood : Moods, reply : {0}, replyMood : {NoMood}]
    \cup
    [kind : {"OBSERVE", "WAIT"}, who : {Nobody}, where : {Nowhere},
     what : {"none"}, said : BOOLEAN, delta : Deltas, mood : Moods,
     reply : {0}, replyMood : {NoMood}]

\* Mutant: a talk is allowed over any distance.
ValidTalkAnywhere(a, act) ==
    /\ act.who \in Agent \ {a}
    /\ act.said
    /\ history[a] # <<>> => history[a][Len(history[a])] # <<"TALK", act.who>>

\* The rules of _validate_action for each kind.
ValidTalk(a, act) ==
    /\ act.who \in Agent \ {a}
    /\ place[act.who] = place[a]
    /\ act.said
    /\ history[a] # <<>> => history[a][Len(history[a])] # <<"TALK", act.who>>

ValidMove(a, act) == act.where \in Location \ {place[a]}

ValidUse(act) ==
    \/ act.what = "food" /\ food > 0
    \/ act.what = "water" /\ water > 0

\* Only a talk may have content and change a relationship.  No rule is about
\* the reply_* fields.
Silent(act) == ~act.said /\ act.delta = 0

\* The third OBSERVE, WAIT or TALK in a row, as far as action_history knows.
ThirdInARow(a, act) ==
    LET n == Len(history[a])
    IN  /\ act.kind \in {"OBSERVE", "WAIT", "TALK"}
        /\ n >= 2
        /\ history[a][n][1] = act.kind /\ history[a][n - 1][1] = act.kind

Valid(a, act) ==
    /\ act.kind = "TALK" => ValidTalk(a, act)
    /\ act.kind = "MOVE" => ValidMove(a, act)
    /\ act.kind = "USE_RESOURCE" => ValidUse(act)
    /\ act.kind # "TALK" => Silent(act)
    /\ ~ThirdInARow(a, act)

-----------------------------------------------------------------------------
(* MockAgentActor.decide: the tick modulo five chooses what to do. *)

Nearby(a) == {b \in Agent \ {a} : place[b] = place[a]}

\* The nearby agents in the order of the dictionary, counted from 0.
NthNearby(a, n) ==
    CHOOSE b \in Nearby(a) : Cardinality({c \in Nearby(a) : c < b}) = n

MockMove(a) ==
    Action("MOVE", Nobody, NextLocation(place[a]), "none", FALSE, 0, "curious")

MockTalk(a) ==
    Action("TALK", NthNearby(a, tick % Cardinality(Nearby(a))), Nowhere, "none",
           TRUE, 1, "interested")

MockUse(a) ==
    Action("USE_RESOURCE", Nobody, Nowhere,
           IF hunger[a] >= 25 THEN "food" ELSE "water", FALSE, 0, "practical")

MockIdle(kind, mood) == Action(kind, Nobody, Nowhere, "none", FALSE, 0, mood)

MockAction(a) ==
    CASE tick % 5 = 0                       -> MockMove(a)
      [] tick % 5 = 1                       -> MockIdle("OBSERVE", "focused")
      [] tick % 5 = 2 /\ Nearby(a) # {}     -> MockTalk(a)
      [] tick % 5 = 3                       -> MockUse(a)
      [] OTHER                              -> MockIdle("WAIT", "calm")
=============================================================================
