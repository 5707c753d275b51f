------------------------------ MODULE WorldManager ------------------------------
(***************************************************************************)
(* The world of one simulation and the rules that change it: the clock,    *)
(* the weather, the shared food and water, and what an agent's action does *)
(* to places, needs, relationships and emotions.  The operators below are  *)
(* the methods of WorldManager and WorldClock; TerrariumTick calls them in *)
(* the order of a tick.                                                    *)
(*                                                                         *)
(* Agents and locations are their positions in the dictionaries that hold  *)
(* them.  A relationship that is missing from the dictionary is 0.         *)
(***************************************************************************)
EXTENDS Integers

CONSTANTS
    NAgents, NLocations,
    TicksPerDay, DayStartCfg, NightStartCfg,  \* terrarium config
    InitialFood, InitialWater,
    HungerPerTick, EnergyDayCost, EnergyNightCost,
    InitialHunger, InitialEnergy, InitialLoneliness,  \* AgentState.needs
    InitialBond,                                      \* AgentState.relationships
    Moods                                             \* emotions an LLM may name

NoMood == "none"  \* reply_emotion is None or blank

ASSUME SizesAssumption ==
    /\ NAgents \in Nat \ {0}
    /\ NLocations \in Nat \ {0}
ASSUME RulesAssumption ==
    /\ TicksPerDay \in Nat /\ TicksPerDay >= 4
    /\ DayStartCfg \in 0 .. 23 /\ NightStartCfg \in 0 .. 23
    /\ {InitialFood, InitialWater, HungerPerTick, EnergyDayCost,
        EnergyNightCost} \subseteq Nat
ASSUME AgentsAssumption ==
    /\ {InitialHunger, InitialEnergy, InitialLoneliness} \subseteq 0 .. 100
    /\ InitialBond \in -100 .. 100
ASSUME MoodsAssumption == NoMood \notin Moods

Agent    == 0 .. (NAgents - 1)
Location == 0 .. (NLocations - 1)
Nobody   == -1  \* target_agent_id is None or unknown
Nowhere  == -1  \* a location id that is not a location

VARIABLES
    tick, day, hour, phase, weather,  \* WorldState; phase is time_of_day
    food, water,                      \* world.resources
    agentPlace,                       \* world.agent_locations
    place,                            \* agent.location_id
    hunger, energy, lonely,           \* agent.needs
    bond,                             \* agent.relationships
    emotion                           \* agent.current_emotion

clockVars == <<tick, day, hour, phase, weather>>
storeVars == <<food, water>>
agentVars == <<agentPlace, place, hunger, energy, lonely, bond, emotion>>
worldVars == <<clockVars, storeVars, agentVars>>

Event == {"AGENT_MOVED", "AGENT_TALKED", "AGENT_OBSERVED", "AGENT_WAITED",
          "RESOURCE_CHANGED"}
MockMoods == {"curious", "focused", "interested", "practical", "calm"}

WorldTypeOK ==
    /\ tick \in Nat /\ day \in Nat /\ hour \in Nat
    /\ phase \in {"DAY", "NIGHT"}
    /\ weather \in {"clear", "rain"}
    /\ food \in Nat /\ water \in Nat
    /\ agentPlace \in [Agent -> Location]
    /\ place \in [Agent -> Location]
    /\ hunger \in [Agent -> 0 .. 100]
    /\ energy \in [Agent -> 0 .. 100]
    /\ lonely \in [Agent -> 0 .. 100]
    /\ bond \in [Agent -> [Agent -> -100 .. 100]]
    /\ emotion \in [Agent -> Moods \cup MockMoods]

-----------------------------------------------------------------------------
(* Rules *)

AtMost(n, v)  == IF v > n THEN n ELSE v
AtLeast(n, v) == IF v < n THEN n ELSE v

\* int(getattr(config, ...) or default): a configured 0 becomes the default.
OrDefault(v, d) == IF v = 0 THEN d ELSE v
DayStart   == OrDefault(DayStartCfg, 6)
NightStart == OrDefault(NightStartCfg, 18)

PhaseOf(h) ==
    IF DayStart < NightStart
    THEN IF DayStart <= h /\ h < NightStart THEN "DAY" ELSE "NIGHT"
    ELSE IF NightStart <= h /\ h < DayStart THEN "NIGHT" ELSE "DAY"

\* Mutant: the day count is taken from the new tick.
AdvanceClockLate(t) ==
    /\ tick' = t
    /\ day' = (t \div TicksPerDay) + 1
    /\ hour' = (DayStart + (t - 1)) % TicksPerDay
    /\ phase' = PhaseOf(hour')

\* WorldClock.advance, to tick t.
AdvanceClock(t) ==
    /\ tick' = t
    /\ day' = ((t - 1) \div TicksPerDay) + 1
    /\ hour' = (DayStart + (t - 1)) % TicksPerDay
    /\ phase' = PhaseOf(hour')

\* The shared food shrinks at every third tick, the weather turns at every
\* fourth; the same two conditions decide which events are returned.
FoodShrinks(t) == t % 3 = 0 /\ food > 0
WeatherTurns(t) == t % 4 = 0

Advance ==
    /\ AdvanceClock(tick + 1)
    /\ food' = IF FoodShrinks(tick + 1) THEN food - 1 ELSE food
    /\ weather' = IF ~WeatherTurns(tick + 1) THEN weather
                  ELSE IF weather = "clear" THEN "rain" ELSE "clear"
    /\ UNCHANGED <<water, agentVars>>

\* Mutant: the energy may sink below zero.
ApplyPassiveNeedsUnbounded ==
    /\ hunger' = [a \in Agent |-> AtMost(100, hunger[a] + HungerPerTick)]
    /\ energy' = [a \in Agent |-> energy[a] - IF phase = "NIGHT"
                                              THEN EnergyNightCost
                                              ELSE EnergyDayCost]
    /\ lonely' = [a \in Agent |-> AtMost(100, lonely[a] + 1)]

ApplyPassiveNeeds ==
    /\ hunger' = [a \in Agent |-> AtMost(100, hunger[a] + HungerPerTick)]
    /\ energy' = [a \in Agent |-> AtLeast(0, energy[a] - IF phase = "NIGHT"
                                                         THEN EnergyNightCost
                                                         ELSE EnergyDayCost)]
    /\ lonely' = [a \in Agent |-> AtMost(100, lonely[a] + 1)]

-----------------------------------------------------------------------------
(* What an action does.  act is an AgentAction: kind, the target that its  *)
(* kind uses (who, where, what), said (it has content), delta, mood, and   *)
(* what it says of the partner of a talk, reply and replyMood.  The        *)
(* parameter e is the type of the resulting event.                         *)

NextLocation(l) == (l + 1) % NLocations

\* Mutant: world.agent_locations is not kept up to date.
MoveAgentOnly(a, act, e) ==
    LET to == IF act.where \in Location THEN act.where ELSE NextLocation(place[a])
    IN  /\ act.kind = "MOVE" /\ e = "AGENT_MOVED"
        /\ place' = [place EXCEPT ![a] = to]
        /\ UNCHANGED <<agentPlace, storeVars, hunger, energy, lonely, bond>>

Move(a, act, e) ==
    LET to == IF act.where \in Location THEN act.where ELSE NextLocation(place[a])
    IN  /\ act.kind = "MOVE" /\ e = "AGENT_MOVED"
        /\ place' = [place EXCEPT ![a] = to]
        /\ agentPlace' = [agentPlace EXCEPT ![a] = to]
        /\ UNCHANGED <<storeVars, hunger, energy, lonely, bond>>

CanTalk(a, act) ==
    /\ act.who \in Agent \ {a}
    /\ place[act.who] = place[a]
    /\ act.said

\* _apply_relationship_change: a's view of b, both steps clamped.
Bonded(b, from, to, delta) ==
    [b EXCEPT ![from][to] =
        AtLeast(-100, AtMost(100, @ + AtLeast(-3, AtMost(3, delta))))]

\* What a talk leaves of the partner's emotion.
ReplyMood(old, act) == IF act.replyMood = NoMood THEN old ELSE act.replyMood

Talk(a, act, e) ==
    /\ act.kind = "TALK" /\ CanTalk(a, act) /\ e = "AGENT_TALKED"
    /\ bond' = Bonded(Bonded(bond, a, act.who, act.delta), act.who, a, act.reply)
    /\ lonely' = [lonely EXCEPT ![a] = AtLeast(0, @ - 8),
                                ![act.who] = AtLeast(0, @ - 5)]
    /\ emotion' = [emotion EXCEPT ![a] = act.mood,
                                  ![act.who] = ReplyMood(@, act)]
    /\ UNCHANGED <<agentPlace, place, storeVars, hunger, energy>>

UseFood(a, act, e) ==
    /\ act.kind = "USE_RESOURCE" /\ act.what # "water"
    /\ food > 0 /\ e = "RESOURCE_CHANGED"
    /\ food' = food - 1
    /\ hunger' = [hunger EXCEPT ![a] = AtLeast(0, @ - 20)]
    /\ UNCHANGED <<water, agentPlace, place, energy, lonely, bond>>

UseWater(a, act, e) ==
    /\ act.kind = "USE_RESOURCE" /\ act.what = "water"
    /\ water > 0 /\ e = "RESOURCE_CHANGED"
    /\ water' = water - 1
    /\ energy' = [energy EXCEPT ![a] = AtMost(100, @ + 10)]
    /\ UNCHANGED <<food, agentPlace, place, hunger, lonely, bond>>

StoreIsEmpty(act) ==
    act.kind = "USE_RESOURCE" /\ (IF act.what = "water" THEN water ELSE food) <= 0

\* WAIT, and what a TALK or USE_RESOURCE that cannot be done comes down to.
WaitOrObserve(a, act, e) ==
    /\ \/ act.kind = "OBSERVE" /\ e = "AGENT_OBSERVED"
       \/ /\ \/ act.kind = "WAIT"
             \/ act.kind = "TALK" /\ ~CanTalk(a, act)
             \/ StoreIsEmpty(act)
          /\ e = "AGENT_WAITED"
    /\ UNCHANGED <<agentPlace, place, storeVars, hunger, energy, lonely, bond>>

\* set_emotion, then resolve_action.  Nobody reads the state_events it
\* returns of the emotions and relationships that have changed.
ResolveAction(a, act, e) ==
    /\ \/ Talk(a, act, e)
       \/ /\ \/ Move(a, act, e)
             \/ UseFood(a, act, e) \/ UseWater(a, act, e)
             \/ WaitOrObserve(a, act, e)
          /\ emotion' = [emotion EXCEPT ![a] = act.mood]
    /\ UNCHANGED clockVars
=============================================================================
