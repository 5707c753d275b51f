-------------------------- MODULE TerrariumTickProofs --------------------------
(***************************************************************************)
(* Proofs about TerrariumTick, for any number of agents and locations, any *)
(* rules of the world and any length of a run.                             *)
(***************************************************************************)
EXTENDS TerrariumTick, SequenceTheorems, TLAPS

USE DEF tickVars, told, worldVars, clockVars, storeVars, agentVars

Needs == hunger \in [Agent -> 0 .. 100] /\ energy \in [Agent -> 0 .. 100]
         /\ lonely \in [Agent -> 0 .. 100]

-----------------------------------------------------------------------------
(* The parts of a tick keep the types *)

LEMMA AgentIsInt == Agent \subseteq Int /\ Location \subseteq Int
BY SizesAssumption DEF Agent, Location

LEMMA TurnType == ASSUME NEW t \in Int PROVE Turn(t) \in Agent
BY SizesAssumption DEF Turn, Agent

LEMMA NextLocationType == ASSUME NEW l \in Location PROVE NextLocation(l) \in Location
BY SizesAssumption DEF NextLocation, Location

LEMMA DayStartType == DayStart \in Nat
BY RulesAssumption DEF DayStart, OrDefault

LEMMA DivModType ==
    ASSUME NEW n \in Nat, NEW d \in Nat, d > 0
    PROVE  n \div d \in Nat /\ n % d \in Nat
OBVIOUS

\* A need that is raised, or lowered, stays within its limits.
LEMMA NeedType ==
    ASSUME NEW v \in 0 .. 100, NEW n \in Nat
    PROVE  AtMost(100, v + n) \in 0 .. 100 /\ AtLeast(0, v - n) \in 0 .. 100
BY DEF AtMost, AtLeast

\* A relationship stays within its limits.
LEMMA BondedType ==
    ASSUME NEW b \in [Agent -> [Agent -> -100 .. 100]],
           NEW from \in Agent, NEW to \in Agent, NEW delta \in Int
    PROVE  Bonded(b, from, to, delta) \in [Agent -> [Agent -> -100 .. 100]]
<1>1. ASSUME NEW v \in -100 .. 100
      PROVE  AtLeast(-100, AtMost(100, v + AtLeast(-3, AtMost(3, delta)))) \in -100 .. 100
  BY <1>1 DEF AtLeast, AtMost
<1>2. b[from][to] \in -100 .. 100
  OBVIOUS
<1>3. QED
  BY <1>1, <1>2 DEF Bonded

LEMMA AdvanceType ==
    ASSUME TypeOK, Advance
    PROVE  WorldTypeOK'
<1> USE DEF TypeOK, WorldTypeOK, Advance, AdvanceClock
<1>1. tick' \in Nat /\ tick' > 0 /\ tick' = tick + 1
  OBVIOUS
<1>2. day' \in Nat /\ hour' \in Nat
  <2>1. tick \in Nat /\ tick + 1 - 1 \in Nat /\ DayStart + (tick + 1 - 1) \in Nat
    BY DayStartType
  <2>2. TicksPerDay \in Nat /\ TicksPerDay > 0
    BY RulesAssumption
  <2>3. (tick + 1 - 1) \div TicksPerDay \in Nat
        /\ (DayStart + (tick + 1 - 1)) % TicksPerDay \in Nat
    BY ONLY <2>1, <2>2, DivModType
  <2>4. QED
    BY <2>3
<1>3. phase' \in {"DAY", "NIGHT"}
  BY DEF PhaseOf
<1>4. food' \in Nat /\ water' \in Nat
  BY DEF FoodShrinks
<1>5. weather' \in {"clear", "rain"}
  BY DEF WeatherTurns
<1>6. QED
  BY <1>1, <1>2, <1>3, <1>4, <1>5

LEMMA PassiveNeedsType ==
    ASSUME TypeOK, ApplyPassiveNeeds
    PROVE  Needs'
<1>1. PICK cost \in Nat : energy' = [a \in Agent |-> AtLeast(0, energy[a] - cost)]
  BY RulesAssumption, Zenon DEF ApplyPassiveNeeds
<1>2. \A a \in Agent : /\ AtMost(100, hunger[a] + HungerPerTick) \in 0 .. 100
                      /\ AtLeast(0, energy[a] - cost) \in 0 .. 100
                      /\ AtMost(100, lonely[a] + 1) \in 0 .. 100
  BY NeedType, RulesAssumption DEF TypeOK, WorldTypeOK
<1>3. QED
  BY <1>1, <1>2, Zenon DEF ApplyPassiveNeeds, Needs

\* What an accepted answer and a mock action have in common.
IsAction(act) ==
    /\ act.kind \in Kind
    /\ act.mood \in Moods \cup MockMoods
    /\ act.delta \in Int
    /\ act.reply \in Int
    /\ act.replyMood \in Moods \cup {NoMood}

LEMMA AnswerIsAction == \A act \in Answers : IsAction(act)
<1> SUFFICES ASSUME NEW act \in Answers PROVE IsAction(act)
  OBVIOUS
<1>1. act.kind \in Kind
  BY DEF Answers, Kind
<1>2. act.mood \in Moods
  BY DEF Answers
<1>3. act.delta \in Deltas
  BY DEF Answers
<1>4. act.delta \in Int
  <2>1. act.delta \in -3 .. 3
    BY <1>3, DeltasAssumption
  <2>2. QED
    BY ONLY <2>1
<1>5. act.reply \in Int
  <2>1. CASE act.reply \in Replies
    BY <2>1, DeltasAssumption, Zenon
  <2>2. CASE act.reply = 0
    BY <2>2
  <2>3. QED
    BY <2>1, <2>2 DEF Answers
<1>6. act.replyMood \in Moods \cup {NoMood}
  BY DEF Answers
<1>7. QED
  BY <1>1, <1>2, <1>4, <1>5, <1>6 DEF IsAction

LEMMA MockActionIsAction == ASSUME NEW a PROVE IsAction(MockAction(a))
BY DEF MockAction, MockMove, MockTalk, MockUse, MockIdle, Action, IsAction,
       Kind, MockMoods, NoMood

LEMMA ResolveType ==
    ASSUME TypeOK, NEW a \in Agent, NEW act, IsAction(act), NEW e \in Event,
           ResolveAction(a, act, e)
    PROVE  WorldTypeOK'
<1> USE DEF TypeOK, WorldTypeOK, ResolveAction, IsAction
<1>1. ~Talk(a, act, e) => emotion' \in [Agent -> Moods \cup MockMoods]
  OBVIOUS
<1>2. CASE Move(a, act, e)
  <2>1. place[a] \in Location
    OBVIOUS
  <2>2. (IF act.where \in Location THEN act.where ELSE NextLocation(place[a])) \in Location
    BY <2>1, NextLocationType
  <2>3. act.kind # "TALK"
    BY <1>2 DEF Move
  <2>4. QED
    BY <1>1, <1>2, <2>2, <2>3 DEF Move, Talk
<1>3. CASE Talk(a, act, e)
  <2>1. act.who \in Agent
    BY <1>3 DEF Talk, CanTalk
  <2>2. Bonded(bond, a, act.who, act.delta) \in [Agent -> [Agent -> -100 .. 100]]
    BY <2>1, BondedType
  <2>3. bond' \in [Agent -> [Agent -> -100 .. 100]]
    BY <1>3, <2>1, <2>2, BondedType DEF Talk
  <2>4. lonely' \in [Agent -> 0 .. 100]
    <3>1. \A v \in 0 .. 100 : AtLeast(0, v - 8) \in 0 .. 100 /\ AtLeast(0, v - 5) \in 0 .. 100
      BY NeedType
    <3>2. QED
      BY <1>3, <2>1, <3>1 DEF Talk
  <2>5. emotion' \in [Agent -> Moods \cup MockMoods]
    BY <1>3, <2>1 DEF Talk, ReplyMood
  <2>6. QED
    BY <1>3, <2>3, <2>4, <2>5 DEF Talk
<1>4. CASE UseFood(a, act, e)
  <2>1. hunger' \in [Agent -> 0 .. 100]
    <3>1. \A v \in 0 .. 100 : AtLeast(0, v - 20) \in 0 .. 100
      BY NeedType
    <3>2. QED
      BY <1>4, <3>1 DEF UseFood
  <2>2. water' \in Nat /\ food' \in Nat
    BY <1>4 DEF UseFood
  <2>3. UNCHANGED <<agentPlace, place, energy, lonely, bond, clockVars>>
    BY <1>4 DEF UseFood
  <2>4. act.kind # "TALK"
    BY <1>4 DEF UseFood
  <2>5. QED
    BY <1>1, <2>1, <2>2, <2>3, <2>4 DEF Talk
<1>5. CASE UseWater(a, act, e)
  <2>1. energy' \in [Agent -> 0 .. 100]
    <3>1. \A v \in 0 .. 100 : AtMost(100, v + 10) \in 0 .. 100
      BY NeedType
    <3>2. QED
      BY <1>5, <3>1 DEF UseWater
  <2>2. water' \in Nat /\ food' \in Nat
    BY <1>5 DEF UseWater
  <2>3. UNCHANGED <<agentPlace, place, hunger, lonely, bond, clockVars>>
    BY <1>5 DEF UseWater
  <2>4. act.kind # "TALK"
    BY <1>5 DEF UseWater
  <2>5. QED
    BY <1>1, <2>1, <2>2, <2>3, <2>4 DEF Talk
<1>6. CASE WaitOrObserve(a, act, e)
  <2>1. ~Talk(a, act, e)
    BY <1>6 DEF WaitOrObserve, Talk, StoreIsEmpty
  <2>2. QED
    BY <1>1, <1>6, <2>1 DEF WaitOrObserve
<1>7. QED
  BY <1>2, <1>3, <1>4, <1>5, <1>6

\* What a tick remembers is a turn and an event, and never too many of them.
LEMMA RememberType ==
    ASSUME NEW m \in Seq(Nat \X Event), NEW item \in Nat \X Event
    PROVE  /\ Remember(m, item) \in Seq(Nat \X Event)
           /\ Len(m) <= MaxMemories => Len(Remember(m, item)) <= MaxMemories
           /\ Len(Remember(m, item)) \in Nat \ {0}
           /\ Remember(m, item)[Len(Remember(m, item))] = item
           /\ \A i \in 1 .. Len(Remember(m, item)) - 1 :
                  /\ Len(m) < MaxMemories => Remember(m, item)[i] = m[i]
                  /\ Len(m) >= MaxMemories => Remember(m, item)[i] = m[i + 1]
           /\ Len(m) < MaxMemories => Len(Remember(m, item)) = Len(m) + 1
           /\ Len(m) >= MaxMemories => Len(Remember(m, item)) = Len(m)
<1>1. CASE Len(m) < MaxMemories
  BY <1>1, TickAssumption DEF Remember
<1>2. CASE Len(m) >= MaxMemories
  <2>1. m # <<>> /\ Len(m) \in Nat \ {0}
    BY <1>2, TickAssumption
  <2>2. /\ Tail(m) \in Seq(Nat \X Event) /\ Len(Tail(m)) = Len(m) - 1
        /\ \A i \in 1 .. Len(Tail(m)) : Tail(m)[i] = m[i + 1]
    BY <2>1
  <2>3. Remember(m, item) = Append(Tail(m), item)
    BY <1>2, TickAssumption DEF Remember
  <2>4. /\ Remember(m, item) \in Seq(Nat \X Event)
        /\ Len(Remember(m, item)) = Len(m)
        /\ Remember(m, item)[Len(m)] = item
    BY <2>1, <2>2, <2>3
  <2>5. \A i \in 1 .. Len(m) - 1 : Remember(m, item)[i] = m[i + 1]
    BY <2>1, <2>2, <2>3
  <2>6. QED
    BY <1>2, <2>1, <2>4, <2>5, TickAssumption
<1>3. QED
  BY <1>1, <1>2, TickAssumption

LEMMA PerformType ==
    ASSUME TypeOK, NEW a \in Agent, NEW act, IsAction(act),
           NEW source \in Source, Perform(a, act, source), UNCHANGED actor
    PROVE  TypeOK'
<1>1. PICK e \in Event :
        /\ ResolveAction(a, act, e)
        /\ memories' = [memories EXCEPT ![a] = Remember(@, <<tick, e>>)]
        /\ toldFood' = IF e = "RESOURCE_CHANGED" /\ act.what # "water"
                       THEN food' ELSE toldFood
        /\ toldWater' = IF e = "RESOURCE_CHANGED" /\ act.what = "water"
                        THEN water' ELSE toldWater
        /\ result' = Result(source, act.kind, e, place'[a] # place[a])
        /\ stage' = "idle" /\ try' = 0
        /\ UNCHANGED <<history, mode, toldWeather, lost>>
  BY Zenon DEF Perform
<1>2. WorldTypeOK'
  BY <1>1, ResolveType
<1>3. memories' \in [Agent -> Seq(Nat \X Event)]
  <2>1. <<tick, e>> \in Nat \X Event /\ memories[a] \in Seq(Nat \X Event)
    BY DEF TypeOK, WorldTypeOK
  <2>2. Remember(memories[a], <<tick, e>>) \in Seq(Nat \X Event)
    BY <2>1, RememberType
  <2>3. QED
    BY <1>1, <2>2 DEF TypeOK
<1>4. toldFood' \in Nat /\ toldWater' \in Nat
  BY <1>1, <1>2 DEF TypeOK, WorldTypeOK
<1>5. result' \in [source : Source, kind : Kind \cup {"none"},
                  event : Event \cup {"none"}, moved : BOOLEAN]
  <2>1. act.kind \in Kind
    BY DEF IsAction
  <2>2. (place'[a] # place[a]) \in BOOLEAN
    OBVIOUS
  <2>3. QED
    BY <1>1, <2>1, <2>2, Zenon DEF Result
<1>6. stage' \in Stage /\ try' \in 0 .. MaxAttempts
  BY <1>1 DEF Stage, MaxAttempts
<1>7. QED
  BY <1>1, <1>2, <1>3, <1>4, <1>5, <1>6 DEF TypeOK

-----------------------------------------------------------------------------
(* Types *)

LEMMA TypeInit == Init => TypeOK
<1> SUFFICES ASSUME Init PROVE TypeOK
  OBVIOUS
<1> USE DEF Init
<1>1. 0 \in Agent /\ 0 \in Location
  BY SizesAssumption DEF Agent, Location
<1>2. WorldTypeOK
  BY <1>1, DayStartType, RulesAssumption, AgentsAssumption DEF WorldTypeOK, MockMoods
<1>3. result \in [source : Source, kind : Kind \cup {"none"},
                 event : Event \cup {"none"}, moved : BOOLEAN]
  BY DEF Result, Source
<1>4. QED
  BY <1>1, <1>2, <1>3, RulesAssumption DEF TypeOK, Stage, MaxAttempts

LEMMA WorldKept == WorldTypeOK /\ UNCHANGED worldVars => WorldTypeOK'
BY DEF WorldTypeOK

LEMMA TypeNext == TypeOK /\ [Next]_vars => TypeOK'
<1> SUFFICES ASSUME TypeOK, [Next]_vars PROVE TypeOK'
  OBVIOUS
<1>1. CASE CreateWorld
  <2>1. history' \in [Agent -> Seq(Kind \X Int)]
    BY <1>1, TickAssumption DEF CreateWorld, TypeOK
  <2>2. place' \in [Agent -> Location] /\ agentPlace' \in [Agent -> Location]
    <3>1. PICK where \in [Agent -> Location \cup {Nowhere}] :
            \/ /\ \A a \in Agent : where[a] \in Location
               /\ place' = where /\ agentPlace' = where
            \/ UNCHANGED <<place, agentPlace>>
      BY <1>1, Zenon DEF CreateWorld
    <3>2. (\A a \in Agent : where[a] \in Location) => where \in [Agent -> Location]
      OBVIOUS
    <3>3. QED
      BY <3>1, <3>2 DEF TypeOK, WorldTypeOK
  <2>3. stage' \in Stage
    BY <1>1 DEF CreateWorld, Stage
  <2>4. QED
    BY <1>1, <2>1, <2>2, <2>3 DEF CreateWorld, TypeOK, WorldTypeOK
<1>2. CASE BeginTick
  <2>1. WorldTypeOK'
    BY <1>2, AdvanceType DEF BeginTick
  <2>2. QED
    BY <1>2, <2>1 DEF BeginTick, TypeOK, Stage, InTick
<1>3. CASE AnnounceFood
  BY <1>3 DEF AnnounceFood, TypeOK, WorldTypeOK, Stage, InTick
<1>4. CASE AnnounceWeather
  BY <1>4 DEF AnnounceWeather, TypeOK, WorldTypeOK, Stage, InTick
<1>5. CASE AskMock \/ AskLlm
  <2>1. Needs'
    BY <1>5, PassiveNeedsType DEF AskMock, AskLlm
  <2>2. actor' \in Agent
    BY <1>5, TurnType DEF AskMock, AskLlm, TypeOK, WorldTypeOK
  <2>3. WorldTypeOK'
    BY <1>5, <2>1 DEF AskMock, AskLlm, TypeOK, WorldTypeOK, Needs
  <2>4. stage' \in Stage /\ try' \in 0 .. MaxAttempts
    BY <1>5 DEF AskMock, AskLlm, TypeOK, Stage, InTick, MaxAttempts
  <2>5. UNCHANGED <<history, mode, memories, told, lost, result>>
    BY <1>5 DEF AskMock, AskLlm
  <2>6. QED
    BY <2>2, <2>3, <2>4, <2>5 DEF TypeOK
<1>6. CASE MockDecides
  BY <1>6, PerformType, MockActionIsAction DEF MockDecides, TypeOK, Source
<1>7. CASE LlmAnswers
  BY <1>7, PerformType, AnswerIsAction DEF LlmAnswers, TypeOK, Source
<1>8. CASE LlmAnswersBadly
  <2>1. try' \in 0 .. MaxAttempts
    BY <1>8 DEF LlmAnswersBadly, TypeOK, MaxAttempts
  <2>2. QED
    BY <1>8, <2>1, WorldKept DEF LlmAnswersBadly, TypeOK
<1>9. CASE FallBack
  BY <1>9, PerformType, MockActionIsAction DEF FallBack, TypeOK, Source
<1>10. CASE FailTick
  <2>1. Result("failed", "none", "none", FALSE)
          \in [source : Source, kind : Kind \cup {"none"},
              event : Event \cup {"none"}, moved : BOOLEAN]
    BY DEF Result, Source
  <2>2. QED
    <3>1. WorldTypeOK' /\ stage' \in Stage /\ try' \in 0 .. MaxAttempts
      BY <1>10, WorldKept DEF FailTick, TypeOK, Stage, MaxAttempts
    <3>2. UNCHANGED <<history, mode, actor, memories, told, lost>>
      BY <1>10 DEF FailTick
    <3>3. result' = Result("failed", "none", "none", FALSE)
      BY <1>10 DEF FailTick
    <3>4. QED
      BY <2>1, <3>1, <3>2, <3>3 DEF TypeOK
<1>11. CASE CancelTick
  <2>1. lost' \in BOOLEAN
    BY <1>11 DEF CancelTick
  <2>2. QED
    BY <1>11, <2>1, WorldKept DEF CancelTick, TypeOK, Stage, MaxAttempts
<1>12. CASE UNCHANGED vars
  BY <1>12, WorldKept DEF vars, TypeOK
<1>13. QED
  BY <1>1, <1>2, <1>3, <1>4, <1>5, <1>6, <1>7, <1>8, <1>9, <1>10, <1>11, <1>12
  DEF Next

\* The world keeps its type, for all rules and any number of agents: needs
\* stay within 0 and 100, relationships within -100 and 100, stores do not
\* become negative.
THEOREM TypeCorrect == Spec => []TypeOK
BY TypeInit, TypeNext, PTL DEF Spec

-----------------------------------------------------------------------------
(* Places *)

\* Every action that moves an agent moves both records.
LEMMA ResolvePlaces ==
    ASSUME PlacesAgree, NEW a, NEW act, NEW e, ResolveAction(a, act, e)
    PROVE  PlacesAgree'
BY DEF ResolveAction, Move, Talk, UseFood, UseWater, WaitOrObserve, PlacesAgree

\* agent.location_id and world.agent_locations agree, for every world.
THEOREM PlacesAlwaysAgree == Spec => []PlacesAgree
<1>1. Init => PlacesAgree
  BY DEF Init, PlacesAgree
<1>2. PlacesAgree /\ [Next]_vars => PlacesAgree'
  <2> SUFFICES ASSUME PlacesAgree, [Next]_vars PROVE PlacesAgree'
    OBVIOUS
  <2>1. CASE CreateWorld
    BY <2>1 DEF CreateWorld, PlacesAgree
  <2>2. CASE MockDecides \/ LlmAnswers \/ FallBack
    BY <2>2, ResolvePlaces DEF MockDecides, LlmAnswers, FallBack, Perform
  <2>3. CASE UNCHANGED <<place, agentPlace>>
    BY <2>3 DEF PlacesAgree
  <2>4. QED
    BY <2>1, <2>2, <2>3
    DEF Next, vars, BeginTick, Advance, AnnounceFood, AnnounceWeather, AskMock,
        AskLlm, LlmAnswersBadly, FailTick, CancelTick
<1>3. QED
  BY <1>1, <1>2, PTL DEF Spec

-----------------------------------------------------------------------------
(* Accepted decisions *)

\* What the validator accepts, the resolver can do.
LEMMA ValidIsDone ==
    ASSUME TypeOK, NEW a \in Agent, NEW act \in Answers, Valid(a, act),
           NEW e \in Event, ResolveAction(a, act, e)
    PROVE  e = EventOf(act.kind)
<1>1. CASE Move(a, act, e)
  BY <1>1 DEF Move, EventOf
<1>2. CASE Talk(a, act, e)
  BY <1>2 DEF Talk, EventOf
<1>3. CASE UseFood(a, act, e)
  BY <1>3 DEF UseFood, EventOf
<1>4. CASE UseWater(a, act, e)
  BY <1>4 DEF UseWater, EventOf
<1>5. CASE WaitOrObserve(a, act, e)
  <2>1. ~(act.kind = "TALK" /\ ~CanTalk(a, act))
    BY DEF Valid, ValidTalk, CanTalk
  <2>2. ~StoreIsEmpty(act)
    <3>1. act.kind = "USE_RESOURCE" => (act.what = "food" /\ food > 0)
                                        \/ (act.what = "water" /\ water > 0)
      BY DEF Valid, ValidUse
    <3>2. QED
      BY <3>1 DEF StoreIsEmpty, TypeOK, WorldTypeOK
  <2>3. QED
    BY <1>5, <2>1, <2>2 DEF WaitOrObserve, EventOf
<1>6. QED
  BY <1>1, <1>2, <1>3, <1>4, <1>5 DEF ResolveAction

\* An accepted MOVE leads elsewhere, and nothing but a MOVE does.
LEMMA ValidMoves ==
    ASSUME TypeOK, NEW a \in Agent, NEW act \in Answers, Valid(a, act),
           NEW e \in Event, ResolveAction(a, act, e)
    PROVE  place'[a] # place[a] <=> act.kind = "MOVE"
<1>1. CASE Move(a, act, e)
  <2>1. act.kind = "MOVE" /\ act.where \in Location /\ act.where # place[a]
    BY <1>1 DEF Move, Valid, ValidMove
  <2>2. place'[a] = act.where
    BY <1>1, <2>1 DEF Move, TypeOK, WorldTypeOK
  <2>3. QED
    BY <2>1, <2>2
<1>2. CASE Talk(a, act, e)
  BY <1>2 DEF Talk, CanTalk
<1>3. CASE UseFood(a, act, e)
  BY <1>3 DEF UseFood
<1>4. CASE UseWater(a, act, e)
  BY <1>4 DEF UseWater
<1>5. CASE WaitOrObserve(a, act, e)
  BY <1>5 DEF WaitOrObserve, StoreIsEmpty
<1>6. QED
  BY <1>1, <1>2, <1>3, <1>4, <1>5 DEF ResolveAction

\* An answer of the LLM that was accepted happens as decided: validator and
\* resolver agree in every world.
THEOREM AcceptedDecisionsAreDone == Spec => []AcceptedMeansDone
<1>1. Init => AcceptedMeansDone
  BY DEF Init, AcceptedMeansDone, Result
<1>2. TypeOK /\ AcceptedMeansDone /\ [Next]_vars => AcceptedMeansDone'
  <2> SUFFICES ASSUME TypeOK, AcceptedMeansDone, [Next]_vars
               PROVE  AcceptedMeansDone'
    OBVIOUS
  <2>1. CASE LlmAnswers
    <3>1. PICK act \in Answers, e \in Event :
            /\ Valid(actor, act) /\ ResolveAction(actor, act, e)
            /\ result' = Result("ollama", act.kind, e, place'[actor] # place[actor])
      BY <2>1, Zenon DEF LlmAnswers, Perform
    <3>2. e = EventOf(act.kind)
      BY <3>1, ValidIsDone DEF TypeOK
    <3>3. place'[actor] # place[actor] <=> act.kind = "MOVE"
      BY <3>1, ValidMoves DEF TypeOK
    <3>4. /\ result'.source = "ollama" /\ result'.kind = act.kind
          /\ result'.event = e /\ result'.moved = (place'[actor] # place[actor])
      BY <3>1, Zenon DEF Result
    <3>5. QED
      BY <3>2, <3>3, <3>4, Zenon DEF AcceptedMeansDone
  <2>2. CASE MockDecides \/ FallBack
    <3>1. PICK source \in {"mock", "mock-fallback"} :
            Perform(actor, MockAction(actor), source)
      BY <2>2 DEF MockDecides, FallBack
    <3>2. PICK kind, e, moved : result' = Result(source, kind, e, moved)
      BY <3>1, Zenon DEF Perform
    <3>3. result'.source = source
      BY <3>2 DEF Result
    <3>4. QED
      BY <3>1, <3>3 DEF AcceptedMeansDone
  <2>3. CASE FailTick
    BY <2>3 DEF FailTick, AcceptedMeansDone, Result
  <2>4. CASE UNCHANGED result
    BY <2>4 DEF AcceptedMeansDone
  <2>5. QED
    BY <2>1, <2>2, <2>3, <2>4
    DEF Next, vars, CreateWorld, BeginTick, AnnounceFood, AnnounceWeather,
        AskMock, AskLlm, LlmAnswersBadly, CancelTick
<1>3. QED
  BY <1>1, <1>2, TypeCorrect, PTL DEF Spec

-----------------------------------------------------------------------------
(* The log and the world.  LogTellsWorld speaks of the time between two    *)
(* ticks; within a tick the log is behind by what advance has changed.     *)

LogInv ==
    lost \/
    /\ toldWater = water
    /\ stage \notin {"started"} => toldFood = food
    /\ stage \notin {"started", "fed"} => toldWeather = weather
    /\ stage = "started" /\ tick % 3 # 0 => toldFood = food
    /\ stage \in {"started", "fed"} /\ ~WeatherTurns(tick) => toldWeather = weather

\* What Perform does to the log follows what it does to the stores.
LEMMA PerformLogs ==
    ASSUME TypeOK, NEW a, NEW act, NEW source, Perform(a, act, source),
           stage = "asking", LogInv
    PROVE  LogInv'
<1>1. PICK e \in Event :
        /\ ResolveAction(a, act, e)
        /\ toldFood' = IF e = "RESOURCE_CHANGED" /\ act.what # "water"
                       THEN food' ELSE toldFood
        /\ toldWater' = IF e = "RESOURCE_CHANGED" /\ act.what = "water"
                        THEN water' ELSE toldWater
        /\ stage' = "idle" /\ UNCHANGED <<toldWeather, lost>>
  BY Zenon DEF Perform
<1>2. UNCHANGED weather
  BY <1>1 DEF ResolveAction
<1>3. CASE UseFood(a, act, e)
  BY <1>1, <1>2, <1>3 DEF UseFood, LogInv
<1>4. CASE UseWater(a, act, e)
  BY <1>1, <1>2, <1>4 DEF UseWater, LogInv
<1>5. CASE UNCHANGED storeVars /\ e # "RESOURCE_CHANGED"
  BY <1>1, <1>2, <1>5 DEF LogInv
<1>6. QED
  BY <1>1, <1>3, <1>4, <1>5 DEF ResolveAction, Move, Talk, WaitOrObserve

\* The event log alone tells the food, the water and the weather between two
\* ticks, unless a tick was cancelled before its world events.
THEOREM LogFollowsWorld == Spec => []LogTellsWorld
<1>1. Init => LogInv
  BY DEF Init, LogInv
<1>2. TypeOK /\ LogInv /\ [Next]_vars => LogInv'
  <2> SUFFICES ASSUME TypeOK, LogInv, [Next]_vars PROVE LogInv'
    OBVIOUS
  <2>1. CASE BeginTick
    BY <2>1 DEF BeginTick, Advance, AdvanceClock, FoodShrinks, WeatherTurns, LogInv
  <2>2. CASE AnnounceFood
    BY <2>2 DEF AnnounceFood, WeatherTurns, LogInv
  <2>3. CASE AnnounceWeather
    BY <2>3 DEF AnnounceWeather, WeatherTurns, LogInv
  <2>4. CASE MockDecides \/ LlmAnswers \/ FallBack
    BY <2>4, PerformLogs DEF MockDecides, LlmAnswers, FallBack
  <2>5. CASE CancelTick
    BY <2>5 DEF CancelTick, LogInv
  <2>6. CASE /\ UNCHANGED <<storeVars, weather, tick, told, lost>>
             /\ stage' = stage \/ {stage, stage'} \cap {"started", "fed"} = {}
    BY <2>6 DEF LogInv, WeatherTurns
  <2>7. QED
    BY <2>1, <2>2, <2>3, <2>4, <2>5, <2>6
    DEF Next, vars, CreateWorld, AskMock, AskLlm, LlmAnswersBadly, FailTick
<1>3. LogInv => LogTellsWorld
  BY DEF LogInv, LogTellsWorld
<1>4. QED
  BY <1>1, <1>2, <1>3, TypeCorrect, PTL DEF Spec

-----------------------------------------------------------------------------
(* Relationships *)

\* A talk of x changes the two views that x and its partner have of each other,
\* each by three points at most, and the partner's only if there is a reply.
LEMMA TalkBonds ==
    ASSUME TypeOK, NEW x \in Agent, NEW act, IsAction(act), Talk(x, act, "AGENT_TALKED"),
           NEW a \in Agent, NEW b \in Agent, bond'[a][b] # bond[a][b]
    PROVE  /\ x \in {a, b} /\ a # b /\ place[a] = place[b]
           /\ bond'[a][b] - bond[a][b] \in -3 .. 3
           /\ act.reply = 0 => a = x
<1> DEFINE w == act.who
           Step(v, d) == AtLeast(-100, AtMost(100, v + AtLeast(-3, AtMost(3, d))))
           mid == [bond EXCEPT ![x][w] = Step(bond[x][w], act.delta)]
<1>1. w \in Agent /\ w # x /\ place[w] = place[x] /\ act.delta \in Int /\ act.reply \in Int
  BY DEF Talk, CanTalk, IsAction
<1>2. bond \in [Agent -> [Agent -> -100 .. 100]]
  BY DEF TypeOK, WorldTypeOK
<1>3. bond' = [mid EXCEPT ![w][x] = Step(mid[w][x], act.reply)]
  BY DEF Talk, Bonded
<1>4. \A v \in -100 .. 100, d \in Int :
        Step(v, d) \in -100 .. 100 /\ Step(v, d) - v \in -3 .. 3
  BY DEF AtLeast, AtMost
<1>5. \A v \in -100 .. 100 : Step(v, 0) = v
  BY DEF AtLeast, AtMost
<1> HIDE DEF Step
<1>6. mid \in [Agent -> [Agent -> -100 .. 100]]
  <2>1. bond[x][w] \in -100 .. 100
    BY <1>1, <1>2
  <2>2. QED
    BY <1>1, <1>2, <1>4, <2>1
<1>7. mid[w][x] = bond[w][x]
  BY <1>1, <1>2
<1>8. bond[a][b] \in -100 .. 100
  BY <1>2
<1>9. \/ a = x /\ b = w /\ bond'[a][b] = Step(bond[a][b], act.delta)
      \/ a = w /\ b = x /\ bond'[a][b] = Step(bond[a][b], act.reply)
  <2>1. CASE a = w /\ b = x
    BY <1>1, <1>3, <1>6, <1>7, <2>1
  <2>2. CASE ~(a = w /\ b = x)
    <3>1. bond'[a][b] = mid[a][b]
      <4> HIDE DEF mid
      <4>1. QED
        BY <1>1, <1>3, <1>6, <2>2
    <3>2. a = x /\ b = w
      BY <1>1, <1>2, <3>1
    <3>3. QED
      BY <1>1, <1>2, <3>1, <3>2
  <2>3. QED
    BY <2>1, <2>2
<1>10. bond'[a][b] - bond[a][b] \in -3 .. 3
  BY <1>1, <1>4, <1>8, <1>9
<1>11. act.reply = 0 => a = x
  BY <1>5, <1>8, <1>9
<1>12. QED
  BY <1>1, <1>9, <1>10, <1>11

\* Relationships change by talk alone, between the agent whose turn it is and
\* another one in its place, by at most three points.  The partner's view of the
\* speaker changes only through an answer of the LLM.
THEOREM BondsChangeByTalk == Spec => BondsGrowByTalk
<1> DEFINE A == \A a, b \in Agent : bond'[a][b] # bond[a][b] =>
                  /\ result'.event = "AGENT_TALKED" /\ actor \in {a, b}
                  /\ place[a] = place[b] /\ a # b
                  /\ result'.source # "ollama" => a = actor
                  /\ bond'[a][b] - bond[a][b] \in -3 .. 3
<1>1. ASSUME TypeOK, NEW act, IsAction(act), NEW source, Perform(actor, act, source),
             source # "ollama" => act.reply = 0
      PROVE  A
  <2>1. PICK e \in Event :
          /\ ResolveAction(actor, act, e)
          /\ result' = Result(source, act.kind, e, place'[actor] # place[actor])
    BY <1>1, Zenon DEF Perform
  <2>2. CASE Talk(actor, act, e)
    <3>1. e = "AGENT_TALKED"
      BY <2>2 DEF Talk
    <3>2. result'.event = "AGENT_TALKED" /\ result'.source = source
      BY <2>1, <3>1 DEF Result
    <3>3. actor \in Agent
      BY <1>1 DEF TypeOK
    <3>4. QED
      BY <1>1, <2>2, <3>1, <3>2, <3>3, TalkBonds
  <2>3. CASE UNCHANGED bond
    BY <2>3
  <2>4. QED
    BY <2>1, <2>2, <2>3 DEF ResolveAction, Move, UseFood, UseWater, WaitOrObserve
<1>2. TypeOK /\ [Next]_vars => A
  <2> SUFFICES ASSUME TypeOK, [Next]_vars PROVE A
    OBVIOUS
  <2>1. CASE MockDecides \/ FallBack
    <3>1. IsAction(MockAction(actor)) /\ MockAction(actor).reply = 0
      BY MockActionIsAction
      DEF MockAction, MockMove, MockTalk, MockUse, MockIdle, Action
    <3>2. QED
      BY <1>1, <2>1, <3>1 DEF MockDecides, FallBack
  <2>2. CASE LlmAnswers
    BY <1>1, <2>2, AnswerIsAction DEF LlmAnswers
  <2>3. CASE UNCHANGED bond
    BY <2>3
  <2>4. QED
    BY <2>1, <2>2, <2>3
    DEF Next, vars, CreateWorld, BeginTick, Advance, AnnounceFood,
        AnnounceWeather, AskMock, AskLlm, LlmAnswersBadly, FailTick, CancelTick
<1>3. QED
  BY <1>2, TypeCorrect, PTL DEF Spec, BondsGrowByTalk

-----------------------------------------------------------------------------
(* Memories.  While a tick is under way nobody remembers it yet.           *)

Fresh ==
    stage \in InTick => \A a \in Agent : \A i \in 1 .. Len(memories[a]) :
                           memories[a][i][1] < tick

MemoryInv ==
    /\ MemoriesAreOwnTurns
    /\ Fresh
    /\ stage = "asking" => actor = Turn(tick)

LEMMA PerformMemory ==
    ASSUME TypeOK, MemoryInv, NEW act, NEW source, stage = "asking",
           Perform(actor, act, source)
    PROVE  MemoryInv'
<1>1. PICK e \in Event :
        /\ ResolveAction(actor, act, e)
        /\ memories' = [memories EXCEPT ![actor] = Remember(@, <<tick, e>>)]
        /\ stage' = "idle"
  BY Zenon DEF Perform
<1>2. tick' = tick /\ actor \in Agent /\ actor = Turn(tick) /\ tick \in Nat
  BY <1>1 DEF ResolveAction, TypeOK, WorldTypeOK, MemoryInv
<1> DEFINE m == memories[actor]
           item == <<tick, e>>
           r == Remember(m, item)
<1>3. m \in Seq(Nat \X Event) /\ item \in Nat \X Event /\ item[1] = tick
  BY <1>2 DEF TypeOK
<1>4. /\ Len(m) <= MaxMemories
      /\ \A i \in 1 .. Len(m) : m[i][1] < tick /\ Turn(m[i][1]) = actor
      /\ \A i, j \in 1 .. Len(m) : i < j => m[i][1] < m[j][1]
  BY <1>2 DEF MemoryInv, MemoriesAreOwnTurns, Fresh, InTick
<1>5. memories' = [memories EXCEPT ![actor] = r]
  BY <1>1
<1> HIDE DEF m, item, r
<1>3a. Len(m) \in Nat /\ \A i \in 1 .. Len(m) : m[i][1] \in Nat
  BY <1>3
<1>6. /\ Len(r) \in Nat \ {0} /\ Len(r) <= MaxMemories /\ r[Len(r)] = item
      /\ \A i \in 1 .. Len(r) - 1 :
            /\ Len(m) < MaxMemories => r[i] = m[i]
            /\ Len(m) >= MaxMemories => r[i] = m[i + 1]
      /\ Len(m) < MaxMemories => Len(r) = Len(m) + 1
      /\ Len(m) >= MaxMemories => Len(r) = Len(m)
  <2>1. MaxMemories \in Nat \ {0}
    BY TickAssumption
  <2>2. QED
    BY ONLY <1>3, <1>4, <2>1, RememberType DEF r
<1>7. \A i \in 1 .. Len(r) - 1 : \E k \in 1 .. Len(m) :
        r[i] = m[k] /\ (k = i \/ (k = i + 1 /\ Len(m) >= MaxMemories))
        /\ (k = i => Len(m) < MaxMemories)
  <2> SUFFICES ASSUME NEW i \in 1 .. Len(r) - 1
               PROVE  \E k \in 1 .. Len(m) :
                        r[i] = m[k] /\ (k = i \/ (k = i + 1 /\ Len(m) >= MaxMemories))
                        /\ (k = i => Len(m) < MaxMemories)
    OBVIOUS
  <2>1. CASE Len(m) < MaxMemories
    <3>1. i \in 1 .. Len(m) /\ r[i] = m[i]
      BY ONLY <1>3a, <1>6, <2>1
    <3>2. QED
      BY <3>1, <2>1
  <2>2. CASE Len(m) >= MaxMemories
    <3>1. i + 1 \in 1 .. Len(m) /\ r[i] = m[i + 1]
      BY ONLY <1>3a, <1>6, <2>2
    <3>2. i + 1 # i
      OBVIOUS
    <3>3. QED
      BY <3>1, <3>2, <2>2
  <2>3. QED
    BY <1>3a, <2>1, <2>2, TickAssumption
<1>8. \A i \in 1 .. Len(r) : r[i][1] <= tick /\ Turn(r[i][1]) = actor
  <2> SUFFICES ASSUME NEW i \in 1 .. Len(r)
               PROVE  r[i][1] <= tick /\ Turn(r[i][1]) = actor
    OBVIOUS
  <2>1. CASE i = Len(r)
    BY <1>2, <1>3, <1>6, <2>1
  <2>2. CASE i # Len(r)
    <3>1. i \in 1 .. Len(r) - 1
      BY <1>6, <2>2
    <3>2. PICK k \in 1 .. Len(m) : r[i] = m[k]
      BY <1>7, <3>1
    <3>3. QED
      BY <1>2, <1>3a, <1>4, <3>2
  <2>3. QED
    BY <2>1, <2>2
<1>9. ASSUME NEW i \in 1 .. Len(r), NEW j \in 1 .. Len(r), i < j
      PROVE  r[i][1] < r[j][1]
  <2>1. i \in 1 .. Len(r) - 1
    BY <1>6, <1>9
  <2>2. PICK k \in 1 .. Len(m) :
          /\ r[i] = m[k] /\ (k = i \/ (k = i + 1 /\ Len(m) >= MaxMemories))
          /\ (k = i => Len(m) < MaxMemories)
    BY <1>7, <2>1
  <2>3. CASE j = Len(r)
    BY <1>3, <1>4, <1>6, <2>2, <2>3
  <2>4. CASE j # Len(r)
    <3>1. j \in 1 .. Len(r) - 1
      BY <1>6, <2>4
    <3>2. PICK n \in 1 .. Len(m) :
            /\ r[j] = m[n] /\ (n = j \/ (n = j + 1 /\ Len(m) >= MaxMemories))
            /\ (n = j => Len(m) < MaxMemories)
      BY <1>7, <3>1
    <3>3. k < n
      BY <1>3a, <1>9, <2>2, <3>2, TickAssumption
    <3>4. QED
      BY <1>4, <2>2, <3>2, <3>3
  <2>5. QED
    BY <2>3, <2>4
<1>10. MemoriesAreOwnTurns'
  <2> SUFFICES ASSUME NEW a \in Agent
               PROVE  /\ Len(memories'[a]) <= MaxMemories
                      /\ \A i \in 1 .. Len(memories'[a]) :
                            /\ memories'[a][i][1] <= tick
                            /\ Turn(memories'[a][i][1]) = a
                      /\ \A i, j \in 1 .. Len(memories'[a]) :
                            i < j => memories'[a][i][1] < memories'[a][j][1]
    BY <1>2 DEF MemoriesAreOwnTurns
  <2>1. CASE a = actor
    BY <1>5, <1>6, <1>8, <1>9, <2>1 DEF TypeOK
  <2>2. CASE a # actor
    BY <1>5, <2>2 DEF TypeOK, MemoryInv, MemoriesAreOwnTurns
  <2>3. QED
    BY <2>1, <2>2
<1>11. QED
  BY <1>1, <1>10 DEF MemoryInv, Fresh, InTick

\* An agent remembers its own turns only, in order, up to the limit.
THEOREM MemoriesAreOfOwnTurns == Spec => []MemoriesAreOwnTurns
<1>1. Init => MemoryInv
  BY TickAssumption DEF Init, MemoryInv, MemoriesAreOwnTurns, Fresh, InTick
<1>2. TypeOK /\ MemoryInv /\ [Next]_vars => MemoryInv'
  <2> SUFFICES ASSUME TypeOK, MemoryInv, [Next]_vars PROVE MemoryInv'
    OBVIOUS
  <2>1. CASE BeginTick
    <3>1. tick' = tick + 1 /\ stage' = "started" /\ UNCHANGED memories /\ tick \in Nat
      BY <2>1 DEF BeginTick, Advance, AdvanceClock, TypeOK, WorldTypeOK
    <3>2. \A a \in Agent : \A i \in 1 .. Len(memories[a]) : memories[a][i][1] \in Nat
      BY DEF TypeOK
    <3>3. QED
      BY <3>1, <3>2 DEF MemoryInv, MemoriesAreOwnTurns, Fresh
  <2>2. CASE AskMock \/ AskLlm
    BY <2>2 DEF AskMock, AskLlm, MemoryInv, MemoriesAreOwnTurns, Fresh, InTick
  <2>3. CASE MockDecides \/ LlmAnswers \/ FallBack
    BY <2>3, PerformMemory DEF MockDecides, LlmAnswers, FallBack
  <2>4. CASE /\ UNCHANGED <<tick, memories, actor>>
             /\ stage' \in InTick => stage \in InTick
             /\ stage' = "asking" => stage = "asking"
    BY <2>4 DEF MemoryInv, MemoriesAreOwnTurns, Fresh, InTick
  <2>5. QED
    BY <2>1, <2>2, <2>3, <2>4
    DEF Next, vars, CreateWorld, AnnounceFood, AnnounceWeather,
        LlmAnswersBadly, FailTick, CancelTick, InTick
<1>3. QED
  BY <1>1, <1>2, TypeCorrect, PTL DEF Spec, MemoryInv

-----------------------------------------------------------------------------
(* The clock *)

\* What division and remainder say of each other.
LEMMA DivMod ==
    ASSUME NEW a \in Int, NEW d \in Nat, d > 0
    PROVE  /\ a \div d \in Int /\ a % d \in 0 .. d - 1
           /\ a = d * (a \div d) + (a % d)
OBVIOUS

\* Only 0 is a multiple of d that is smaller than d.
LEMMA SmallMultiple ==
    ASSUME NEW m \in Int, NEW d \in Nat, -d < d * m, d * m < d
    PROVE  m = 0
<1>1. CASE m >= 1
  <2>1. d * m = d + d * (m - 1) /\ d * (m - 1) >= 0
    BY <1>1
  <2>2. QED
    BY <2>1
<1>2. CASE m <= -1
  <2>1. d * m = -d + d * (m + 1) /\ d * (m + 1) <= 0
    BY <1>2
  <2>2. QED
    BY <2>1
<1>3. QED
  BY <1>1, <1>2

\* The hour, counted from the start of a day, is the tick within the day,
\* also when that passes the last hour.
LEMMA HourTellsTick ==
    ASSUME NEW n \in Nat, NEW start \in Nat, NEW d \in Nat, d > 0
    PROVE  (n \div d) * d + ((((start + n) % d) - start) % d) = n
<1> DEFINE h == (start + n) % d
           q == (start + n) \div d
           r == (h - start) % d
           k == (h - start) \div d
           j == n \div d
<1>1. /\ q \in Int /\ h \in 0 .. d - 1 /\ start + n = d * q + h
  BY DivMod
<1>2. /\ k \in Int /\ r \in 0 .. d - 1 /\ h - start = d * k + r
  <2>1. h - start \in Int
    BY <1>1
  <2>2. QED
    BY <2>1, DivMod
<1>3. /\ j \in Int /\ n % d \in 0 .. d - 1 /\ n = d * j + (n % d)
  BY DivMod
<1> HIDE DEF h, q, r, k, j
<1>4. (n % d) - r = d * ((q + k) - j)
  <2>1. d * ((q + k) - j) = (d * q + d * k) - d * j
    BY <1>1, <1>2, <1>3
  <2>2. d * q \in Int /\ d * k \in Int /\ d * j \in Int
    BY <1>1, <1>2, <1>3
  <2>3. QED
    BY <1>1, <1>2, <1>3, <2>1, <2>2
<1>5. (q + k) - j = 0
  <2>1. (q + k) - j \in Int /\ -d < (n % d) - r /\ (n % d) - r < d
    BY <1>1, <1>2, <1>3
  <2>2. QED
    BY <1>4, <2>1, SmallMultiple
<1>6. n % d = r
  BY <1>2, <1>3, <1>4, <1>5
<1>7. QED
  BY <1>3, <1>6 DEF r, h, j

\* Day, hour and phase are those of the number of ticks, whatever ticks have
\* failed or were cancelled.
THEOREM ClockAlwaysExact == Spec => []ClockIsExact
<1>1. Init => ClockIsExact
  BY DEF Init, ClockIsExact
<1>2. TypeOK /\ ClockIsExact /\ [Next]_vars => ClockIsExact'
  <2> SUFFICES ASSUME TypeOK, ClockIsExact, [Next]_vars PROVE ClockIsExact'
    OBVIOUS
  <2>1. CASE BeginTick
    <3>1. /\ tick \in Nat /\ tick' = tick + 1
          /\ day' = (tick \div TicksPerDay) + 1
          /\ hour' = (DayStart + tick) % TicksPerDay
          /\ phase' = PhaseOf(hour')
      BY <2>1 DEF BeginTick, Advance, AdvanceClock, TypeOK, WorldTypeOK
    <3>2. /\ TicksPerDay \in Nat /\ TicksPerDay > 0 /\ DayStart \in Nat
      BY RulesAssumption, DayStartType
    <3>3. /\ (day' - 1) * TicksPerDay = (tick \div TicksPerDay) * TicksPerDay
      <4>1. tick \div TicksPerDay \in Int
        BY <3>1, <3>2, DivMod
      <4>2. QED
        BY <3>1, <4>1
    <3>4. (tick \div TicksPerDay) * TicksPerDay
            + ((((DayStart + tick) % TicksPerDay) - DayStart) % TicksPerDay) = tick
      BY <3>1, <3>2, HourTellsTick
    <3>5. (day' - 1) * TicksPerDay + ((hour' - DayStart) % TicksPerDay) = tick' - 1
      BY <3>1, <3>3, <3>4
    <3>6. QED
      BY <3>1, <3>5 DEF ClockIsExact
  <2>2. CASE UNCHANGED clockVars
    BY <2>2 DEF ClockIsExact, PhaseOf
  <2>3. CASE MockDecides \/ LlmAnswers \/ FallBack
    <3>1. PICK act, e : ResolveAction(actor, act, e)
      BY <2>3 DEF MockDecides, LlmAnswers, FallBack, Perform
    <3>2. UNCHANGED clockVars
      BY <3>1 DEF ResolveAction
    <3>3. QED
      BY <2>2, <3>2
  <2>4. QED
    BY <2>1, <2>2, <2>3
    DEF Next, vars, CreateWorld, AnnounceFood, AnnounceWeather, AskMock, AskLlm,
        LlmAnswersBadly, FailTick, CancelTick
<1>3. QED
  BY <1>1, <1>2, TypeCorrect, PTL DEF Spec

-----------------------------------------------------------------------------
(* The calls of the LLM *)

\* A call waits for its answer exactly while the tick asks the LLM.
CallInv ==
    /\ try \in 0 .. MaxAttempts
    /\ stage = "asking" /\ UseLlm => try > 0
    /\ ~(stage = "asking" /\ UseLlm) => try = 0

\* run_tick sees of its decision what DecisionCalls promises, however the
\* tick ends.
THEOREM TicksAskAsPromised == Spec => ImplementsCalls
<1>1. Init => CallInv /\ Calls!Init
  BY DEF Init, CallInv, MaxAttempts, Calls!Init
<1>2. CallInv /\ [Next]_vars => CallInv' /\ [Calls!Next]_try
  <2> SUFFICES ASSUME CallInv, [Next]_vars PROVE CallInv' /\ [Calls!Next]_try
    OBVIOUS
  <2> USE DEF CallInv, MaxAttempts, UseLlm, Calls!Next, Calls!Ask, Calls!AskAgain, Calls!End
  <2>1. CASE CreateWorld \/ BeginTick \/ AnnounceFood \/ AnnounceWeather
    BY <2>1 DEF CreateWorld, BeginTick, AnnounceFood, AnnounceWeather
  <2>2. CASE AskMock
    BY <2>2 DEF AskMock
  <2>3. CASE AskLlm
    BY <2>3 DEF AskLlm
  <2>4. CASE MockDecides \/ LlmAnswers \/ FallBack
    <3>1. try' = 0 /\ stage = "asking" /\ stage' = "idle"
      BY <2>4 DEF MockDecides, LlmAnswers, FallBack, Perform
    <3>2. QED
      BY <3>1
  <2>5. CASE LlmAnswersBadly
    BY <2>5 DEF LlmAnswersBadly
  <2>6. CASE FailTick \/ CancelTick
    <3>1. try' = 0 /\ stage' = "idle"
      BY <2>6 DEF FailTick, CancelTick
    <3>2. try' = try \/ try # 0
      BY <3>1
    <3>3. QED
      BY <3>1, <3>2
  <2>7. CASE UNCHANGED vars
    BY <2>7 DEF vars
  <2>8. QED
    BY <2>1, <2>2, <2>3, <2>4, <2>5, <2>6, <2>7 DEF Next
<1>3. QED
  BY <1>1, <1>2, PTL DEF Spec, ImplementsCalls, Calls!Spec
=============================================================================
