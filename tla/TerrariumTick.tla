----------------------------- MODULE TerrariumTick -----------------------------
(***************************************************************************)
(* One simulation tick after the other, from inside the lock: run_tick of  *)
(* the SimulationManager calling the WorldManager and the AgentManager.    *)
(* SimulationManager.tla shows that nobody else touches the world between  *)
(* the steps of a tick; here a tick is cut at the awaits where it can be   *)
(* cancelled or fail:                                                      *)
(*                                                                         *)
(*   absent, refused  no simulation yet; refused: its creation raised      *)
(*   idle             between two ticks                                    *)
(*   started          the world has advanced, TICK_STARTED is being sent   *)
(*   fed, announced   the food event, then the weather event is being sent *)
(*   asking           waiting for the LLM's answer to attempt number try   *)
(***************************************************************************)
EXTENDS AgentActors

CONSTANTS
    Modes,          \* configurations of the decisions, a subset of Mode
    MaxMemories,    \* terrarium.max_memories
    Histories,      \* action histories an agent may be created with
    MaxTick         \* bound: the number of ticks

\* terrarium.use_llm, and AgentManager.allow_mock_fallback.
Mode == {"mock", "ollama", "fallback"}

ASSUME TickAssumption ==
    /\ Modes \subseteq Mode
    /\ MaxMemories \in Nat \ {0}
    /\ MaxTick \in Nat
    /\ Histories \subseteq Seq(Kind \X Int)

VARIABLES
    mode,       \* the configuration, which nothing changes
    stage,      \* where the tick is suspended
    actor,      \* run_tick's local
    try,        \* decide's local _attempt
    memories,   \* agent.memories: <<tick, event type>> for each summary
    toldFood, toldWater, toldWeather,  \* history: the world as the log has it
    lost,       \* history: a tick was cancelled before its world events
    result      \* history: the newest action: source, kind, event, moved

told == <<toldFood, toldWater, toldWeather>>
tickVars == <<stage, actor, try, memories, told, lost, result>>
vars == <<worldVars, history, mode, tickVars>>

UseLlm == mode # "mock"
AllowFallback == mode = "fallback"

MaxAttempts == 3
InTick == {"started", "fed", "announced", "asking"}
Stage  == {"absent", "refused", "idle"} \cup InTick
Source == {"none", "mock", "ollama", "mock-fallback", "failed"}
Result(source, kind, event, moved) ==
    [source |-> source, kind |-> kind, event |-> event, moved |-> moved]

TypeOK ==
    /\ WorldTypeOK
    /\ history \in [Agent -> Seq(Kind \X Int)]
    /\ mode \in Modes
    /\ stage \in Stage
    /\ actor \in Agent
    /\ try \in 0 .. MaxAttempts
    /\ memories \in [Agent -> Seq(Nat \X Event)]
    /\ toldFood \in Nat /\ toldWater \in Nat /\ toldWeather \in {"clear", "rain"}
    /\ lost \in BOOLEAN
    /\ result \in [source : Source, kind : Kind \cup {"none"},
                   event : Event \cup {"none"}, moved : BOOLEAN]

Init ==
    /\ tick = 0 /\ day = 1 /\ hour = DayStart /\ phase = "DAY"
    /\ weather = "clear"
    /\ food = InitialFood /\ water = InitialWater
    /\ place = [a \in Agent |-> 0] /\ agentPlace = place
    /\ hunger = [a \in Agent |-> InitialHunger]
    /\ energy = [a \in Agent |-> InitialEnergy]
    /\ lonely = [a \in Agent |-> InitialLoneliness]
    /\ bond = [a \in Agent |-> [b \in Agent |-> InitialBond]]
    /\ emotion = [a \in Agent |-> "calm"]
    /\ history = [a \in Agent |-> <<>>]
    /\ mode \in Modes
    /\ stage = "absent"
    /\ actor = 0 /\ try = 0
    /\ memories = [a \in Agent |-> <<>>]
    /\ toldFood = InitialFood /\ toldWater = InitialWater /\ toldWeather = "clear"
    /\ lost = FALSE
    /\ result = Result("none", "none", "none", FALSE)

-----------------------------------------------------------------------------
(* Creation *)

\* create_world: an agent at an unknown location is meant to be corrected,
\* but the warning goes to a method WorldManager does not have.
CreateWorld ==
    /\ stage \in {"absent", "refused"}
    /\ \E where \in [Agent -> Location \cup {Nowhere}] :
        \/ /\ \A a \in Agent : where[a] \in Location
           /\ place' = where
           /\ agentPlace' = where
           /\ \E h \in Histories : history' = [a \in Agent |-> h]
           /\ stage' = "idle"
        \/ /\ \E a \in Agent : where[a] = Nowhere
           /\ stage' = "refused"
           /\ UNCHANGED <<place, agentPlace, history>>
    /\ UNCHANGED <<clockVars, storeVars, hunger, energy, lonely, bond, emotion,
                   mode, actor, try, memories, told, lost, result>>

-----------------------------------------------------------------------------
(* The tick *)

\* world_manager.advance, and TICK_STARTED.
BeginTick ==
    /\ stage = "idle"
    /\ tick < MaxTick
    /\ Advance
    /\ stage' = "started"
    /\ UNCHANGED <<history, mode, actor, try, memories, told, lost, result>>

\* The events advance returned, one emit each: the food if it may have
\* shrunk, then the weather if it has turned.
AnnounceFood ==
    /\ stage = "started"
    /\ toldFood' = IF tick % 3 = 0 THEN food ELSE toldFood
    /\ stage' = "fed"
    /\ UNCHANGED <<worldVars, history, mode, actor, try, memories, toldWater,
                   toldWeather, lost, result>>

\* Mutant: the weather is announced one tick late.
AnnounceWeatherLate ==
    /\ stage = "fed"
    /\ toldWeather' = IF WeatherTurns(tick - 1) THEN weather ELSE toldWeather
    /\ stage' = "announced"
    /\ UNCHANGED <<worldVars, history, mode, actor, try, memories, toldFood,
                   toldWater, lost, result>>

AnnounceWeather ==
    /\ stage = "fed"
    /\ toldWeather' = IF WeatherTurns(tick) THEN weather ELSE toldWeather
    /\ stage' = "announced"
    /\ UNCHANGED <<worldVars, history, mode, actor, try, memories, toldFood,
                   toldWater, lost, result>>

Turn(t) == (t - 1) % NAgents

\* Mutant: the oldest memory is never dropped.
RememberAll(m, item) == Append(m, item)

\* remember: append, then drop the oldest beyond the limit.
Remember(m, item) ==
    IF Len(m) < MaxMemories THEN Append(m, item) ELSE Append(Tail(m), item)

\* The rest of run_tick once there is an action: set_emotion, resolve_action,
\* remember and the event of the action.
Perform(a, act, source) ==
    \E e \in Event :
        /\ ResolveAction(a, act, e)
        /\ memories' = [memories EXCEPT ![a] = Remember(@, <<tick, e>>)]
        /\ toldFood' = IF e = "RESOURCE_CHANGED" /\ act.what # "water"
                       THEN food' ELSE toldFood
        /\ toldWater' = IF e = "RESOURCE_CHANGED" /\ act.what = "water"
                        THEN water' ELSE toldWater
        /\ result' = Result(source, act.kind, e, place'[a] # place[a])
        /\ stage' = "idle"
        /\ try' = 0
        /\ UNCHANGED <<history, mode, toldWeather, lost>>

\* Passive needs, choose_actor, and the call of the LLM.
AskLlm ==
    /\ stage = "announced"
    /\ UseLlm
    /\ ApplyPassiveNeeds
    /\ actor' = Turn(tick)
    /\ stage' = "asking"
    /\ try' = 1
    /\ UNCHANGED <<clockVars, storeVars, agentPlace, place, bond, emotion,
                   history, mode, memories, told, lost, result>>

\* Without an LLM the needs, the decision and its result are one step; it is
\* cut in two so that the mock decides after the needs.
AskMock ==
    /\ stage = "announced"
    /\ ~UseLlm
    /\ ApplyPassiveNeeds
    /\ actor' = Turn(tick)
    /\ stage' = "asking"
    /\ UNCHANGED <<clockVars, storeVars, agentPlace, place, bond, emotion,
                   history, mode, try, memories, told, lost, result>>

MockDecides ==
    /\ stage = "asking"
    /\ ~UseLlm
    /\ Perform(actor, MockAction(actor), "mock")
    /\ UNCHANGED actor

\* An answer that passes the validation.
LlmAnswers ==
    /\ stage = "asking"
    /\ UseLlm
    /\ \E act \in Answers :
        /\ Valid(actor, act)
        /\ Perform(actor, act, "ollama")
    /\ UNCHANGED actor

\* Mutant: the attempts are not counted.
LlmAnswersBadlyForever ==
    /\ stage = "asking"
    /\ UseLlm
    /\ try' = try + 1
    /\ UNCHANGED <<worldVars, history, mode, stage, actor, memories, told, lost, result>>

\* An answer that is no JSON object, or fails the schema or the validation.
LlmAnswersBadly ==
    /\ stage = "asking"
    /\ UseLlm
    /\ try < MaxAttempts
    /\ try' = try + 1
    /\ UNCHANGED <<worldVars, history, mode, stage, actor, memories, told, lost, result>>

\* The third bad answer, or an error of the call itself, which is not tried
\* again.
FallBack ==
    /\ stage = "asking"
    /\ UseLlm /\ AllowFallback
    /\ Perform(actor, MockAction(actor), "mock-fallback")
    /\ UNCHANGED actor

FailTick ==
    /\ stage = "asking"
    /\ UseLlm /\ ~AllowFallback
    /\ stage' = "idle"
    /\ try' = 0
    /\ result' = Result("failed", "none", "none", FALSE)
    /\ UNCHANGED <<worldVars, history, mode, actor, memories, told, lost>>

\* The task of the tick is cancelled at one of its awaits.
CancelTick ==
    /\ \/ stage \in {"started", "fed", "announced"}
       \/ stage = "asking" /\ UseLlm
    /\ stage' = "idle"
    /\ try' = 0
    /\ lost' = (lost \/ stage \in {"started", "fed"})
    /\ UNCHANGED <<worldVars, history, mode, actor, memories, told, result>>

Next ==
    \/ CreateWorld
    \/ BeginTick \/ AnnounceFood \/ AnnounceWeather
    \/ AskMock \/ MockDecides
    \/ AskLlm \/ LlmAnswers \/ LlmAnswersBadly \/ FallBack \/ FailTick
    \/ CancelTick

Spec == Init /\ [][Next]_vars

-----------------------------------------------------------------------------
(* Safety *)

\* The two records of where an agent is, agent.location_id for the rules and
\* world.agent_locations for the clients, never differ.
PlacesAgree == agentPlace = place

\* Between two ticks a client that only reads the event log knows the food,
\* the water and the weather, unless a tick was cancelled before it had sent
\* its world events.  During a tick it is behind by that tick's changes.
LogTellsWorld ==
    (stage = "idle" /\ ~lost) =>
        told = <<food, water, weather>>

EventOf(kind) ==
    CASE kind = "MOVE"         -> "AGENT_MOVED"
      [] kind = "TALK"         -> "AGENT_TALKED"
      [] kind = "USE_RESOURCE" -> "RESOURCE_CHANGED"
      [] kind = "OBSERVE"      -> "AGENT_OBSERVED"
      [] OTHER                 -> "AGENT_WAITED"

\* The validator of the LLM's answers and the resolver of actions agree: a
\* decision that was accepted happens as decided, and never comes down to
\* the AGENT_WAITED that resolve_action has for what cannot be done.  The agent
\* is elsewhere after a MOVE, and after nothing else.
AcceptedMeansDone ==
    result.source = "ollama" =>
        /\ result.event = EventOf(result.kind)
        /\ result.moved <=> result.kind = "MOVE"

\* The calendar is exact however many ticks fail: day and hour tell the
\* number of ticks, and the phase is that of the hour.
ClockIsExact ==
    tick > 0 =>
        /\ (day - 1) * TicksPerDay + ((hour - DayStart) % TicksPerDay) = tick - 1
        /\ phase = PhaseOf(hour)

\* An agent remembers its own turns only, in their order, and no more of them
\* than it may.
MemoriesAreOwnTurns ==
    \A a \in Agent :
        LET m == memories[a] IN
        /\ Len(m) <= MaxMemories
        /\ \A i \in 1 .. Len(m) : m[i][1] <= tick /\ Turn(m[i][1]) = a
        /\ \A i, j \in 1 .. Len(m) : i < j => m[i][1] < m[j][1]

\* The tick asks for a decision the way LlmDecision gives one.
Calls == INSTANCE DecisionCalls WITH MaxCalls <- MaxAttempts, call <- try
ImplementsCalls == Calls!Spec

\* A relationship changes only in a talk, between the agent whose turn it is
\* and another one in the same place, by at most three points.  The partner's
\* view of the speaker changes only when the talk is the LLM's, whose answer
\* may fill reply_relationship_delta: what the mock says leaves it alone.
BondsGrowByTalk ==
    [][\A a, b \in Agent : bond'[a][b] # bond[a][b] =>
          /\ result'.event = "AGENT_TALKED" /\ actor \in {a, b}
          /\ place[a] = place[b] /\ a # b
          /\ result'.source # "ollama" => a = actor
          /\ bond'[a][b] - bond[a][b] \in -3 .. 3]_vars
=============================================================================
