SPECIFICATION Spec
CONSTANTS
    NAgents = 2
    NLocations = 2
    TicksPerDay = 4
    DayStartCfg = 3
    NightStartCfg = 1
    InitialFood = 2
    InitialWater = 1
    HungerPerTick = 40
    EnergyDayCost = 30
    EnergyNightCost = 60
    InitialHunger = 20
    InitialEnergy = 80
    InitialLoneliness = 7
    InitialBond <- MCHostile
    Moods <- MCMoods
    Deltas <- MCDeltas
    Replies <- MCReplies
    Modes = {"ollama", "mock", "fallback"}
    MaxMemories = 2
    Histories <- MCHistories
    MaxTick = 5
INVARIANTS
    TypeOK
    PlacesAgree
    LogTellsWorld
    AcceptedMeansDone
    MemoriesAreOwnTurns
    ClockIsExact
PROPERTY
    ImplementsCalls
CHECK_DEADLOCK FALSE
