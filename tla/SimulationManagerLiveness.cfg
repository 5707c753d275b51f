SPECIFICATION FairSpec
CONSTANTS
    r1 = r1
    r2 = r2
    r3 = r3
    l1 = l1
    l2 = l2
    l3 = l3
    l4 = l4
    None = None
    Req <- MCReqPair
    Loop <- MCLoopPair
    NAgents = 2
    MaxTick = 3
PROPERTIES
    StopQuiesces
    RunningTicks
    CallsEnd
CHECK_DEADLOCK FALSE
