SPECIFICATION Spec
CONSTANTS
    r1 = r1
    r2 = r2
    r3 = r3
    l1 = l1
    l2 = l2
    l3 = l3
    l4 = l4
    None = None
    Req <- MCReq
    Loop <- MCLoop
    NAgents = 2
    MaxTick = 3
SYMMETRY MCSymmetry
INVARIANTS
    TypeOK
    TickMutex
    TickIsolated
    RegisteredTaskLives
    RunningIsDriven
    LoopsBoundedByRequests
PROPERTIES
    NobodyOvertakes
    
    ImplementsSession
CHECK_DEADLOCK FALSE
