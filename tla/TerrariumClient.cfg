SPECIFICATION FairSpec
CONSTANTS
    MaxSession = 2
    MaxSocket = 2
    MaxCall = 2
    Limit = 9
    Recent = 1
    MaxTicks = 2
    MaxInputs = 2
INVARIANTS
    TypeOK
    OneLiveSocket
    OnceAndNewestFirst
    NobodyWaitsInVain
PROPERTY
    StateCatchesUp
CHECK_DEADLOCK FALSE
