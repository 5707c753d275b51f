SPECIFICATION FairSpec
CONSTANTS
    Sim = {s1, s2}
    Conn = {c1, c2}
    Task = {t1}
    Loop = {t1}
    None = None
    MaxEvents = 1
    SnapshotLimit = 1
    MaxEmits = 1
    MaxRequests = 1
PROPERTY
    LostIsForgotten
CHECK_DEADLOCK FALSE
