SPECIFICATION Spec
CONSTANTS
    Sim = {s1}
    Conn = {c1, c2}
    Task = {t1, t2}
    Loop = {t1, t2}
    None = None
    MaxEvents = 2
    SnapshotLimit = 1
    MaxEmits = 2
    MaxRequests = 1
SYMMETRY MCSymmetry
INVARIANTS
    TypeOK
    NewsOnceUnlessCancelled
PROPERTY
    ImplementsFeed
CHECK_DEADLOCK FALSE
