\* Every configuration, every step of the start failing or not.
CONSTANTS
    Interval = 10
    JoinTimeout = 5
SPECIFICATION Spec
INVARIANTS
    EverythingIsReleased
    LoopsEndBeforeTheirLlm
    DeliveriesFindManagers
CHECK_DEADLOCK FALSE
