\* One message of RabbitMQ and two entries of the stream, of every kind.
SPECIFICATION FairSpec
CONSTANTS
    Rmq = {r1}
    Stream = {e1, e2}
    MaxFaults = 2
INVARIANTS
    SettledWasHandled
    HandledAgainForFaultsOnly
PROPERTY
    IntakeDrains
CHECK_DEADLOCK FALSE
