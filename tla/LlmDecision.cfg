\* Two decisions in a row, every answer, and the fairness of the request.
CONSTANTS
    MaxAttempts = 3
    MaxDecisions = 2
SPECIFICATION FairSpec
INVARIANTS
    ComplaintsAreAboutTheLastAnswer
PROPERTIES
    ImplementsCalls
    DecisionsEnd
CHECK_DEADLOCK FALSE
