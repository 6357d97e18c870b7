SPECIFICATION Spec
CONSTANTS
    MaxRequests = 3
    MaxBreaks = 2
INVARIANTS
    TypeOK
    AnswersInOrder
    GracefulStop
PROPERTIES
    ResultsKept
    PendingResent
    ServerStops
    ImplementsSafety
