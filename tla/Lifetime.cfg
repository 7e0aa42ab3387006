SPECIFICATION Spec
CONSTANTS
    Processes <- ParentAndChild
    Events = {1, 2}
    MaxSockets = 2
CONSTRAINT
    Bounded
INVARIANTS
    TypeOK
    StoredOnce
    AnswerIsMine
    SocketsNotShared
    ChildIsHealthy
    OrderlyExitDelivers
PROPERTIES
    NotTornDown
CHECK_DEADLOCK FALSE
