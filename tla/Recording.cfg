SPECIFICATION Spec
CONSTANTS
    Threads = {t1, t2}
    MaxQueue = 1
    MaxPerSecond = 1
    LogInterval = 2
    Second = 2
    MaxCalls = 4
    MaxTime = 4
SYMMETRY AnyThread
INVARIANTS
    TypeOK
    EveryCallAccounted
    CapPerSecond
    WarningsPaced
PROPERTIES
    RefusedOnlyAtCap
    LossAnnounced
CHECK_DEADLOCK FALSE
