SPECIFICATION Spec
CONSTANTS
    EventCount <- MixedCount
    EstimatedBytes <- MixedBytes
    RetryQueueSize = 2
    BufferMaxEvents = 4
    BufferMaxBytes = 4
    BufferMaxAge = 2
    RetryBaseDelay = 1
    RetryMaxDelay = 2
    RetryJitter = 1
    BackoffMaxDelay = 2
    BackoffJitter = 1
    RecoveryJitter = 2
    ReplayInterval = 1
    GraceWindow = 2
    GraceRetryInterval = 2
    ClientKey = FALSE
    RetryAfters = {0, 2}
    CloseTimeouts = {2}
    JoinMargin = 1
    MaxTime = 5
INVARIANTS
    TypeOK
    BufferInStep
    RecoveryMeansBacklog
PROPERTIES
    WaitsAsAsked
    EvictsOldest
    UndeliveredNamed
    KeepsCustody
CHECK_DEADLOCK FALSE
