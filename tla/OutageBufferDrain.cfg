SPECIFICATION FairSpec
CONSTANTS
    EventCount <- TwoBatches
    EstimatedBytes <- TwoBatches
    RetryQueueSize = 2
    BufferMaxEvents = 3
    BufferMaxBytes = 3
    BufferMaxAge = 2
    RetryBaseDelay = 1
    RetryMaxDelay = 2
    RetryJitter = 1
    BackoffMaxDelay = 2
    BackoffJitter = 1
    RecoveryJitter = 1
    ReplayInterval = 1
    GraceWindow = 2
    GraceRetryInterval = 2
    ClientKey = FALSE
    RetryAfters = {0, 2}
    CloseTimeouts = {1, 3}
    JoinMargin = 1
    MaxTime = 5
PROPERTY
    DrainTerminates
CHECK_DEADLOCK FALSE
