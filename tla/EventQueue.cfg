SPECIFICATION Spec
CONSTANTS
    Producers = {p1, p2}
    Closers = {c1}
    NoCloser = NoCloser
    Kinds = {"short", "long"}
    EventWireSize <- MCEventWireSize
    SeriesKey <- MCSeriesKey
    DefinitionWireSize <- MCDefinitionWireSize
    QueueSize = 2
    MaxBatchSize = 2
    MaxBatchBytes = 4
    MaxBatchSeries = 2
    MaxCalls = 2
INVARIANTS
    TypeOK
    QueueOvershoot
    CloseIsSeen
    DrainCovers
    TransportClosedLast
PROPERTY
    HandsOverInOrder
SYMMETRY Threads
CHECK_DEADLOCK FALSE
