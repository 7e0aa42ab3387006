SPECIFICATION Spec
CONSTANTS
    Producers = {p1}
    Closers = {c1}
    NoCloser = NoCloser
    Kinds = {"short", "long"}
    EventWireSize <- MCEventWireSize
    SeriesKey <- MCSeriesKey
    DefinitionWireSize <- MCDefinitionWireSize
    QueueSize = 2
    MaxBatchSize = 2
    MaxBatchBytes = 4
    MaxBatchSeries = 2
    MaxCalls = 1
INVARIANT
    OrderlyCloseLeavesNothing
CHECK_DEADLOCK FALSE
