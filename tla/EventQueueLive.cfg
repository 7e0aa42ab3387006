SPECIFICATION FairSpec
CONSTANTS
    Producers = {p1}
    Closers = {c1, c2}
    NoCloser = NoCloser
    Kinds = {"other"}
    EventWireSize <- MCEventWireSize
    SeriesKey <- MCSeriesKey
    DefinitionWireSize <- MCDefinitionWireSize
    QueueSize = 2
    MaxBatchSize = 2
    MaxBatchBytes = 4
    MaxBatchSeries = 1
    MaxCalls = 2
PROPERTIES
    CloseReturns
    EverythingHanded
CHECK_DEADLOCK FALSE
