SPECIFICATION Spec
CONSTANTS
    Calls <- AllCalls
    LabelName <- Names
    ReservedName = "workload"
    MaxLabels = 2
    Unit = 4
    MaxCounter = 8
    MaxSample = 4
    MaxSeriesPerBatch = 1
    MaxTotalSeries = 1
    MaxEvents = 3
    MaxBatches = 2
INVARIANTS
    TypeOK
    ReportedIsMeasured
    UnreportedCounted
    OneEventPerSeries
    ReducedFaithfully
CHECK_DEADLOCK FALSE
