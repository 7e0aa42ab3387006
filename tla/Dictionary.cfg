SPECIFICATION Spec
CONSTANTS
    Processes = {p1, p2}
    FirstProcess = p1
    Series = {s1, s2, s3, s4}
    Batches <- SmallBatches
    MaxSeries = 2
    MaxSessions = 2
INVARIANTS
    TypeOK
    AttributedRight
    DictionaryAgrees
    SessionsNotShared
    RestartResolves
    DictionaryBounded
SYMMETRY Alike
CHECK_DEADLOCK FALSE
