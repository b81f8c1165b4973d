SPECIFICATION Spec
CONSTANTS
    None = None
    Word = Word
    Second = 1
    MaxTuningDuration = 300
    DurationMax = 100000
    BackoffCeiling = 300
    BatchTraces = 2
    MaxBufferedTraces = 3
    Builds <- MCBuilds
    MaxSessions = 2
INVARIANTS
    TypeOK
    ReportsAreTrue
    ReportingIsAllowed
PROPERTIES
    FullBatchesLeave
CHECK_DEADLOCK FALSE
