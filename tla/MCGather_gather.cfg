SPECIFICATION Spec
CONSTANTS
    None = None
    Gap = Gap
    NotFinite = NotFinite
    Second = 1
    MaxTuningDuration = 300
    BackoffCeiling = 300
    DurationMax = 100000
    MaxDwell = 300
    FleetConfig <- MCConfig
    Earliest <- MCEarliest
    Namings <- MCNamings
    Histories <- MCHistories
    Batches <- MCBatches
    Faults <- MCFaults
    Mean <- MCMean
    MaxClock = 1
    MaxCalls = 2
INVARIANTS
    RosterIsTrue
    SeriesStayApart
    ValuesAreTheAgents
PROPERTIES
    EveryCallEnds
CHECK_DEADLOCK FALSE
