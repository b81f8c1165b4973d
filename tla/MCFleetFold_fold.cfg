CONSTANTS
    None = None
    Second = 2
    MaxTuningDuration = 600
    BackoffCeiling = 600
    DurationMax = 200000
    NotFinite = NotFinite
    MaxDwell = 600
    MaxCount = 1000
    UnusableNames = {"", "::"}
    Hosts = {1, 2}
    Records <- MCRecords
    FirstRecord <- MCFirst
    Weathers <- MCWeathers
    Outages <- MCOutages
    Delays = {0, 5, 8, 18}
    MaxPolls = 4
    MaxDisturbances = 2
SPECIFICATION Spec
INVARIANTS
    TypeOK
    DwellIsWatched
    NotificationsAddUp
    VerdictsHaveEvidence
    ScreenIsTrue
PROPERTIES
    AdvisedWaitKeepsDwell
    UnseenIsNotJudged
CHECK_DEADLOCK FALSE
