SPECIFICATION Spec
CONSTANTS
    None = None
    Gap = Gap
    Blank = Blank
    NotANumber = NotANumber
    Bad = Bad
    Second = 2
    Urnlike = {}
    Text <- MCText
    HeaderMap <- MCHeaderMap
    AttributeMap <- MCAttributeMap
    Spaced <- MCSpaced
    Machines <- MCMachines
    DetectedName = "localhost"
    Reported = {"CpuUtilization", "MemoryUsage", "FilesystemUsage", "NetworkIo", "Temperature"}
    CycleTime = 1
    MaxClock = 9
    MaxFailures = 3
    Scenarios <- MCScenarios
    MaxSetups = 2
INVARIANTS
    TypeOK
    PreviousConfigSurvives
    SetupIsServed
    BatchIsOnePicture
    ReportsStayApart
PROPERTIES
    SetupKeepsTheHost
    HeartbeatsGrow
CHECK_DEADLOCK FALSE
