SPECIFICATION Spec
CONSTANTS
    MaxChunks = 2
    MaxSwitches = 2
    MaxLogMishaps = 1
    MaxNow = 2
    MaxMutes = 2
    MaxPageLoads = 1
    MaxPageMishaps = 1
    Gate = {"g"}
    MaxDecisions = 2
    MaxMoves = 4
    MaxReadings = 2
    MaxApprovalMishaps = 1
    MaxStarts = 2
    MaxOrders = 2
    MaxServiceMishaps = 1
    Crontabs <- MCCrontabs
    MaxGapClock = 5
    ScanWindow = 5
    FireCap = 2
    Tolerance = 1
    DayLength = 2
    Ranges = {2, 4}
    MaxGapReads = 2
    MaxGapMishaps = 1
    Flow = {"w", "v"}
    Cron = "w"
    FireTimes = {1, 2}
    Grace = 0
    RunLimit = 2
    MaxBoardTime = 3
    MaxBoardRuns = 2
INVARIANTS
    NoMissIsHidden
    DeadSchedulerShows
PROPERTIES
    WholeLogShown
    GoesQuiet
    GatesAreSeen
    PageCatchesUp
CHECK_DEADLOCK FALSE
