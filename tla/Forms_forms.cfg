SPECIFICATION Spec
CONSTANTS
    MaxNotes = 2
    MaxTexts = 1
    MaxNoteMishaps = 1
    MaxFiles = 2
    MaxLines = 2
    PlanTask = {"a", "b"}
    MaxClicks = 3
    MaxPlanMishaps = 1
    Event = {"e", "f"}
    Presets = {1, 2}
    MaxAge = 2
    MaxSaves = 3
    MaxSettingMishaps = 1
    MaxSessions = 2
    MaxTailLines = 1
    MaxInFlight = 2
    MaxLists = 1
    MaxTailMishaps = 1
    MaxRuns = 2
    MaxTime = 1
    Pass = {"scheduled", "by_hand"}
    BatchSize = 1
    Notebook = {1, 2}
    MaxTries = 2
    MaxFlowRuns = 3
    MaxViews = 1
    MaxReportMishaps = 1
INVARIANTS
    NothingTypedIsLost
    ClaimsHold
    PlanIsOfTheChoice
    LogIsOfTheRun
    ReportIsTheRows
PROPERTIES
    CleanupSpares
    DeletionAnnounced
CHECK_DEADLOCK FALSE
