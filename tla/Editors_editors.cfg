SPECIFICATION Spec
CONSTANTS
    Text <- MCText
    Form <- MCForms
    TooLong = {"long"}
    Words = {"x", "5"}
    Numbers = {"5"}
    DayText <- MCDayText
    MaxFills = 2
    MaxSaves = 1
    Other = {"o"}
    Resource = {"db", "bd"}
    Alike <- MCAlike
    ParameterName = {"n", "m"}
    Reserved = {"now"}
    DraftText = {"", "5", "long"}
    HelpText = {"", "long"}
    MaxParameters = 2
    MaxChoices = 1
    OptionLists <- MCOptionLists
    MaxChanges = 2
    MaxOtherSaves = 1
    TaskId = {1, 2, 3}
    TaskName = {"a", "b", "c"}
    TaskType = {"shell", "sql"}
    OthersTasks <- MCOthersTasks
    MaxBoxes = 2
    MaxTaskReads = 1
    MaxTaskWrites = 2
    DayUnits = 6
    WeekDays = 3
    Zones <- MCZones
    Snap = 3
    InputTimes = {4}
    MaxWindows = 2
    FirstDay = 3
    HourUnits = 3
    MonthDays = 4
    Shift = 3
    CronHorizon = 25
    CronFields <- MCCronFields
    WalkFrom <- MCWalkFrom
    WalkUntil = 40
    StoredCrons <- MCStoredCrons
    TypedCrons <- MCTypedCrons
    MinutePresets = {1, 2}
    MaxEdits = 2
INVARIANTS
    RunsAsShown
    ShownIsTheSchedule
    NextFireIsTheServers
    RoundTripKeepsTheSchedule
PROPERTIES
    EditorKeepsItsWord
    TasksRunAsListed
CHECK_DEADLOCK FALSE
