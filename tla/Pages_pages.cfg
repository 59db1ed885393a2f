SPECIFICATION Spec
CONSTANTS
    MaxClock = 3
    Limit = 1
    MaxBellMishaps = 1
    MaxTroubles = 1
    MaxReads = 2
    Row <- MCRow
    DayOfRow <- MCDayOfRow
    MaxDelay = 2
    MaxListReads = 2
    MaxListMishaps = 1
INVARIANTS
    ReadWasShown
    OwnCardIsTrue
PROPERTIES
    BadgeSettles
    SettlesOnScreen
    LiveRowsSettle
CHECK_DEADLOCK FALSE
