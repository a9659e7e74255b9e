SPECIFICATION CalendarSpec
CONSTANTS
    Day = 4
    MaxDate = 1
    MaxHolds = 3
    MaxUnits = 2
    LastRuleDate = 2
    Wins <- SomeWins
    LastInstant = 10
    Zones <- SomeZones
    MaxEntries = 3
    Person = 101
    Other = 102
INVARIANTS
    WindowsAreReadAlike
    PoolsAreCounted
    NarrowingOverlooksNothing
    EveryClashIsReportedOnce
    WritingADayMovesNobody
    AHopRunsWhatTwoRun
CHECK_DEADLOCK FALSE
