SPECIFICATION MCSpec
CONSTANTS
    DayLength = 3
    MaxTime = 4
    Schedules <- MCSchedules
    BackoffBase = 1
    BackoffMax = 2
    MaxFaults = 1
    MaxEdits = 2
    None = None
    Events = {"e", "f"}
    GapDays = 2
    ShowDays = 1
    Retention = 3
    LastDay = 7
    MaxRuns = 5
    MaxLosses = 1
    Venues = {"v", "w"}
    Titles = {"t", "u"}
    YearLength = 5
    Today = {4, 5}
INVARIANTS
    CoveredMeansCollected
    BackoffTellsTruth
    NewMeansNew
    BoardStandsUp
CHECK_DEADLOCK FALSE
