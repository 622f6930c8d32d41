SPECIFICATION Spec
CONSTANTS
    Repos = {1, 2}
    NamedBranch = {1}
    Cap = 2
    Reserve = 1
    Workers = 2
    None = None
    DayLength = 2
    CycleLength = 4
    RankSize = 1
    MaxRounds = 1
    MaxTime = 7
    Worlds <- MCWorlds
INVARIANTS
    CoveredMeansRecorded
    EntriesTellTruth
    MailedOncePerCycle
CHECK_DEADLOCK FALSE
