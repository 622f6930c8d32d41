SPECIFICATION MCSpec
CONSTANTS
    Days <- MCDays
    Hours <- MCHours
    Written <- MCWritten
    EnvTimes <- MCEnvTimes
    Probes <- MCProbes
    MaxEdits = 3
    Pages = {p1, p2}
    EnvHours = {0, 2}
    MaxSaves = 2
    MaxFaults = 1
SYMMETRY PageSymmetry
INVARIANTS
    SearchFindsRuns
    ShownCanBeSaved
    FlushAtQuietEnd
PROPERTIES
    NobodyElsesEdit
CHECK_DEADLOCK FALSE
