CONSTANTS
    Weeks = 3
    MaxFaults = 2
    N = 6
    Pick = 3
    SetCount = 2
    HitWeights <- MCHitWeights
    Draws = {{1, 2, 3}, {1, 2, 4}, {4, 5, 6}}
    MaxSteps = 2
    MaxAsks = 2
SPECIFICATION MCSpec
INVARIANTS
    CumulativeIsSum
    BuiltAsAsked
PROPERTIES
    PicksStand
    ScoresReachAgent
CHECK_DEADLOCK FALSE
