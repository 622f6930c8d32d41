SPECIFICATION Spec
CONSTANTS
    a = a
    b = b
    c = c
    v1 = v1
    v2 = v2
    None = None
    All = All
    Keys = {a, b, c}
    Ids = {v1, v2}
    FirstDefs <- MCDefs
    FirstPlace <- MCPlace
    ChannelOf <- MCChannel
    Foreign = {v2}
    MaxRuns = 1
    MaxActs = 2
INVARIANTS
    LastWordStands
PROPERTIES
    ExclusionsReachCollection
CHECK_DEADLOCK FALSE
