CONSTANTS
    Tickets = {t1, t2}
    Order <- MCOrder
    Guarded = {"events", "stock"}
    BackedOff = {"events"}
    Looking = {"lotto"}
    Overwriting = {"events"}
    MaxFaults = 2
    None = None
SPECIFICATION Spec
INVARIANTS
    OneCollectionAtATime
PROPERTIES
    RefusedNeverRuns
    SweepEnds
    MissedIsCovered
