CONSTANTS
    NumSlots = 2
    CloseSlots = {1}
    MaxDays = 2
    MaxFaults = 1
    Home = {"a", "b"}
    Away = {"x"}
    MaxEdits = 1
SPECIFICATION MCSpec
INVARIANTS
    OutageStaysOpen
