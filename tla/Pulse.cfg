CONSTANTS
    Issues <- MCIssues
    Scope <- MCScope
    PerSymbolCap = 1
    DailyCap = 2
    MacroCap = 1
    Severities = {1, 2}
    DedupWindow = 3
    Days = 2
    MaxAlerts = 3
    MaxDigests = 2
    MaxFaults = 1
SPECIFICATION Spec
INVARIANTS
    CapsHold
