CONSTANTS
    Issues <- OneIssue
    Scope <- OneScope
    PerSymbolCap = 2
    DailyCap = 2
    MacroCap = 1
    Severities = {1}
    DedupWindow = 0
    Days = 3
    MaxAlerts = 2
    MaxDigests = 2
    MaxFaults = 1
SPECIFICATION Spec
INVARIANTS
    DeliveredOnce
PROPERTIES
    QueuedLeaves
