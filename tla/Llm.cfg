CONSTANTS
    Tickets = {t1, t2, t3}
    Procs = {p1, p2}
    NoProc = NoProc
    MaxDepth = 2
    Models = {gpt, gptOld, opus}
    CodexModels = {gpt, gptOld}
    FallbackModel = opus
    DefaultModel = gpt
    NoModel = NoModel
    Retries = 2
    MaxResults = 2
    Budget = 5
    TickLength = 2
    Ceiling = 10
    NoiseFloor = 1
    NoiseShare = 4
    MaxTime = 12
    Senders = {s1, s2}
    Grants = {g1, g2, g3, g4}
    NoGrant = NoGrant
    MaxAttempts = 2
    MaxFaults = 2
SPECIFICATION MCSpec
INVARIANTS
    NoLeakedAssertion
    AnswerIsGenuine
    ChoiceSurvivesFallback
    AwakeIsCharged
PROPERTIES
    IsFifoLock
    QueryEnds
    AlwaysStops
    DeadAccountRecovers
