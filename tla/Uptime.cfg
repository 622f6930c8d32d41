SPECIFICATION MCSpec
CONSTANTS
    MaxTime = 5
    DayLength = 4
    Slots = {2}
    CaughtUp = {}
    QuietTimes = {4}
    Records <- MCRecords
    MaxFaults = 3
    MaxEdits = 1
    MaxTries = 1
    MaxMinute = 11
    MaxMishaps = 2
    MaxEvents = 2
INVARIANTS
    AccountIsHonest
    SleepIsShown
PROPERTIES
    OutagesRecorded
    LossStands
CHECK_DEADLOCK FALSE
