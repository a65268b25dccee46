SPECIFICATION Spec

CONSTANTS
    DayLen = 6
    Retry = 1
    MaxLag = 1
    Outage = 2
    LoadBefore = 6
    MaxDay = 4
    MaxWrites = 1

INVARIANTS
    TypeOK
    NoTwoDaysSkipped
