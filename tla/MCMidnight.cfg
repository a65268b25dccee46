SPECIFICATION Spec

CONSTANTS
    DayLen = 8
    Retry = 1
    MaxLag = 1
    Outage = 0
    LoadBefore = 8
    MaxDay = 3
    MaxWrites = 2

INVARIANT
    NoDayLeftOut
