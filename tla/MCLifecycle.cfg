SPECIFICATION FairSpec

CONSTANTS
    c1 = c1
    Callers = {c1}
    NMain = 2
    NResp = 1
    MainSize = 2
    MaxTries = 1
    MaxQueries = 1
    MaxLoads = 2
    MaxAlive = 1

INVARIANTS
    TypeOK
    DeadUseExplained
    Drained

PROPERTIES
    UnloadReturns
    TasksEnd
