SPECIFICATION Spec

CONSTANTS
    c1 = c1
    Callers = {c1}
    NMain = 2
    NResp = 1
    MainMax = 1
    MainOverFlow = 2
    RespMax = 1
    RespOverFlow = 1
    MaxTries = 1
    UseRedis = TRUE
    EventTypes = {"MYSQL", "REDIS"}
    MaxQueries = 2

INVARIANTS
    OwnAnswer
    TimeoutIsReal
    ListenersNeverBlock
    TypeOK

PROPERTIES
    CallbackStartsInTime
    QueryReturns
    MainQueuesDrain
    ImplementsService
