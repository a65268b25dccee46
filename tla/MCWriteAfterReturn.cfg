SPECIFICATION Spec

CONSTANTS
    c1 = c1
    Callers = {c1}
    NMain = 1
    NResp = 2
    MainMax = 1
    MainOverFlow = 2
    RespMax = 1
    RespOverFlow = 0
    MaxTries = 1
    UseRedis = FALSE
    EventTypes = {"MYSQL"}
    MaxQueries = 1

INVARIANTS
    NoWriteAfterReturn
