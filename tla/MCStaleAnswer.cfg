SPECIFICATION Spec

CONSTANTS
    c1 = c1
    c2 = c2
    Callers = {c1, c2}
    NMain = 1
    NResp = 2
    MainMax = 1
    MainOverFlow = 2
    RespMax = 2
    RespOverFlow = 0
    MaxTries = 1
    UseRedis = FALSE
    EventTypes = {"MYSQL"}
    MaxQueries = 3

SYMMETRY CallerSymmetry

INVARIANTS
    OwnAnswer
