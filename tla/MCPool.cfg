SPECIFICATION Spec

CONSTANTS
    c1 = c1
    c2 = c2
    c3 = c3
    Callers = {c1, c2, c3}
    NMain = 1
    NResp = 2
    MainMax = 1
    MainOverFlow = 2
    RespMax = 1
    RespOverFlow = 0
    MaxTries = 2
    UseRedis = FALSE
    EventTypes = {"MYSQL_INSERT_ID", "REDIS"}
    MaxQueries = 1

SYMMETRY CallerSymmetry

INVARIANTS
    PoolExact
    CallersNeverBlock
