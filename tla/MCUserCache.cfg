SPECIFICATION Spec

CONSTANTS
    c1 = c1
    k1 = k1
    r1 = r1
    u1 = u1
    n1 = n1
    Callers = {c1}
    Consoles = {k1}
    Reloaders = {r1}
    Users = {u1}
    Numbers = {n1}
    NULL = NULL
    ValueOf <- MCValueOf
    Commands = {"create", "status", "num_add", "num_del"}
    Gap = 3
    MaxLoad = 1
    MaxOp = 1
    MaxPools = 3
    MaxCommands = 2

INVARIANTS
    TypeOK
    PoolsInUseLive
    CacheMatchesDb
