SPECIFICATION Spec

CONSTANTS
    k1 = k1
    r1 = r1
    u1 = u1
    n1 = n1
    Callers = {}
    Consoles = {k1}
    Reloaders = {r1}
    Users = {u1}
    Numbers = {n1}
    NULL = NULL
    ValueOf <- MCValueOf
    Commands = {"num_add"}
    Gap = 3
    MaxLoad = 1
    MaxOp = 1
    MaxPools = 4
    MaxCommands = 1

INVARIANTS
    EntriesLive
