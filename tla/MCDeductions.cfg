SPECIFICATION Spec

CONSTANTS
    p1 = p1
    p2 = p2
    u1 = u1
    u2 = u2
    Writers = {p1, p2}
    Users = {u1, u2}
    NULL = NULL
    NQueues = 2
    QueueMax = 2
    Batch = 2
    MaxWrites = 2
    MaxErrors = 2

SYMMETRY WriterUserSymmetry

INVARIANTS
    TypeOK
    ChargedOnce
    FlushedAtUnload
    LossBounded

PROPERTIES
    ImplementsLedger
