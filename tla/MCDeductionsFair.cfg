SPECIFICATION FairSpec

CONSTANTS
    p1 = p1
    u1 = u1
    u2 = u2
    Writers = {p1}
    Users = {u1, u2}
    NULL = NULL
    NQueues = 2
    QueueMax = 1
    Batch = 3
    MaxWrites = 4
    MaxErrors = 0

PROPERTIES
    EventuallyCharged
    LocksReleased
    UninitReturns
