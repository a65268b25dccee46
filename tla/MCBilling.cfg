SPECIFICATION Spec

CONSTANTS
    s1 = s1
    s2 = s2
    s3 = s3
    k1 = k1
    Sessions = {s1, s2}
    Consoles = {k1}
    Fees = {1}
    MinFee = 1
    MaxFee = 1
    Commands = {"balance", "fee"}
    Money = {1}
    Opening <- MCOpening
    Batch = 2
    MaxCalls = 3
    MaxPaid = 1
    MaxReloads = 1
    MaxLost = 1

SYMMETRY Symmetry

INVARIANTS
    TypeOK
    OverdraftBounded
    BooksAgree
