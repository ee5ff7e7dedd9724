SPECIFICATION FairSpec
CONSTANTS
    a = a
    b = b
    p = p
    NoTx = NoTx
    Levels = {a, b}
    Products = {p}
    Tx = {t1, t2}
    ProductOf <- MCProductOf
    Requests <- ReceiptsOnly
    MaxRequests = 2
INVARIANTS MirrorInStep
CHECK_DEADLOCK FALSE
