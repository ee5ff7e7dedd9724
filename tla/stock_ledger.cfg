SPECIFICATION FairSpec
CONSTANTS
    a = a
    b = b
    p = p
    NoTx = NoTx
    Levels = {a, b}
    Products = {p}
    Tx = {t1, t2}
    ProductOf <- MCProductOf
    Requests <- MCRequests
    MaxRequests = 5
INVARIANTS TypeOK ReservedIsCovered LedgerExplainsLevels
PROPERTIES ServedWhole RequestsEnd
CHECK_DEADLOCK FALSE
