SPECIFICATION Spec
CONSTANTS
    t1 = t1  t2 = t2  r1 = r1  c1 = c1
    a = a  b = b  w1 = w1  w2 = w2  x1 = x1  x2 = x2
    Transfers = {t1, t2}
    Receipts = {r1}
    Counts = {c1}
    NoDoc = NoDoc
    Skus = {a, b}
    Warehouses = {w1, w2}
    Tx = {x1, x2}
    Uncounted = Uncounted
    Opening <- MCOpening
    Reserved <- MCReserved
    Quantities <- MCQuantities
    Units = {0, 1, 2}
    Deltas <- MCDeltas
    Kinds <- AllKinds
    MaxRequests = 5
SYMMETRY Interchangeable
INVARIANTS TypeOK GoodsConserved IncomingIsOwed
PROPERTIES ClosedStaysClosed PostFindsCounted
CHECK_DEADLOCK FALSE
