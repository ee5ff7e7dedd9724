SPECIFICATION Spec
CONSTANTS
    pkg1 = pkg1
    pkg2 = pkg2
    ord = ord
    shirt = shirt
    main = main
    store = store
    NoWarehouse = NoWarehouse
    NoOrder = NoOrder
    Lists = {pkg1, pkg2}
    Orders = {ord}
    Skus = {shirt}
    Warehouses = {main, store}
    Tx = {t1, t2}
    Packed <- MCPacked
    Contents = {0, 1}
    OrderOf <- MCOrderOf
    OrderHeld <- MCOrderHeld
    Opening <- MCOpening
    ShipsFrom <- MCShipsFrom
    Kinds = {"confirm", "releaseHold"}
    MaxRequests = 3
INVARIANTS MovesOnce
CHECK_DEADLOCK FALSE
