SPECIFICATION Spec
CONSTANTS
    big = big
    rival = rival
    i1 = i1
    i2 = i2
    i3 = i3
    shirt = shirt
    cap = cap
    main = main
    store = store
    NoWarehouse = NoWarehouse
    Orders = {big, rival}
    Items = {i1, i2, i3}
    Skus = {shirt, cap}
    Warehouses = {main, store}
    Central = main
    Tx = {t1}
    ItemsOf <- MCItemsOf
    SkuOf <- MCSkuOf
    QtyOf <- MCQtyOf
    Opening <- MCOpening
    Kinds = {"create", "cancel", "reinstate"}
    MaxRequests = 4
    MaxRestocks = 0
PROPERTIES ReinstatedMeansHeld
CHECK_DEADLOCK FALSE
