SPECIFICATION Spec
CONSTANTS
    big = big
    rival = rival
    i1 = i1
    i2 = i2
    i3 = i3
    shirt = shirt
    cap = cap
    main = main
    store = store
    NoWarehouse = NoWarehouse
    Orders = {big, rival}
    Items = {i1, i2, i3}
    Skus = {shirt, cap}
    Warehouses = {main, store}
    Central = main
    Tx = {t1, t2}
    ItemsOf <- MCItemsOf
    SkuOf <- MCSkuOf
    QtyOf <- MCQtyOf
    Opening <- MCOpening
    Kinds <- AllKinds
    MaxRequests = 5
    MaxRestocks = 1
INVARIANTS TypeOK ReservedMatchesHolds GoodsLeaveOnceShipped
PROPERTIES PlacedMeansHeld CancelFreesEverything
CHECK_DEADLOCK FALSE
