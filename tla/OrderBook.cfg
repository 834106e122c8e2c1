CONSTANTS
    Capacity = 3
    MaxGeneration = 1
    AnchorPrice = 3
    BandRadius = 1
    GoodPrices = {2, 4, 5}
    MaxQty = 2
    QtyModulus = 16
    NewOrders <- MCNewOrders
    kMinPrice = 0
    kMaxPrice = 9
SPECIFICATION BookSpec
VIEW BookView
INVARIANTS
    BookTypeOK
    StructureIsSound
    BookIsUncrossed
    QueriesAgree
PROPERTIES
    FillsFollowPriority
    TimePriorityIsKept
    EventsAccountForQuantity
    ImplementsNaive
    SweepEnds
