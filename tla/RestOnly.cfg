CONSTANTS
    Capacity = 3
    MaxGeneration = 1
    AnchorPrice = 3
    BandRadius = 1
    GoodPrices = {2, 3, 4, 5}
    MaxQty = 2
    QtyModulus = 16
    NewOrders <- MCLimits
    kMinPrice = 0
    kMaxPrice = 9
SPECIFICATION RestOnlySpec
VIEW BookView
INVARIANTS
    StructureIsSound
PROPERTY
    RestingImplementsNaive
