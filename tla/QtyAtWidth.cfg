CONSTANTS
    Capacity = 2
    MaxGeneration = 1
    AnchorPrice = 3
    BandRadius = 1
    GoodPrices = {3}
    MaxQty = 3
    QtyModulus = 4
    NewOrders <- MCNewOrders
    kMinPrice = 0
    kMaxPrice = 9
SPECIFICATION BookSpec
VIEW BookView
INVARIANT
    QtyAtAgrees
