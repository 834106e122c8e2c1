CONSTANTS
    Capacity = 3
    MaxGeneration = 2
    AnchorPrice = 1
    BandRadius = 1
    MaxCommands = 4
    NewOrders = {}
    kMinPrice = 0
    kMaxPrice = 9
    OpMix = {"limit", "market", "ioc", "cancel"}
    MinOrderQty = 1
    MaxOrderQty = 2
    MaxPriceOffset = 1
    MaxWalkStep = 1
    WalkRadius = 1
SPECIFICATION GenSpec
VIEW GenView
CHECK_DEADLOCK FALSE
INVARIANTS
    TrackingIsExact
    StreamIsValid
