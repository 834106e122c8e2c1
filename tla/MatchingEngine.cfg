CONSTANTS
    Capacity = 2
    MaxGeneration = 2
    AnchorPrice = 3
    BandRadius = 1
    GoodPrices = {2, 5}
    MaxQty = 2
    MaxCommands = 4
    NewOrders <- MCNewOrders
    kMinPrice = 0
    kMaxPrice = 9
SPECIFICATION EngineSpec
VIEW EngineView
INVARIANTS
    CountersAgree
    OpenOrdersAreExplained
PROPERTY
    EventsReportOpenQty
