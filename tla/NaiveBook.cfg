CONSTANTS
    Ids <- MCIds
    QtyModulus = 16
    NewOrders <- MCNewOrders
SPECIFICATION Spec
INVARIANT
    IndexMatchesLevels
