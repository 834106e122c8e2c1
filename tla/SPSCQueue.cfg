CONSTANTS
    Capacity = 4
    Values = {"a", "b"}
    BatchSizes = {1, 3}
    MaxPushes = 7
SPECIFICATION Spec
INVARIANTS
    TypeOK
    NoDataRace
    Fifo
    CachesAreSafe
PROPERTIES
    HighWaterBoundsPeak
    EveryPushIsPopped
    ImplementsFifo
