CONSTANTS
    Capacity = 3
    MaxGeneration = 2
SPECIFICATION Spec
INVARIANTS
    PoolIsSound
    HeldIdFindsOnlyItsOrder
