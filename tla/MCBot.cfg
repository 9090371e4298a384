SPECIFICATION Spec
CONSTANTS
    Orders <- MCOrders
    MaxOrderSize = 2
    MaxPositionSize = 2
    MaxTries = 3
    MaxCalls = 3
    MaxFaults = 3
INVARIANTS
    CatalogueHolds
    OncePerUid
    CapHolds
PROPERTIES
    FlatIsFlat
CHECK_DEADLOCK FALSE
