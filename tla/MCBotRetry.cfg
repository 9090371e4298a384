SPECIFICATION Spec
CONSTANTS
    Orders <- MCOrders
    MaxOrderSize = 2
    MaxPositionSize = 2
    MaxTries = 3
    MaxCalls = 1
    MaxFaults = 3
INVARIANTS
    RetryPlacesOnce
CHECK_DEADLOCK FALSE
