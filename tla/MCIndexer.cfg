SPECIFICATION Spec
CONSTANTS
    Blocks <- MCBlocks
    MaxHeight = 3
    MaxMined = 2
    MaxReverts = 1
    MaxFaults = 2
    MaxRange = 2
INVARIANTS
    CaughtUpIsExact
    PauseFreezes
PROPERTIES
    CatchesUp
CHECK_DEADLOCK FALSE
