SPECIFICATION Spec
CONSTANTS
    Blocks <- MCBlocks
    MaxHeight = 3
    MaxMined = 2
    MaxReverts = 1
    MaxFaults = 2
    MaxRange = 2
INVARIANTS
    AnsweredPauseFreezes
CHECK_DEADLOCK FALSE
