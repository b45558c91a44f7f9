SPECIFICATION Spec
CONSTANTS
    KBlocks = 2
    MaxProducts = 2
    MaxMoves = 2
INVARIANTS
    MatmulWhole
    WeightsFound
    ShiftsBounded
    KernelsAgree
CHECK_DEADLOCK FALSE
