\* Four tables and a self-join: is the row always full?
SPECIFICATION Spec
CONSTANTS
    Grid = 4
    Dims = 1
    B = 2
    K = 2
    L = 4
    Probes = 1
    S <- CircleAxes
    U <- CircleOffsets
    Clouds <- TwoOnACircle
    Queries <- Positions
    MaxK = 2
    Excludes <- SelfExclude
    NULL = NULL
INVARIANT StructurallyFull
CHECK_DEADLOCK FALSE
