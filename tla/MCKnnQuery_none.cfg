\* exclude_ids of -1 with as many neighbours asked as there are points.
SPECIFICATION Spec
CONSTANTS
    Grid = 4
    Dims = 1
    B = 2
    K = 2
    L = 2
    Probes = 1
    S <- CircleAxes
    U <- CircleOffsets
    Clouds <- TwoOnACircle
    Queries <- Positions
    MaxK = 2
    Excludes <- NoneExclude
    NULL = NULL
INVARIANT PaddedOnlyWhenFewer
CHECK_DEADLOCK FALSE
