\* Four tables of three digits over a circle of four positions, up to three points.
SPECIFICATION Spec
CONSTANTS
    Grid = 4
    Dims = 1
    B = 2
    K = 3
    L = 4
    Probes = 2
    S <- CircleAxes
    U <- CircleOffsets
    Clouds <- ThreeOnACircle
    Queries <- Positions
    MaxK = 2
    Excludes <- AnyExclude
    NULL = NULL
INVARIANT BucketMatesRanked
INVARIANT PrefixRanges
INVARIANT RelaxationFloor
PROPERTY Answered
CHECK_DEADLOCK FALSE
