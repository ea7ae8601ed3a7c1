\* Three points on a circle of twelve positions, six prefilter cells, three tables.
SPECIFICATION Spec
CONSTANTS
    Grid = 12
    Dims = 1
    B = 2
    K = 2
    L = 3
    Probes = 1
    S <- LineAxes
    U <- LineOffsets
    Clouds <- ThreePoints
    Batches <- TwoQueries
    Ks = {1, 2}
    Radii = {0, 2}
    BlockSizes = {0, 1, 2}
    Workers = 1
    CellWidth = 2
    Prefiltered = TRUE
    BatchMin = 2
    Window = 1
    DeadRun = 2
    Slack = 1
INVARIANT KnnJoinAgrees
INVARIANT RadiusJoinAgrees
INVARIANT HitListsBounded
CHECK_DEADLOCK FALSE
