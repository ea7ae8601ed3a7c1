\* Tiers of up to four entries over three keys; five candidates, three slots; rows of
\* up to four points; the sizes of the stateless tasks are in MCAlgorithms.
SPECIFICATION AlgorithmSpec
CONSTANTS
    MaxKey = 2
    MaxLen = 4
    Tiers <- MCTiers
    Capacity = 3
    Candidates <- MCCandidates
    MaxDist = 2
    Excluded = 1
    Dedupes = TRUE
    RowLength = 4
    Farthest = 2
    MostAsked = 3
    Grid = 4
    Dims = 1
    B = 2
    K = 2
    L = 2
    Probes = 1
    S <- CircleAxes
    U <- CircleOffsets
    Budget = 6
    PairwiseMax = 32
    Walls = 2
    MaxTables = 3
    DefaultProbes = 2
    DeepProbes = 3
    AutoTables = 2
    Depths = 2
    Waste = 1
    Parts = 4
    AutoProbes = AutoProbes
    Smallest = 1
    BrutePython = 6
    Bands <- MCBands
    Unset = Unset
INVARIANT EntriesPlaced
INVARIANT MergeAgrees
INVARIANT HoldsNearest
INVARIANT ScansAgree
INVARIANT RowsKeepTheirPlace
INVARIANT SeparationIsMaximin
INVARIANT LanesAddInOrder
INVARIANT HitRatesCount
INVARIANT PlansMeetGoals
INVARIANT ThresholdsRoute
INVARIANT RecallsAgree
INVARIANT ArmsCorruptAsNamed
INVARIANT DriversKeepTheirPicture
PROPERTY ImplementsTopK
CHECK_DEADLOCK FALSE
