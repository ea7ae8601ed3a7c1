\* Failing builds, rejected fits and a second thread, over up to two points.
SPECIFICATION FaultySpec
CONSTANTS
    Circumference = 2
    MaxPoints = 2
    SnapshotCap = 2
    DriftLimits = {1}
    Radii = {1}
    FitInputs <- MCFitInputs
    Configs <- FaultyConfigs
    NULL = NULL
    Threads = {t1, t2}
INVARIANT FaultsLeave
PROPERTIES
    NeverTunedOutlivesGrowth
    CallsAreAtomic
SYMMETRY ThreadsAlike
