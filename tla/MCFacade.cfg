\* Histories of fit, update, promote and queries over up to three points.
SPECIFICATION Spec
CONSTANTS
    Circumference = 4
    MaxPoints = 3
    SnapshotCap = 2
    DriftLimits = {1, 2}
    Radii = {1}
    FitInputs <- MCFitInputs
    Configs <- MCConfigs
    NULL = NULL
INVARIANT ImplInSync
INVARIANT SnapshotFitsTier
INVARIANT DriftWithinLimit
INVARIANT GrowthWithinLimit
INVARIANT ModeFollowsThresholds
PROPERTY ImplementsIndex
