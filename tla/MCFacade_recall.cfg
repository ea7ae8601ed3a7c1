\* What expected_recall says after the index went back to exact.
SPECIFICATION Spec
CONSTANTS
    Circumference = 4
    MaxPoints = 3
    SnapshotCap = 1
    DriftLimits = {1, 2}
    Radii = {1}
    FitInputs <- MCFitInputs
    Configs <- MCConfigs
    NULL = NULL
INVARIANT RecallOnlyWhenPlanned
