\* A fit rejected for its k or radius hint.
SPECIFICATION FaultySpec
CONSTANTS
    Circumference = 4
    MaxPoints = 3
    SnapshotCap = 1
    DriftLimits = {1, 2}
    Radii = {1}
    FitInputs <- MCFitInputs
    Configs <- MCConfigs
    NULL = NULL
    Threads = {t1, t2}
PROPERTY RejectedFitAnswersAsBefore
