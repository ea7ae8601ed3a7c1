\* A self-join over an infinite radius.
SPECIFICATION ScanSpec
CONSTANTS
    RowLength = 4
    Farthest = 2
    MostAsked = 3
INVARIANT SelfNeverReturned
CHECK_DEADLOCK FALSE
