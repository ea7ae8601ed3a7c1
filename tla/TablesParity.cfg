\* One table of three keys, up to four points: deep buckets and long histories.
SPECIFICATION Spec
CONSTANTS
    Tables = {1}
    KeySpace = 3
    WithinBudget = TRUE
    MaxPoints = 4
INVARIANT SameTables
INVARIANT LookupsAreCurrent
INVARIANT ReferenceTablesSound
PROPERTY ImplementIndex
PROPERTY UpdateKeepsOrder
