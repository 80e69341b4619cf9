SPECIFICATION Spec
CONSTANTS
    Old = 1
    MaxTime = 2
    Limit = 2
    Cap = 3
INVARIANT OldFiltered
CHECK_DEADLOCK FALSE
