SPECIFICATION Spec
CONSTANTS
    Old = 1
    MaxTime = 3
    Limit = 2
    Cap = 3
INVARIANT TypeOK
 
CHECK_DEADLOCK FALSE
