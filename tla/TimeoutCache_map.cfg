SPECIFICATION FairSpec
CONSTANTS
    Keys = {k1, k2}
    Entries = {e1, e2, e3}
    None = None
INVARIANT TypeOK
INVARIANT LateGoroutineOwnsKey
PROPERTY IsExpiringMap
PROPERTY ItemsLeave
PROPERTY ExpiredAreCalled
CHECK_DEADLOCK FALSE
