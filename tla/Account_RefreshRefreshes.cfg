SPECIFICATION Spec
CONSTANTS
    MaxSessions = 3
    MaxDepth = 2
    MaxPending = 1
INVARIANT RefreshRefreshes
CHECK_DEADLOCK FALSE
