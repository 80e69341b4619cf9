SPECIFICATION FairSpec
CONSTANTS
    MaxSessions = 3
    MaxDepth = 2
    MaxPending = 1
INVARIANT TypeOK
INVARIANT ClientHasOneSession
INVARIANT RefusedOnlyIfExpired
PROPERTY CancelEndsRefresh
CHECK_DEADLOCK FALSE
