SPECIFICATION FairSpec
CONSTANTS
    Keys = {k1, k2}
    Timers = {t1, t2, t3}
    NoTimer = NoTimer
    MaxPending = 2
INVARIANT TypeOK
INVARIANT ActiveWillExpire
INVARIANT NoStaleTick
PROPERTY StartedStateEnds
CHECK_DEADLOCK FALSE
