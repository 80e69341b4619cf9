SPECIFICATION FairSpec
CONSTANTS
    Queries = {wake, chat}
    WakeLike = {wake}
    UseAi = FALSE
    MaxChunks = 2
    AiMode = aimode
    Timers = {t1, t2, t3}
    NoTimer = NoTimer
    MaxPending = 2
INVARIANT TypeOK
INVARIANT Lockstep
INVARIANT NeverStuck
INVARIANT ModeWillEnd
INVARIANT StopsOnlyUnwoken
INVARIANT OnlyOneEnd
PROPERTY OnlyWakeEnters
PROPERTY QueryIsHandled
CHECK_DEADLOCK FALSE
