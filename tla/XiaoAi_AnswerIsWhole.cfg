SPECIFICATION Spec
CONSTANTS
    Queries = {wake, chat}
    WakeLike = {wake}
    UseAi = FALSE
    MaxChunks = 2
    AiMode = aimode
    Timers = {t1, t2}
    NoTimer = NoTimer
    MaxPending = 1
INVARIANT AnswerIsWhole
CHECK_DEADLOCK FALSE
