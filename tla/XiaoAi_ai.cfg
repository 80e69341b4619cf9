SPECIFICATION FairSpec
CONSTANTS
    Queries = {wake, chat}
    WakeLike = {wake}
    UseAi = TRUE
    MaxChunks = 2
    AiMode = aimode
    Timers = {t1, t2}
    NoTimer = NoTimer
    MaxPending = 1
INVARIANT AnswerIsWhole
PROPERTY IsDialogue
PROPERTY StepsDecrease
PROPERTY QueryIsHandled
CHECK_DEADLOCK FALSE
