SPECIFICATION Spec
CONSTANTS
    Keys = {k1}
    Timers = {t1, t2}
    NoTimer = NoTimer
    MaxPending = 1
INVARIANT RenewedStaysOk
CHECK_DEADLOCK FALSE
