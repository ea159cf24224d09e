SPECIFICATION Spec
CONSTANTS
    t1 = t1
    t2 = t2
    t3 = t3
    Timers = {t1, t2, t3}
    MaxDelay = 2
    RearmOnSMP = FALSE
CHECK_DEADLOCK FALSE
INVARIANTS
    QueueIsSound
    CallbacksAreExact
    ReferencesAreExact
PROPERTIES
    CancelReturns
    TimersFire
