SPECIFICATION FairSpec
CONSTANTS
    t1 = t1
    t2 = t2
    w1 = w1
    w2 = w2
    Threads = {t1, t2}
    Wakers = {w1, w2}
    Nobody = Nobody
    SMP = FALSE
INVARIANTS
    NoLostWakeup
    ResultTellsCause
    BlockersAreSound
PROPERTIES
    SleepEnds
