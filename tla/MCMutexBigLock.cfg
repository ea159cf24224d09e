SPECIFICATION FairSpec
CONSTANTS
    t1 = t1
    t2 = t2
    t3 = t3
    t4 = t4
    l1 = l1
    l2 = l2
    Threads = {t1, t2, t3, t4}
    Locations = {l1, l2}
    NoThread = NoThread
    m_behavior = "BigLock"
    AllowUpgrade = FALSE
INVARIANTS
    MutualExclusion
    NoForgottenWaiter
PROPERTIES
    BigLockProgress
