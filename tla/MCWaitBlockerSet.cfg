SPECIFICATION Spec
CONSTANTS
    Threads = {t1, t2}
    Children = {c1, c2}
    Waits <- MCWaits
    t1 = t1
    t2 = t2
    c1 = c1
    c2 = c2
INVARIANTS
    ListIsSound
    NoDeathOverlooked
PROPERTIES
    ReapedForGood
    ZombiesAreReaped
