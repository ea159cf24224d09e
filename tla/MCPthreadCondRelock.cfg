SPECIFICATION CondFairSpec
CONSTANTS
    t1 = t1
    t2 = t2
    t3 = t3
    Threads = {t1, t2, t3}
    NoThread = NoThread
    Type = "NORMAL"
    MaxLevel = 0
    TimedOutUnlocks = FALSE
PROPERTIES
    SomebodyTakesIt
