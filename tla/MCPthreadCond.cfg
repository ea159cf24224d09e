SPECIFICATION CondSpec
CONSTANTS
    t1 = t1
    t2 = t2
    t3 = t3
    Threads = {t1, t2, t3}
    NoThread = NoThread
    Type = "RECURSIVE"
    MaxLevel = 2
    TimedOutUnlocks = TRUE
SYMMETRY Symmetry
CONSTRAINT BeforeTheTrespass
INVARIANTS
    FlagsTellOfSleepers
    BroadcastUnblocksAll
    CondKeepsExclusion
PROPERTIES
    SignalUnblocksOne
