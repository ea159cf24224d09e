SPECIFICATION SemSpec
CONSTANTS
    t1 = t1
    t2 = t2
    t3 = t3
    t4 = t4
    Threads = {t1, t2, t3, t4}
    MaxCount = 2
INVARIANTS
    SlotsAreSound
    DutyIsKept
PROPERTIES
    SlotsAreTaken
