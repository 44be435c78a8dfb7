CONSTANTS
    Threads = {t1, t2, t3, t4}
    NoThread = NoThread
    InitialCount = 1
    CountModulus = 4
SPECIFICATION Spec
CHECK_DEADLOCK FALSE
INVARIANTS
    EveryUnitIsWanted
PROPERTIES
    ImplementsSemaphore
