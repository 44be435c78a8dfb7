CONSTANTS
    NumCpus = 2
    Kids = {k1, k2, k3}
    SmpThreads = 2
    NULL = NULL
    SCHEDULE_HARDCLOCKS = 2
    MIGRATE_HARDCLOCKS = 2
    UINT = 16
    EndPriorities = {0, 2}
    MaxSchedules = 5
SPECIFICATION Spec
CHECK_DEADLOCK FALSE
SYMMETRY KidSymmetry
INVARIANTS
    TypeOK
    OnOneList
    HomeCpu
    IdleIsCalled
    StacksAreKept
    VictimsExist
    NoMissedCount
    CountIsRight
    NotStarved
    EndsStayPut
