CONSTANTS
    Threads = {t1, t2, t3}
    Locks = {l1, l2, l3}
    NULL = NULL
SPECIFICATION Spec
CHECK_DEADLOCK FALSE
SYMMETRY ActorSymmetry
INVARIANTS
    NoSilentDeadlock
    AlarmIsReal
    OnlyReleaseIsLate
