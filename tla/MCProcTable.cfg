CONSTANTS
    KProc = kproc
    UProcs = {p1, p2, p3, p4}
    NULL = NULL
    PID_MAX = 6
    MaxActive = 9
SPECIFICATION Spec
CHECK_DEADLOCK FALSE
SYMMETRY ProcSymmetry
INVARIANTS
    TypeOK
    EntriesMatch
    CountCoversTable
    MenuRunsAlone
