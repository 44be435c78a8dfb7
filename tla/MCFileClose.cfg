CONSTANTS
    Procs = {p1, p2}
    FirstProc = p1
    Files = {f1, f2, f3}
    Vnodes = {v1, v2}
    NULL = NULL
    OPEN_MAX = 5
    MaxRefs = 6
    INT = 2
SPECIFICATION Spec
CHECK_DEADLOCK FALSE
SYMMETRY FileSymmetry
INVARIANTS
    ClosedFilesLeave
