CONSTANTS
    Threads = {t1, t2}
    Locks = {l1}
    NULL = NULL
SPECIFICATION Spec
CHECK_DEADLOCK FALSE
INVARIANTS
    RecordsAgree
