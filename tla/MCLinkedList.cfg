CONSTANTS
    Nodes = {n1, n2, n3, n4}
    NULL = NULL
    Data = {a, b}
    InsertKeys = {0, 1, 2}
    LowestKey <- MCLowestKey
SPECIFICATION LinkedSpec
CHECK_DEADLOCK FALSE
SYMMETRY NodeSymmetry
INVARIANTS
    WellLinked
    NoLeak
PROPERTIES
    ImplementsOrderedList
