SPECIFICATION Spec
CONSTANTS
    n1 = n1
    n2 = n2
    n3 = n3
    n4 = n4
    n5 = n5
    a = a
    x = x
    r1 = r1
    r2 = r2
    NULL = NULL
    RETRY = RETRY
    Nodes = {n1, n2, n3, n4}
    Items = {a}
    Exceptional = {}
    Readers = {r1}
    Indices = {0, 1, 2}
    MapSize = 2
    Height = 2
    MaxIndex = 3
    MaxTags = 0
    Leftovers = {NULL}
    DeferredFree = FALSE
SYMMETRY NodeSymmetry
INVARIANTS ReadersSafe
