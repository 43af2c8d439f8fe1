SPECIFICATION FlavourSpec
CONSTANTS
    n1 = n1
    n2 = n2
    n3 = n3
    n4 = n4
    n5 = n5
    a = a
    b = b
    r1 = r1
    NULL = NULL
    RETRY = RETRY
    Nodes = {n1, n2, n3}
    Items = {a}
    Exceptional = {}
    Readers = {r1}
    Indices = {0, 1, 3}
    MapSize = 2
    Height = 2
    MaxIndex = 3
    MaxTags = 1
    Leftovers = {NULL}
    DeferredFree = TRUE
    Starts = {0}
    IdrStarts = {0, 1, 2}
    IdrMaxima = {1, 2}
    IterCalls <- ChurnCalls
    Kinds <- AllKinds
SYMMETRY NodeSymmetry
INVARIANTS IterSafe IterComplete
PROPERTIES IterExact ImplementsIdr
