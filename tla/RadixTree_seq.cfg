SPECIFICATION Spec
CONSTANTS
    n1 = n1
    n2 = n2
    n3 = n3
    n4 = n4
    n5 = n5
    a = a
    x = x
    r1 = r1
    r2 = r2
    NULL = NULL
    RETRY = RETRY
    Nodes = {n1, n2, n3, n4, n5}
    Items = {a, x}
    Exceptional = {x}
    Readers = {}
    Indices = {0, 1, 20}
    MapSize = 4
    Height = 3
    MaxIndex = 31
    MaxTags = 1
    Leftovers = {NULL}
    DeferredFree = FALSE
SYMMETRY NodeSymmetry
INVARIANTS TypeOK LinksAgree NothingLeaked CountsAgree TagsSummarise Compact OthersUndisturbed
PROPERTIES ImplementsMap
