SPECIFICATION FairSpec
CONSTANTS
    n1 = n1
    n2 = n2
    n3 = n3
    n4 = n4
    n5 = n5
    a = a
    x = x
    r1 = r1
    r2 = r2
    NULL = NULL
    RETRY = RETRY
    Nodes = {n1, n2, n3}
    Items = {a}
    Exceptional = {}
    Readers = {}
    Indices = {0, 1, 3}
    MapSize = 2
    Height = 2
    MaxIndex = 3
    MaxTags = 1
    Leftovers = {NULL}
    DeferredFree = FALSE
PROPERTIES CallsReturn
