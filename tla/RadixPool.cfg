SPECIFICATION Spec
CONSTANTS
    t1 = t1
    t2 = t2
    n1 = n1
    n2 = n2
    n3 = n3
    n4 = n4
    b1 = b1
    b2 = b2
    NULL = NULL
    Threads = {t1, t2}
    Nodes = {n1, n2, n3, n4}
    Bitmaps = {b1, b2}
    RadixSize = 2
    IdrSize = 1
    IdaSize = 1
    Pinning = TRUE
    SwapReturnsOld = TRUE
SYMMETRY PoolSymmetry
INVARIANTS TypeOK PreloadSuffices NodesAccounted BitmapReserved
