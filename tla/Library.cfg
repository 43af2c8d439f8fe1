SPECIFICATION LibrarySpec
CONSTANTS
    t1 = t1
    t2 = t2
    t3 = t3
    e1 = e1
    e2 = e2
    l1 = l1
    l2 = l2
    l3 = l3
    NULL = NULL
    Threads = {t1, t2, t3}
    Entries = {e1, e2}
    Consumer = t1
    Modes = {"one_consumer", "drainers", "locked"}
    Atomic = TRUE
    Heads = {0, 1}
    Links = {l1, l2, l3}
    ListReaders = {r1}
    Keys = {1, 2, 3}
    HashBits = 1
    NIL = NIL
    POISON = POISON
    BITS_PER_LONG = 4
    Sizes = {3, 4, 6}
    HexTexts <- HexInputs
    ListTexts <- ListInputs
    Values = {0, 1, 2}
    MaxNum = 5
    ElementSizes = {4}
    INT_BITS = 8
    SIZE_T_BITS = 16
SYMMETRY LibrarySymmetry
INVARIANTS TypeOK NothingLost DrainedInOrder ListsLinked WalksSound BitmapExact SortSound
PROPERTIES LockFree ImplementsStack
CHECK_DEADLOCK FALSE
