SPECIFICATION Spec
CONSTANTS
    t1 = t1
    t2 = t2
    t3 = t3
    e1 = e1
    e2 = e2
    e3 = e3
    NULL = NULL
    Threads = {t1, t2}
    Entries = {e1, e2}
    Consumer = t1
    Modes = {"drainers"}
    Atomic = FALSE
SYMMETRY ListSymmetry
INVARIANTS NothingLost
