SPECIFICATION Spec
CONSTANTS
    NULL = NULL
    r1 = r1
    Readers = {}
    Nodes = {1, 2, 3, 4, 5, 6, 7, 8, 9, 10}
    Twins = 1
    MaxCalls = 2
    Key <- TwinKey
INVARIANTS TypeOK RedBlack LoopsBalanced LinksAgree LeftmostAgrees AugmentedExact IterationAgrees PostorderSafe
PROPERTIES ImplementsOrder
