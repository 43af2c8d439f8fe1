SPECIFICATION Spec
CONSTANTS
    NULL = NULL
    r1 = r1
    Readers = {r1}
    Nodes = {1, 2, 3, 4, 5, 6}
    Twins = 1
    MaxCalls = 2
    Key <- TwinKey
INVARIANTS NoLoops ReadersOnMembers
