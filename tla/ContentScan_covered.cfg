SPECIFICATION FairSpec
CONSTANTS
    a = a
    b = b
    w1 = w1
    w2 = w2
    h1 = h1
    h2 = h2
    Copies <- CopiesDef
    Preferred = a
    Heads <- HeadsDef
    Tree <- TreeDef
    Marker <- MarkerDef
    HasReadme <- ReadmeDef
    Workers = {w1}
    Chunk = 2
    Budgets <- OneFault
INVARIANTS CompleteIsCovered
CHECK_DEADLOCK FALSE
