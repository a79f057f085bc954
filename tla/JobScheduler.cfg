SPECIFICATION Spec
CONSTANTS
    w1 = w1
    w2 = w2
    p1 = p1
    l1 = l1
    l2 = l2
    s1 = s1
    Workers <- TwoWorkers
    Projects <- OneProject
    Locations <- OneLocation
    ProjectOf <- SameProject
    Stores <- OneStore
    StoreOf <- OnOneStore
    ClassCaps <- Caps12
    DefaultStoreCap = 1
    GlobalCap = 8
    Outcomes <- SomeOutcomes
    MaxRefusals = 1
    Removable <- OneLocation
    MayStop = TRUE
    MaxAsks = 1
    MaxChunks = 1
CHECK_DEADLOCK FALSE
PROPERTIES QueueDrains TakesWithinStoreCap
INVARIANTS SlotsCountHolders WithinCaps ChainsGoOn
