SPECIFICATION Spec
CONSTANTS
    w1 = w1
    w2 = w2
    k1 = k1
    k2 = k2
    Workers <- TwoWorkers
    Keys <- OneKey
    HighWater = 1
    Capacity = 1
    MaxVersion = 3
    MaxInbox = 2
    MaxEpoch = 2
INVARIANTS NoGap
PROPERTIES ImplementsFeed CatchesUp
