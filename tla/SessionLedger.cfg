SPECIFICATION Spec
CONSTANTS
    projA = projA
    projB = projB
    Projects <- TwoProjects
    MaxSessions = 2
    SegmentIdle = 5
    SessionIdle = 1
    FocusStale = 2
    TickPeriod = 1
    DayLength = 5
    MaxTime = 13
    Epoch = 3
    Jumps <- TwoJumps
    Budgets <- SomeBudgets
CHECK_DEADLOCK FALSE
SYMMETRY Symmetry
INVARIANTS FocusIsTheUnion ClosedCreditIsTheSum UnaskedEndIsNotNow CreditIsEvidenced ClosesInTime
PROPERTIES EditsAreHeard
