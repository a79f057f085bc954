SPECIFICATION FairSpec
CONSTANTS
    launch = launch
    list = list
    Requests <- WriteAndRead
    Writes <- OneWrite
    Scenarios <- SomeScenarios
    MaxEpoch = 5
CHECK_DEADLOCK FALSE
INVARIANTS NeverReplayed CrashLoopStops
PROPERTIES StopEnds LaneSettles SentIsSettled
