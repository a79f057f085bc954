SPECIFICATION InstallSpec
CONSTANTS
    None = None
    User = User
    Dests = {d1}
    MaxRuns = 3
    MaxCancels = 1
    MaxOccupied = 1
    MaxFaults = 1
    MaxCrashes = 1
INVARIANTS DoneHasItsRow EndedRunsLeaveNoClone
PROPERTIES StartsEnd
CHECK_DEADLOCK FALSE
