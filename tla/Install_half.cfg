SPECIFICATION InstallSpec
CONSTANTS
    None = None
    User = User
    Dests = {d1}
    MaxRuns = 3
    MaxCancels = 0
    MaxOccupied = 0
    MaxFaults = 0
    MaxCrashes = 0
INVARIANTS NeverHalfWritten
CHECK_DEADLOCK FALSE
