SPECIFICATION Spec
CONSTANTS
    proj = proj
    settings = settings
    Subjects <- ProjectAndSettings
    Globals <- Settings
    MaxBuild = 2
    MaxDecisions = 2
    MaxGeneration = 3
    MaxCrashes = 1
    MaxFaults = 1
    MaxCorruptions = 2
CHECK_DEADLOCK FALSE
INVARIANTS SavedIsNotLost AppliesOnce CorruptIsKept
PROPERTIES UndoneLeavesAsFound
