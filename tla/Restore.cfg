SPECIFICATION RestoreSpec
CONSTANTS
    a = a
    b = b
    c = c
    L = L
    M = M
    N = N
    None = None
    Aliases = {"forge"}
    Canonical = "forge"
    Paths = {a, b, c}
    Lineages <- Alone3
    Remotes <- Forge
    Scenarios <- SomeScenarios
CHECK_DEADLOCK FALSE
INVARIANTS RowsComeHome RecordsComeBack
