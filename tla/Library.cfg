SPECIFICATION Spec
CONSTANTS
    None = None
    Canonical = "hub"
    Aliases <- TheAliases
    Paths = {a, b}
    Repos <- SomeRepos
    Listings <- SomeListings
    Scenarios <- SomeScenarios
SYMMETRY PathSymmetry
INVARIANTS StrongIdentityIsUnique NoTileBesideItsClone
PROPERTIES RemovedRowsAreKept
CHECK_DEADLOCK FALSE
