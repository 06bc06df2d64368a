SPECIFICATION FairSpec
CONSTANTS
    Pools = {p1}
    Claims = {c1, c2}
    OtherFinalizers = {}
    FreshLists = TRUE
    LateCreates = FALSE
    MaxDisturbances = 2
INVARIANTS
    ReleasedMeansCleanedUp
PROPERTIES
    ImplementsTeardown
    EarlyCleanup
    FinalizerInstalled
CHECK_DEADLOCK FALSE
