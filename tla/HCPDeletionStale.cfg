SPECIFICATION FairSpec
CONSTANTS
    Pools = {p1}
    Claims = {c1}
    OtherFinalizers = {hypershift}
    FreshLists = FALSE
    LateCreates = TRUE
    MaxDisturbances = 1
INVARIANTS
    TypeOK
    TeardownOnly
    ForcedOnlyDeleting
PROPERTIES
    NoListedClaimAbandoned
    OtherFinalizersPreserved
    FinalizerStays
    HCPReleased
CHECK_DEADLOCK FALSE
