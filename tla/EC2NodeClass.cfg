SPECIFICATION FairSpec
CONSTANTS
    Releases = {r1, r2}
    MaxChanges = 2
INVARIANTS
    TypeOK
PROPERTIES
    FinalizerBeforeCreate
    IgnitionConditionsPreserved
    ReadyOnlyResolved
    NodeClassDeleted
    ReleaseFollowsSecret
    UnresolvedNotReady
CHECK_DEADLOCK FALSE
