SPECIFICATION FairSpec
CONSTANTS
    Releases = {r1, r2}
    MaxChanges = 2
INVARIANTS
    TypeOK
    NoOrphan
PROPERTIES
    NodeClassDeleted
    ReleaseFollowsSecret
CHECK_DEADLOCK FALSE
