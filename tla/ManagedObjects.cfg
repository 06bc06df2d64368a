\* One controller of each kind, any accepted configuration, two changes by others.
SPECIFICATION FairSpec
CONSTANTS
    NodeClasses = {n1, n2}
    Subnets = {1, 2}
    MaxChanges = 2
INVARIANTS
    TypeOK
    WatchesServed
    ModeServed
PROPERTIES
    ObjectsConverge
    ComesToRest
CHECK_DEADLOCK FALSE
