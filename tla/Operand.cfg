\* Both modes and both platforms, two incarnations of the owner, two changes by others.
SPECIFICATION FairSpec
CONSTANTS
    MaxVersion = 2
    MaxUID = 2
    MaxChanges = 2
INVARIANTS
    TypeOK
    PodSpecConsistent
PROPERTIES
    PullSecretsPreserved
    VersionTracked
    OperandConverges
CHECK_DEADLOCK FALSE
