SPECIFICATION FairSpec
CONSTANTS
    MaxTime = 1
    MaxChanges = 3
    MaxReadFailures = 2
INVARIANTS
    TypeOK
PROPERTIES
    StatusFollowsOperand
CHECK_DEADLOCK FALSE
