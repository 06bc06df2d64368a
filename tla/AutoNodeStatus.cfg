CONSTANTS
    c1 = c1
    c2 = c2
    Claims = {c1, c2}
    CPUs = {2}
    MaxChanges = 4
SPECIFICATION FairSpec
INVARIANT TypeOK
PROPERTY CountsConverge
CHECK_DEADLOCK FALSE
