SPECIFICATION FairSpec
CONSTANTS
    CSRs = {csr1}
    Claims = {c1, c2}
    Instances = {x1, x2}
    Names = {n1}
    OtherNames = {o1}
    MaxInstanceIDs = 1
    MaxDisturbances = 1
INVARIANTS
    TypeOK
PROPERTIES
    ApprovedKnown
    ReadyCSRApproved
    ProcessedCSRsRest
CHECK_DEADLOCK FALSE
