SPECIFICATION Spec
CONSTANTS
    Releases = {r1}
    MaxChanges = 1
PROPERTIES
    FinalizerOutlivesEC2
CHECK_DEADLOCK FALSE
