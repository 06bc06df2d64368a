SPECIFICATION Spec
CONSTANTS
    MaxTime = 1
    MaxChanges = 0
    MaxReadFailures = 0
PROPERTIES
    TransitionTimeKept
CHECK_DEADLOCK FALSE
