CONSTANTS
    MaxResponses = 2
    MaxFailures = 0
SPECIFICATION Spec
INVARIANTS
    WaitIsTimed
CHECK_DEADLOCK FALSE
