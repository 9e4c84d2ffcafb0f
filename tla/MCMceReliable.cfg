CONSTANTS
    MaxResponses = 3
    MaxFailures = 1
SPECIFICATION Spec
INVARIANTS
    TypeOK
    FirstGivesUp
    EndsCleanly
    ConfirmingWaits
PROPERTIES
    ImplementsOneAtATime
    EarlyAcceptHonoured
    EndTogether
CHECK_DEADLOCK FALSE
