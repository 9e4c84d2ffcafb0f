CONSTANTS
    MaxEvents = 4
    MaxFaults = 2
SPECIFICATION Spec
INVARIANTS
    TypeOK
    BodyMatchesIds
    NoRefusal
    CancelReturns
    IInv
PROPERTIES
    ImplementsChannel
    EveryEventArrives
    CloseEnds
CHECK_DEADLOCK FALSE
