SPECIFICATION Spec
CONSTANTS
    Servers <- MCServers
    KMaxRequestSentCount = 2
    MaxRequests = 2
    MaxMappings = 2
    MaxFailures = 1
INVARIANTS
    TypeOK
    SomethingIsDue
PROPERTIES
    AddressIsFresh
    NoServerTwice
    ImplementsRequests
    RequestEnds
CHECK_DEADLOCK FALSE
