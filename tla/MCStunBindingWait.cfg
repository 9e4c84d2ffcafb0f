SPECIFICATION Spec
CONSTANTS
    Servers <- MCServers
    KMaxRequestSentCount = 2
    MaxRequests = 2
    MaxMappings = 1
    MaxFailures = 0
INVARIANTS
    WaitsBeforeRetry
CHECK_DEADLOCK FALSE
