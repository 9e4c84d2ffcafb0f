SPECIFICATION Spec
CONSTANTS
    Agent = {"a", "b"}
    Pair = {1, 2}
    Foundation <- MCFoundation
    CandidatePriority <- MCPriority
    Modulus = 64
    TieBreaker <- MCTieBreaker
    Setting <- MCSetting
    MaxCallbacks = 2
INVARIANTS
    TypeOK
    NeverStranded
    RolesDiffer
    NominatedByPeer
PROPERTIES
    Ends
CHECK_DEADLOCK FALSE
