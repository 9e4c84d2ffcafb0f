CONSTANTS
    s1 = s1
    Session = {s1}
    MaxInvites = 1
    Allowed = {}
SPECIFICATION Spec
INVARIANTS
    OrphanHangsUp
CHECK_DEADLOCK FALSE
