CONSTANTS
    s1 = s1
    s2 = s2
    Session = {s1, s2}
    MaxInvites = 2
    Allowed = {"early answer"}
SPECIFICATION Spec
INVARIANTS
    NeverStranded
CHECK_DEADLOCK FALSE
