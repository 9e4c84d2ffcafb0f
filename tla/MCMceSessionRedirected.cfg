CONSTANTS
    s1 = s1
    Session = {s1}
    MaxInvites = 2
    Allowed = {"redirect update"}
SPECIFICATION Spec
INVARIANTS
    ClientInSync
CHECK_DEADLOCK FALSE
