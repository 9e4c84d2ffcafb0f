CONSTANTS
    s1 = s1
    s2 = s2
    Session = {s1, s2}
    MaxInvites = 2
    Allowed = {"early answer", "early update answer", "interval too small", "session timer", "media fails", "lost", "crossing", "redirect to cancel", "bye to cancel"}
SYMMETRY SessionSymmetry
SPECIFICATION Spec
INVARIANTS
    TypeOK
    ClientInSync
PROPERTIES
    OneBye
CHECK_DEADLOCK FALSE
