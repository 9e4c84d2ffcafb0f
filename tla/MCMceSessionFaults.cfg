CONSTANTS
    s1 = s1
    Session = {s1}
    MaxInvites = 3
    Allowed = {"early answer", "session timer", "media fails", "lost"}
SPECIFICATION Spec
INVARIANTS
    MediaReleased
    CallbackExpected
    NeverStranded
    UpdateShown
    BodyNeverNull
PROPERTIES
    EndedIsFinal
    CancellingEnds
    TerminatingEnds
CHECK_DEADLOCK FALSE
