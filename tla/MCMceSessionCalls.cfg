CONSTANTS
    s1 = s1
    Session = {s1}
    MaxInvites = 3
    Allowed = {"session timer"}
SPECIFICATION Spec
INVARIANTS
    EstablishedIsQuiet
    RemoteToldOfEnd
    HangupEnds
CHECK_DEADLOCK FALSE
