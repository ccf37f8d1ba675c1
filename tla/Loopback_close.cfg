CONSTANTS
    s1 = s1
    s2 = s2
    NoActor = NoActor
    NoEvent = NoEvent
    Actors <- MCActors
    Parent <- MCParent
    SendCount <- MCSendOne
    SendBufferSize = 1
    Closers = {s1, s2}
    GracefulClose = FALSE
SPECIFICATION Spec
INVARIANT PeerNeverNull
CHECK_DEADLOCK FALSE
