CONSTANTS
    s1 = s1
    s2 = s2
    NoActor = NoActor
    NoEvent = NoEvent
    Actors <- MCActors
    Parent <- MCParent
    SendCount <- MCSendCount
    SendBufferSize = 1
    Closers = {s1}
    GracefulClose = TRUE
SPECIFICATION Spec
INVARIANT TypeOK
PROPERTY AllDelivered
PROPERTY NoStall
PROPERTY CloseReachesPeer
CHECK_DEADLOCK FALSE
