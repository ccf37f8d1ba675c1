CONSTANTS
    s1 = s1
    s2 = s2
    NoActor = NoActor
    NoEvent = NoEvent
    Actors <- MCActors
    Parent <- MCParent
    SendCount <- MCSendCount
    SendBufferSize = 1
    Closers = {}
    GracefulClose = TRUE
SPECIFICATION Spec
INVARIANT InOrder
CHECK_DEADLOCK FALSE
