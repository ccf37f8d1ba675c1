CONSTANTS
    b = b
    i1 = i1
    i2 = i2
    i3 = i3
    NoActor = NoActor
    NoEvent = NoEvent
    Actors <- MCActors
    Parent <- MCParent
    Owner = b
    Items <- MCItems
    Delayed = TRUE
    Capacity = 2
SPECIFICATION Spec
INVARIANT TypeOK
 
INVARIANT FullBatchNotDelayed
PROPERTY AllProcessed
CHECK_DEADLOCK FALSE
