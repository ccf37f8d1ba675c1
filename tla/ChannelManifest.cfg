CONSTANTS
    a1 = a1
    a2 = a2
    m1 = m1
    m2 = m2
    x = x
    NoActor = NoActor
    NoEvent = NoEvent
    NoManifest = NoManifest
    Actors <- MCActors
    Parent <- MCParent
    Manifests <- MCManifests
    Methods <- MCMethods
    Limit = 2
    MaxCalls = 4

SPECIFICATION Spec

INVARIANT TrailsAreNewest
CHECK_DEADLOCK FALSE
