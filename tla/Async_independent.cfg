CONSTANTS
    a1 = a1
    a2 = a2
    f1 = f1
    f2 = f2
    g = g
    q1 = q1
    q2 = q2
    q3 = q3
    NoActor = NoActor
    NoEvent = NoEvent
    None = None
    Actors <- MCActors
    Funcs <- MCFuncs
    Plain <- MCPlain
    Body <- MCBody
    Home <- MCHome
    Resolver <- MCResolver
    Parent <- Independent
SPECIFICATION Spec

INVARIANT AssertionsHold
INVARIANT RunsOnHome
PROPERTY AwaitSafety
CHECK_DEADLOCK FALSE
