SPECIFICATION FairSpec
CONSTANTS
    c1 = c1
    c2 = c2
    c3 = c3
    Client = {c1, c2, c3}
    Nobody = Nobody
    Leftover = Leftover
INVARIANTS
    LockHasOwner
    OneStarter
PROPERTIES
    EveryClientConnects
    StaleLockGoes
CHECK_DEADLOCK FALSE
