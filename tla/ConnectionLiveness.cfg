SPECIFICATION FairSpec
CONSTANTS
    c1 = c1
    c2 = c2
    s1 = s1
    Client = {c1, c2}
    Session = {s1}
    NoClient = NoClient
    Deadline = 1
    Grace = 1
    Prompt = FALSE
PROPERTIES
    EveryRunSettles
    DisconnectReachesSession
    ShutdownEnds
CHECK_DEADLOCK FALSE
