SPECIFICATION FairSpec
CONSTANTS
    r1 = r1
    r2 = r2
    r3 = r3
    k1 = k1
    k2 = k2
    s1 = s1
    s2 = s2
    s3 = s3
    n1 = n1
    n2 = n2
    Request = {r1, r2, r3}
    Name = {n1, n2}
    Key = {k1, k2}
    Session = {s1, s2, s3}
    NoKey = NoKey
    NoSession = NoSession
INVARIANTS
    MapIsLive
    RunsAsLoaded
PROPERTIES
    IdleSessionEnds
