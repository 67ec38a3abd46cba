SPECIFICATION FairSpec
CONSTANTS
    h1 = h1
    h2 = h2
    k1 = k1
    Call = {c1, c2}
    Handle = {h1, h2}
    Inline = {h1, h2}
    Stuck = {h2}
    Kept <- FirstKept
    Key = {k1}
    KeyOf <- OneKey
    NoHandle = NoHandle
    NoCall = NoCall
    MaxVersion = 2
    Mixed = {c2}
    MaxRows = 1
INVARIANTS
    RefreshIsRead
    StreamProtocol
    AbandonedIsNotRunning
PROPERTIES
    HandleNeverBack
    FailureIsNotKept
    EveryCallReturns
CHECK_DEADLOCK FALSE
