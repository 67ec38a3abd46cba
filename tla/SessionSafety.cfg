SPECIFICATION Spec
CONSTANTS
    r1 = r1
    r2 = r2
    r3 = r3
    Request = {r1, r2, r3}
    NoRequest = NoRequest
    MaxRows = 2
    RowLimit = 1
SYMMETRY RequestSymmetry
INVARIANTS
    NothingLost
    ResultIsOwn
    InOrder
    AbandonedEndsSession
    OneDeadline
PROPERTIES
    ImplementsService
CHECK_DEADLOCK FALSE
