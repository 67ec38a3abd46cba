SPECIFICATION Spec
CONSTANTS
    r1 = r1
    r2 = r2
    Request = {r1, r2}
    NoRequest = NoRequest
    MaxRows = 1
    RowLimit = 1
INVARIANT TimeoutWasBegun
CHECK_DEADLOCK FALSE
