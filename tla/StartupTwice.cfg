SPECIFICATION Spec
CONSTANTS
    c1 = c1
    c2 = c2
    Client = {c1, c2}
    Nobody = Nobody
    Leftover = Leftover
INVARIANT OneBroker
CHECK_DEADLOCK FALSE
