SPECIFICATION Spec
CONSTANTS
    c1 = c1
    c2 = c2
    s1 = s1
    s2 = s2
    Client = {c1, c2}
    Session = {s1, s2}
    NoClient = NoClient
    Deadline = 1
    Grace = 1
    Prompt = TRUE
PROPERTY CancelSparesOthers
CHECK_DEADLOCK FALSE
