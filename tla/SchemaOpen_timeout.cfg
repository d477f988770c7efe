SPECIFICATION Spec
CONSTANTS
    p1 = p1
    p2 = p2
    p3 = p3
    Processes = {p1, p2}
    NoProcess = NoProcess
    Ids = {1, 2}
    Stores <- OldStore
INVARIANTS NoHealthyOpenRefused
CHECK_DEADLOCK FALSE
