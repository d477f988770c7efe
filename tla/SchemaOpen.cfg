SPECIFICATION FairSpec
CONSTANTS
    p1 = p1
    p2 = p2
    p3 = p3
    Processes = {p1, p2, p3}
    NoProcess = NoProcess
    Ids = {1, 2}
    Stores <- AllStores
INVARIANTS StampMatchesSchema RefusedOnlyIfLate FailsClosed IndexMatchesRows
PROPERTIES OpenEnds
CHECK_DEADLOCK FALSE
