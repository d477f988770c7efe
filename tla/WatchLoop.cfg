SPECIFICATION FairSpec
CONSTANTS
    a = a
    b = b
    x = x
    y = y
    Paths = {a, b}
    Discoverable = {a}
    Texts = {x, y}
    Missing = Missing
    Refused = Refused
    MaxEdits <- FewEdits
INVARIANTS BaselineIsKnown
PROPERTIES CatchesUp RefusalIsFinal KeepsPromise
CHECK_DEADLOCK FALSE
