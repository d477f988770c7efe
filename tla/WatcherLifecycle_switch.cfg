SPECIFICATION Spec
CONSTANTS
    k1 = k1
    k2 = k2
    w1 = w1
    w2 = w2
    Commands = {k1, k2}
    Watchers = {w1}
    Nobody = Nobody
    Version <- TwoVersions
INVARIANTS SwitchIsWhole
CHECK_DEADLOCK FALSE
