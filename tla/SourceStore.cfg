SPECIFICATION Spec
CONSTANTS
    p1 = p1
    p2 = p2
    a = a
    b = b
    x = x
    y = y
    s1 = s1
    s2 = s2
    e1 = e1
    e2 = e2
    e3 = e3
    Seeders = {p1, p2}
    Paths = {a, b}
    Texts = {x, y}
    Unseedable = Unseedable
    Digest <- DigestOf
    Batches <- SomeBatches
    SourceIds = {s1, s2}
    EvidenceIds = {e1, e2, e3}
    MaxEdits = 1
SYMMETRY SeedSymmetry
INVARIANTS HistoryIsWhole EveryObservationIsAChange ObservationsWereRead AnswersCiteWhatWasRead
CHECK_DEADLOCK FALSE
