SPECIFICATION FairSpec
CONSTANTS
    p = p
    q = q
    quantized = quantized
    portable = portable
    lesson = lesson
    chunk = chunk
    chunk2 = chunk2
    None = None
    Procs = {p, q}
    Artifacts = {quantized, portable}
    Builds <- TwoBuilds
    Reads <- TwoReaders
    Records = {lesson, chunk, chunk2}
    Pools = 2
    PoolOf <- TwoPools
    Replaces <- Reobserved
INVARIANTS OneSpace PublishedIsWhole ReadyIsComplete
PROPERTIES Heals
CHECK_DEADLOCK FALSE
