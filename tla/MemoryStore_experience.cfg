SPECIFICATION Spec
CONSTANTS
    p1 = p1
    p2 = p2
    text = text
    Processes = {p1, p2}
    NoProcess = NoProcess
    NoMemory = NoMemory
    MemoryIds = {1, 2}
    EvidenceIds = {1}
    EvidenceLists <- OneEvidence
    AttemptIds = {1}
    SkillIds = {1}
    Contents = {text}
    Times = {0, 1}
    Drafts <- CitingDrafts
    LegacyRows <- NoRows
    LegacyEvidence <- NoRows
    LegacyLog <- NoLog
SYMMETRY ProcessSymmetry
INVARIANTS ChecksStillHold LogMatchesTables SkillsMirrorLessons LinksResolve
PROPERTIES LedgerSpec
CHECK_DEADLOCK FALSE
