SPECIFICATION AllSpec
CONSTANTS
    p1 = p1
    r1 = r1
    text = text
    Processes = {p1}
    NoProcess = NoProcess
    NoMemory = NoMemory
    MemoryIds = {1, 2, 3}
    EvidenceIds = {1}
    EvidenceLists <- OneEvidence
    AttemptIds = {1}
    SkillIds = {}
    Contents = {text}
    Times = {0}
    Drafts <- SupportedLesson
    LegacyRows <- OneNote
    LegacyEvidence <- NoRows
    LegacyLog <- OneEvent
    Readers = {r1}
    Operations = {"state", "timeline", "recall", "conflicts", "open_conflicts", "experience"}
INVARIANTS NoFalseCorruption ReadsAreSnapshots OpenConflictsBracketed
CHECK_DEADLOCK FALSE
