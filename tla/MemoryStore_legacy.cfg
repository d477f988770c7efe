SPECIFICATION Spec
CONSTANTS
    p1 = p1
    p2 = p2
    text = text
    Processes = {p1, p2}
    NoProcess = NoProcess
    NoMemory = NoMemory
    MemoryIds = {1, 2, 3, 4}
    EvidenceIds = {1}
    EvidenceLists <- OneEvidence
    AttemptIds = {}
    SkillIds = {}
    Contents = {text}
    Times = {0}
    Drafts <- LessonDrafts
    LegacyRows <- TwoLegacyRows
    LegacyEvidence <- NoRows
    LegacyLog <- TwoLegacyEvents
SYMMETRY ProcessSymmetry
INVARIANTS NoCurrentDuplicates SupersededOnce VerifiedIsSupported RetryIsRecognised LegacyAdmitsNothing
CHECK_DEADLOCK FALSE
