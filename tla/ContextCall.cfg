SPECIFICATION CallSpec
CONSTANTS
    Words = {"a", "b", "c", "x"}
    Space = " "
    Newline = "/"
    Tab = "~"
    MaxChars = 4
    Memories <- MCMemories
    Attempts <- MCAttempts
    Skills <- MCSkills
    Failed = {"failure", "failure2"}
    KindOf <- MCKindOf
    Verified = {"lesson1", "lesson2"}
    Cites <- MCCites
    Validating = {"e1", "e3"}
    Floor <- MCFloor
    Margin <- MCMargin
    Band = 2
    LessonFloor = 4
    LessonLimit = 1
    InvariantFloor = 4
    InvariantLimit = 1
    Budgets = {12, 25, 40, 200}
    LineLength <- MCLineLength
    HeadingLength <- MCHeadingLength
    IdLength = 1
    IntentTerms <- MCIntent
    IntentWeight = 3
    EvidenceFloor = 4
    EvidenceLimit = 1
    SourceLength = 2
    Tasks <- MCTasks
INVARIANTS SpansPartition SufficientCoverage LessonsEarnTheirPlace GuardWithinPreflight PrefixRule ToldOnce
CHECK_DEADLOCK FALSE
