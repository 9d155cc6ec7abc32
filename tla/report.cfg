SPECIFICATION Spec
CONSTANTS
    None = None
    Task = {t1, t2}
    Outputs = {3}
    DefaultTask = t1
    Types <- BothTypes
    Gaps = {4, 6}
    PasteLen = 4
    Exams <- OneOrTwo
    t1 = t1
    t2 = t2
    MinEvents = 3
    MinCodeLen = 3
    MinTypingIntervals = 2
    MinBursts = 2
    MaxActs = 3
INVARIANTS
    PastedTaskCannotHide
    UnassessedNeverReadsClean
    RunsAreCounted
    AnswerStaysInItsTask
    ReviewRunsWhatWasJudged
    JudgmentShownIsSaved
CHECK_DEADLOCK FALSE
