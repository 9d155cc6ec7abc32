SPECIFICATION Spec
CONSTANTS
    Task = {t1, t2}
    FirstTask = t1
    File = {main, util}
    EntryFile = main
    MaxActs = 4
    MaxMishaps = 2
    MaxEdits = 3
    MaxWindows = 3
    Opened = 10
    Time <- SomeTimes
    SinceSwitch <- SomePauses
    IdleGap = 50
    LeadIn = 15
    PasteMin = 2
    SkipAfter = 15
    SkipBefore = 2
    SkipTo = 1
INVARIANTS
    ReplayIsExact
    TaskReplayAgrees
    RestoreMatchesReplay
    PastesAreMarked
    TimelineKeepsTime
    LegacyMeetsSnapshots
CHECK_DEADLOCK FALSE
