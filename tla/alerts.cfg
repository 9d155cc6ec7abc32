SPECIFICATION Spec
CONSTANTS
    None = None
    NodeType = {"unit", "for", "update", "class", "members", "ERROR"}
    Baseline = {"unit"}
    Structural = {"update", "members"}
    DetailLimit = 2
    File = {main, util, notes}
    CodeFile = {main, util}
    EntryFile = main
    Blank = Blank
    Text <- SomeTexts
    Program <- Programs
    Bulk = {"loop", "class"}
    Syllabus <- SomeSyllabi
    Week = 2
    MaxActs = 3
    MaxFaults = 1
INVARIANTS
    StandingViolationIsAlerted
    AlertNamesItsFile
    BulkInsertAlertedOnce
    AuditListsEveryConstruct
CHECK_DEADLOCK FALSE
