SPECIFICATION Spec
CONSTANTS
    Request = {q1, q2, q3}
    Row = {h1, h2, r1, r2}
    Historic = {h1, h2}
    Assigned = TRUE
    None = None
    Orphan = Orphan
    MaxAttempts = 2
    MaxFaults = 3
    MaxClock = 6
    MaxAlerts = 1
CHECK_DEADLOCK FALSE
SYMMETRY Symmetric
INVARIANTS
    CreatedRowIsAlone
    EditorsShareRow
    WorkIsResumed
    NoSecondAttempt
    EditedRowIsShown
