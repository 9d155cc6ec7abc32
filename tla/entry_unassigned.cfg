SPECIFICATION FairSpec
CONSTANTS
    Request = {q1, q2, q3}
    Row = {h1, r1, r2, r3}
    Historic = {h1}
    Assigned = FALSE
    None = None
    Orphan = Orphan
    MaxAttempts = 2
    MaxFaults = 1
    MaxClock = 3
    MaxAlerts = 1
CHECK_DEADLOCK FALSE
PROPERTY
    OpenIsAnswered
