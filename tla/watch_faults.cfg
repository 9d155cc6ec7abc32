SPECIFICATION Spec
CONSTANTS
    Dvr = {d1}
    Exam = e1
    Session = {e1}
    Socket = {c1, c2}
    None = None
    First = d1
    MaxOpens = 1
    MaxReloads = 1
    MaxFlushes = 1
    StudentFaults = 1
    DvrFaults = 1
    Restarts = 1
CHECK_DEADLOCK FALSE
INVARIANTS
    SignalAgrees
    SubscribedIsWatching
