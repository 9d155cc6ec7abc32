SPECIFICATION OnlineSpec
CONSTANTS
    Dvr = {d1, d2}
    First = d1
    Exam = e1
    Session = {e1}
    Socket = {c1, c2, c3}
    None = None
    MaxOpens = 1
    MaxReloads = 1
    MaxFlushes = 0
    StudentFaults = 2
    DvrFaults = 1
    Restarts = 0
CHECK_DEADLOCK FALSE
PROPERTY GoesLive
PROPERTY StreamStops
PROPERTY EndIsHeard
