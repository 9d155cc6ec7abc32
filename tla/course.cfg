SPECIFICATION Spec
CONSTANTS
    None = None
    Keep = Keep
    Exact = Exact
    MinuteTicks = 2
    Width = 3
    Student = {s1, s2}
    Histories <- SomeHistories
    Tab = {t1, t2}
    Instants = {1, 5}
    Bodies <- SomeBodies
    Hosts = {1, 6}
    Policies <- SomePolicies
    Offsets <- ClockOffsets
    Lead = 4
    MaxDelay = 1
    MaxActs = 3
    MaxClock = 6
INVARIANTS
    LonePatchIsSafe
    CountdownIsInTime
    EveryoneOnOneTile
    PolicyAdmitsItsBlocks
CHECK_DEADLOCK FALSE
