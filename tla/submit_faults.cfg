SPECIFICATION FairSpec
CONSTANTS
    Page = {p1}
    Key = {k1, k2}
    Post = {f1, f2}
    None = None
    MaxAttempts = 2
    MaxFaults = 2
INVARIANT
    AcceptedIsRecorded
PROPERTIES
    KeepsRecordPromise
    SubmitSettles
    EnqueuedIsConcluded
