SPECIFICATION Spec
CONSTANTS
    Page = {p1, p2}
    Key = {k1, k2}
    Post = {f1, f2}
    None = None
    MaxAttempts = 2
    MaxFaults = 1
SYMMETRY Symmetric
INVARIANTS
    OneJobPerSubmission
    VerdictReadsFinalFlush
