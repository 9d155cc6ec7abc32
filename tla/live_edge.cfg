SPECIFICATION FairSpec
CONSTANTS
    MaxActs = 3
INVARIANTS
    EdgeIsTrue
PROPERTIES
    EdgeSettles
CHECK_DEADLOCK FALSE
