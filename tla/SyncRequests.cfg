SPECIFICATION FairSpec
CONSTANTS
    Rows = {r, c, d}
    NumKinds = 2
    KindOf <- ResourceFirst
    Writers = {w1, w2}
    NoWriter = none
    Processes = {p1}
    Requests = {q1}
    PageSize = 1
    Malformed = {1}
    RebuildAlone = TRUE
    MaxRevision = 2
    MaxSeal = 1
    MaxFaults = 1
    r = r
INVARIANTS
    CacheIsCurrent
    
PROPERTIES
    Converges
    NeverGoesBack
