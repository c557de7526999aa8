SPECIFICATION Spec
CONSTANTS
    Jobs = {1, 2, 3, 4}
    Resources = {r1}
    ResourceOf <- OneResource
    Keys = {k}
    NoKey = nokey
    DedupeKey <- SharedKey
    Collect = {1, 3}
    Creators = {c1, c2}
    Clients = {a, b}
    NoClient = noclient
    Tools = {t1}
    ClientOf <- SameClient
    CanClaim <- AnyJob
    MaxAttempts = 1
    MaxActive = 2
    SendsToken = TRUE
    FreshKeys = TRUE
    Reports = {}
    r1 = r1
    a = a
    b = b
    t1 = t1
    t2 = t2
    k = k
INVARIANTS
    ActiveWithinLimit
    OneActivePerKey
