SPECIFICATION Spec
CONSTANTS
    Jobs = {1}
    Resources = {r1}
    ResourceOf <- OneResource
    Keys = {k}
    NoKey = nokey
    DedupeKey <- NoKeys
    Collect = {}
    Creators = {c1}
    Clients = {a, b}
    NoClient = noclient
    Tools = {t1, t2}
    ClientOf <- SameClient
    CanClaim <- AnyJob
    MaxAttempts = 2
    MaxActive = 2
    SendsToken = TRUE
    FreshKeys = TRUE
    Reports = {"heartbeat", "complete", "fail", "giveup"}
    r1 = r1
    a = a
    b = b
    t1 = t1
    t2 = t2
    k = k
INVARIANTS
    TypeOK
    

    
