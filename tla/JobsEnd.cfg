SPECIFICATION FairSpec
CONSTANTS
    Jobs = {1}
    Resources = {r1}
    ResourceOf <- OneResource
    Keys = {k}
    NoKey = nokey
    DedupeKey <- NoKeys
    Collect = {}
    Creators = {c1}
    Clients = {a, b}
    NoClient = noclient
    Tools = {t1}
    ClientOf <- SameClient
    CanClaim <- AnyJob
    MaxAttempts = 2
    MaxActive = 2
    SendsToken = FALSE
    FreshKeys = FALSE
    Reports = {"complete", "fail"}
    r1 = r1
    a = a
    b = b
    t1 = t1
    t2 = t2
    k = k
PROPERTIES
    JobEnds
