SPECIFICATION SignOnSpec
CONSTANTS
    Grants = {g1,g2}
    Told = {g1}
    MaxSso = 2
    MaxRequests = 2
    MaxInstances = 2
    MaxTokens = 2
    MaxTries = 2
    MaxEnds = 1
    Calls = {c1,c2}
    MaxSignIns = 2
    MaxGen = 1
    MaxFlights <- Flights
    Signers = {p1,p2}
    Verifiers = {v1}
    MaxKeys = 3
    Lifetime = 2
    Cache = 1
    Grace = 3
    RefreshEvery = 2
    MinRefetch = 1
    Stale = 4
INVARIANTS
    ReuseEndsGrant
    OneSessionInTab
    NoTokenIsUsedTwice
    ValidIsAccepted
PROPERTIES
    
    OnlyTheDeadAreTold
    EndIsTold
CHECK_DEADLOCK FALSE
