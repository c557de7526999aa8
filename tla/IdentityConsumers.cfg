SPECIFICATION Spec
CONSTANTS
    MaxEvents = 5
    MaxClients = 2
    MaxKeys = 1
    MaxAside = 1
    MaxLinkEvents = 4
    MaxLetters = 1
INVARIANTS
    StatusIsCurrent
    AcceptedIsAllowed
    RevokedHasNoClient
    DenialsAreCurrent
    PauseIsAsked
PROPERTY
    NothingIsHeldUp
CHECK_DEADLOCK FALSE
