SPECIFICATION Spec
CONSTANTS
    NumItems = 2
    Recipients = {1, 2}
    Recipient <- SameRecipient
    Tokens = {t1}
    NoToken = none
    MaxItemRetries = 1
    UnknownThreshold = 2
    MaxSessionFailures = 1
    ScanTakesTime = TRUE
    Requests = {"stop", "pause"}
    MaxReopen = 0
INVARIANTS
    CompletedSentAll
    

    
