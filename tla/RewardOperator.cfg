SPECIFICATION Spec
CONSTANTS
    NumItems = 1
    Recipients = {1, 2}
    Recipient <- OwnRecipient
    Tokens = {t1}
    NoToken = none
    MaxItemRetries = 1
    UnknownThreshold = 1
    MaxSessionFailures = 1
    ScanTakesTime = FALSE
    Requests = {"success", "pending", "reconcile", "retry"}
    MaxReopen = 1
INVARIANTS
    TypeOK
    AtMostOnce
    
    LedgerMatchesItems

    
