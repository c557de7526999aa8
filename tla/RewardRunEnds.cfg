SPECIFICATION FairSpec
CONSTANTS
    NumItems = 2
    Recipients = {1, 2}
    Recipient <- OwnRecipient
    Tokens = {t1, t2}
    NoToken = none
    MaxItemRetries = 0
    UnknownThreshold = 1
    MaxSessionFailures = 1
    ScanTakesTime = FALSE
    Requests = {}
    MaxReopen = 0
PROPERTIES
    RunEnds
