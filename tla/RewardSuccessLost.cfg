SPECIFICATION Spec
CONSTANTS
    NumItems = 1
    Recipients = {1, 2}
    Recipient <- OwnRecipient
    Tokens = {t1}
    NoToken = none
    MaxItemRetries = 1
    UnknownThreshold = 1
    MaxSessionFailures = 2
    ScanTakesTime = FALSE
    Requests = {"success"}
    MaxReopen = 0
PROPERTIES
    SuccessIsAbsorbing
