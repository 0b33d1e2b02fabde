CONSTANTS
    w1 = w1
    w2 = w2
    NumItems = 1
    Workers = {w1}
    MaxRetries = 1
    Limit = 1
    MaxCopies = 1
    MaxCrashes = 0
    MaxScans = 0
SPECIFICATION FairSpec
PROPERTY NextPassPicksUp
CHECK_DEADLOCK FALSE
