CONSTANTS
    w1 = w1
    w2 = w2
    NumItems = 1
    Workers = {w1, w2}
    MaxRetries = 0
    Limit = 1
    MaxCopies = 1
    MaxCrashes = 1
    MaxScans = 1
SPECIFICATION FairSpec
PROPERTIES EventuallyJudged EventuallySettled
CHECK_DEADLOCK FALSE
