CONSTANTS
    w1 = w1
    w2 = w2
    NumItems = 1
    Workers = {w1, w2}
    MaxRetries = 0
    Limit = 1
    MaxCopies = 1
    MaxCrashes = 0
    MaxScans = 0
SPECIFICATION Spec
INVARIANT ExtractedOnce
CHECK_DEADLOCK FALSE
