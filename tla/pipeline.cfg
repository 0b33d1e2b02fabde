CONSTANTS
    w1 = w1
    w2 = w2
    NumItems = 2
    Workers = {w1, w2}
    MaxRetries = 1
    Limit = 1
    MaxCopies = 2
    MaxCrashes = 2
    MaxScans = 1
SPECIFICATION MCSpec
INVARIANTS TypeOK NothingIsLost SpendsOnlyOnPassed
SYMMETRY WorkerSymmetry
CHECK_DEADLOCK FALSE
