CONSTANTS
    i1 = i1
    i2 = i2
    i3 = i3
    w1 = w1
    w2 = w2
    c1 = c1
    c2 = c2
    c3 = c3
    post1 = post1
    post2 = post2
    nopost = nopost
    NoPost = nopost
    Readers = {1}
    VirloBases = {b2}
    b1 = b1
    b2 = b2
    feed = feed
    stream = stream
    forum = forum
    None = None
    Items = {i1, i2, i3}
    Workers = {w1, w2}
    Texts <- SomeTexts
    MinShingles = 2
    LookAlikes <- SomePairs
    Sources = {feed, stream}
    Social = {stream}
    OnVirlo = {stream}
    Collectors = {1, 2}
    Posts = {post1, post2}
    Wordings = {"w1", "w2"}
    Bases = {b1, b2}
    BasesFor <- SomeBasesFor
    PollCalls = 2
    MonthCap = 2
    Answers <- SomeAnswers
    PollRetries = 1
    MaxRuns = 4
    MaxFaults = 1
    CueTexts <- SomeCues
    TailLength = 4
    SegmentLength = 4
    BatchLength = 8
    AnswerLength = 5
    MaxCues = 3
    Callers = {c1, c2, c3}
    Cap = 4
    PerCallMax = 2
    Estimates = {1, 2, 3}
    MaxCost = 2
    MaxLosses = 2
    Walkers = {w1, w2}
    MaxWalks = 3
    MaxTurns = 1
SPECIFICATION MCSpec
PROPERTY MeetsConversations
INVARIANTS
    LedgerBounded BillBounded
    LongerIsKept OnlyRelatedMerged KeptUnlessTied
    RunsAccountForRows RecordedBasis OperatorDecides SpendIsBounded
    RouteIsExplained
    AnchorsFollowText SegmentsAreTimed EverySegmentIsAsked
SYMMETRY SomeSymmetry
CHECK_DEADLOCK FALSE
