SPECIFICATION Spec
CONSTANTS
    Items = {1, 2, 3, 4, 5, 6}
    DayOf <- DayOfMC
    SourceOf <- SourceOfMC
    CreatorOf <- CreatorOfMC
    RouteOf <- RouteOfMC
    Claims = {1, 2, 3, 4, 5, 6, 7}
    ItemOf <- ItemOfMC
    Cited = {2, 6}
    MinItems = 1
    MinSources = 1
    Entries = {"hero", "tail", "readers"}
    GroupOf <- GroupOfMC
    WeightOf <- WeightOfMC
    Named <- NamedMC
    Log2 <- Log2MC
    LastDay = 42
    Developments = {1, 2}
    Observations = {1, 2}
    PublishedOn <- PublishedOnMC
    Quotes = 2
    Dissents = 1
    Window = 30
    PerSection = 1
    KindOf <- KindOfMC
    Parts = {"scores", "brief", "package", "opportunities"}
INVARIANTS
    TrendIsRising
    WithinItsParts
    NumbersAgree
    ReferencesResolve
PROPERTY EvidenceCounts
CHECK_DEADLOCK FALSE
