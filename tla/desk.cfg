SPECIFICATION Spec
CONSTANTS
    Claims = {1, 2, 3}
    Observations = {13}
    References = {}
    ContentItems = {21, 22}
    ItemOf <- ItemsMC
    WeekOf <- WeeksMC
    EventOf <- EventsMC
    Operators = {o1}
    Detectors = {w}
    MaxSignals = 2
    MaxAdvice = 2
    RecommendTop = 1
    Assets = {a}
    Terms = {t}
    Admins = {p1, p2}
    Contacts = {c1}
    MaxVersions = 2
    Proposed = {c}
    NamedBy <- NamedByMC
    Sightings = {1, 2}
    MediaOf <- MediaMC
    Analysts = {q1, q2}
    People = {e1, e2}
    Organisations = {1, 2}
    Tabs = {t1, t2}
    MaxInvites = 2
    MaxGrants = 3
    Runners = {r1, r2}
    Retention = 1
    LastNight = 3
    MaxDumps = 3
    Parts = {"signals", "marked", "entered", "advice", "profiles", "candidates", "portal", "backups"}
INVARIANTS
    MergedIsKept
    DetectedIsCrossSource
    OneOpenRecommendation
    CitesItsEvidence
    OneLiveProfile
    ApprovalStands
    AccessWasGranted
    AlwaysRestorable
CHECK_DEADLOCK FALSE
