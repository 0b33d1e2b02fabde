SPECIFICATION Spec
CONSTANTS
    Claims = {1, 3}
    Observations = {13}
    References = {}
    ContentItems = {21, 22}
    ItemOf <- ItemsMC
    WeekOf <- WeeksMC
    EventOf <- EventsMC
    Operators = {o1}
    Detectors = {w}
    MaxSignals = 2
    MaxAdvice = 1
    RecommendTop = 1
    Assets = {a}
    Terms = {t}
    Admins = {p1}
    Contacts = {c1}
    MaxVersions = 2
    Proposed = {c}
    NamedBy <- NamedByMC
    Sightings = {1}
    MediaOf <- MediaMC
    Analysts = {q1}
    People = {e1}
    Organisations = {1}
    Tabs = {t1}
    MaxInvites = 0
    MaxGrants = 1
    Runners = {r1}
    Retention = 1
    LastNight = 0
    MaxDumps = 0
    Parts = {"entered"}
INVARIANT EarnedIsKept
CHECK_DEADLOCK FALSE
