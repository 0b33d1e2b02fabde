CONSTANTS
    o1 = o1
    alice = alice
    bob = bob
    carol = carol
    None = None
    Outputs = {o1}
    ExpertOutputs = {o1}
    Operators = {alice, bob}
    Reviewers = {carol}
    MaxVersions = 2
    MaxPublications = 2
SPECIFICATION Spec
INVARIANTS TypeOK OneLivePublication PublishedWasApproved ReviewBeforePublication MailFollowsCommit TrackerPublishedIsShown
PROPERTIES TakenDownStaysDown MeetsContract
SYMMETRY OperatorSymmetry
