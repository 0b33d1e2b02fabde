CONSTANTS
    o1 = o1
    alice = alice
    carol = carol
    None = None
    Outputs = {o1}
    ExpertOutputs = {o1}
    Operators = {alice}
    Reviewers = {carol}
    MaxVersions = 2
    MaxPublications = 2
SPECIFICATION Spec
INVARIANTS UnpublishedFileIsMarked
