SPECIFICATION Spec
CONSTANTS
    Tags = {g}
    MaxVersions = 3
    Schemas = {"s1", "s2"}
    Clients = {a, b}
    Nobody = nobody
    MaxDoubts = 1
    Rules <- TwoRules
    Unset = Unset
    Reviewers = {a, b}
    Shapes = {s}
    TagRows = {t}
    Fields = {f1, f2}
    Drawn = drawn
INVARIANTS
    EventDescribesItsVersion
    FragmentsAsTold
    DrawnOnItsBase
PROPERTIES
    SweepObeysPolicy
CHECK_DEADLOCK FALSE
SYMMETRY SharingSymmetry
