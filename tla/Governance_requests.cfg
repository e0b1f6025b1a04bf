SPECIFICATION Spec
CONSTANTS
    ada = ada
    ben = ben
    n = n
    w1 = w1
    w2 = w2
    t1 = t1
    t2 = t2
    Users = {ada, ben}
    Admin = ada
    Writer = ben
    Projects = {p1, p2}
    Warehouses = {w1, w2}
    Namespaces = {n}
    Buckets = {b1, b2, own}
    Reserved = {own}
    Replicas = {s1, s2}
    c1 = c1
    c2 = c2
    Workers = {c1, c2}
    Traffic <- SomeTraffic
    Tables = {t1, t2}
    Home <- AllInOne
    Rungs = {"owner"}
    Grantees = {ben}
    Root = root
    Default = default
    None = None
INVARIANTS
    TenantsApart
    CacheAgrees
    NothingOrphaned
    NoStaleGrant
PROPERTIES
    QuarantineHolds
    CompensationKeepsData
    TakenByItsOwner
CHECK_DEADLOCK FALSE
SYMMETRY GovernanceSymmetry
