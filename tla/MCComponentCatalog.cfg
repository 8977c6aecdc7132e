SPECIFICATION MCSpec
CONSTANTS
    p = p
    p2 = p2
    q = q
    n = n
    m = m
    P = P
    Q = Q
    small = small
    large = large
    None = None
    Token = {p, p2, q}
    Name = {n, m}
    KeyOf <- MCKeyOf
    InfoOf <- MCInfoOf
    Setups <- MCSetups
    InvalidIndex = 3
    VersionModulus = 4
    MaxUsers = 1
    MaxJobs = 1
    MaxStamp = 2
    MaxTopology = 6
INVARIANTS
    CatalogAgrees
    BindingsAgree
    ViewIsCurrent
    JobsKeepTheirEntity
PROPERTIES
    RestoreReturnsSnapshot
CHECK_DEADLOCK FALSE
