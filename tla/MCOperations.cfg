SPECIFICATION OpsSpec
CONSTANTS
    Processes = {p1, p2}
    Origins = {p1}
    Verifiers = {v1}
    None = None
    MaxKid = 2
    MaxTime = 5
    Window = 2
    Retain = 3
    OriginAge = 2
    ReadMax = 1
    EdgeAge = 1
    Cooldown = 1
    TokenLife = 1
    SignLag = 0
    CommitLag = 1
    MaxKey = 3
    MaxRetired = 2
    Propagation = 3
    Retention = 3
    EdgeTtl = 2
    Transport = 1
    FreshFor = 3
    Cooling = 1
    AssertionTtl = 1
    Tabs = {1, 2}
    Names = {1, 2}
    MaxMade = 2
    MaxBoots = 2
    MaxPosts = 3
    MaxWork = 2
    Boots = {b1, b2, b3}
    Baseline = {2}
    Releases = {{2, 3}, {1, 2, 3}}
    MaxCuts = 2
    NoBoot = NoBoot
INVARIANTS
    TokensVerify
    OneSigner
    RotationSafe
    SetupSound
    ClosedUnderNobody
    MigratedOnce
PROPERTIES
    KeysMoveForward
CHECK_DEADLOCK FALSE
