SPECIFICATION PagesSpec
CONSTANTS
    Users = {u1, u2}
    Requests = {r1, r2}
    Authenticators = {a1}
    Passkeys = {p1, p2}
    None = None
    MaxStep = 1
    MaxCodes = 2
    MaxAttempts = 2
    DailyCap = 1
    Txns = {t1}
    Apps = {app}
    MfaUsers = {u1, u2}
    EmailUsers = {u2}
    Cap = 2
    MaxSessions = 2
    MaxRequests = 4
    MaxAsks <- MCAsks
    MaxCards <- MCCards
    MaxRuns = 2
    MaxMinted = 2
    Entries = {"a", "b"}
    NoEntry = NoEntry
    NoDetail = NoDetail
    MaxSent <- MCSent
    MaxCalls = 2
SYMMETRY Symmetry
INVARIANTS
    TotpOnce
    SpentStaysSpent
    FactorProven
    AskedOnce
    WrittenAsShown
    PictureSound
PROPERTIES
    StagedKept
CHECK_DEADLOCK FALSE
