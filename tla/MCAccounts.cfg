SPECIFICATION AccountsSpec
SYMMETRY Symmetry
CONSTANTS
    Links = {l1, l2}
    Handlers = {h1, h2}
    NoLink = NoLink
    MethodSets = {{}, {"totp", "passkey"}}
    MaxAttempts = 2
    MaxResetSends = 1
    MaxPasswords = 2
    MaxLogins = 1
    Addresses = {e1, e2}
    Invites = {i1}
    Members = {m1, m2}
    Jobs = {h1, h2}
    Nil = Nil
    MaxUses = 1
    MaxSends = 1
    MaxJobs = 4
    VerifyLinks = {l1, l2}
    MayChange = {m1}
    Founder = m1
    MaxSso = 2
    Sids = {l1, l2}
    Deliveries = {h1, h2}
    Logins = {g1}
    Calls = {c1}
    None = None
    MaxFaults = 1
INVARIANTS
    LinkStaysDead
    OldPasswordOut
    InviteBounded
    AddressHeldOnce
    OneHandler
    OnlyRevivedSurvive
CHECK_DEADLOCK FALSE
