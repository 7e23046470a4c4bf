SPECIFICATION Spec
CONSTANTS
    Sids = {s1, s2}
    Apps = {a1}
    Codes = {c1, c2}
    Redeemers = {r1}
    Removers = {w1}
    Nobody = Nobody
    MaxTime = 3
    IdleHours = 2
    MaxHours = 3
    TransientMaxHours = 2
    Users = {u1}
    Requests = {q1, q2}
    Authenticators = {t1}
    Passkeys = {p1}
    None = None
    MayDisable = {}
    Verified = {u1}
    MaxFails = 2
    MaxAuthenticators = 1
    MaxPasskeys = 1
    MaxBegun = 3
INVARIANTS
    StrandedOnlyByOverlap
    GuessesBounded
PROPERTIES
    StrandedEnds
    LastSeenForward
    
CHECK_DEADLOCK FALSE
