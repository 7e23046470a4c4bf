---------------------------- MODULE SecondFactors ----------------------------
(***************************************************************************)
(* What a request can prove and what it uses up in doing so: one-time      *)
(* codes of authenticators (src/mfa.ts), assertions of passkeys            *)
(* (src/webauthn.ts) and codes sent by email (src/emailOtp.ts).  The login *)
(* pages and the step-up interface are built on it.                        *)
(*                                                                         *)
(* A request is a record with the place it has reached; requests           *)
(* interleave between their database and Redis commands.  A verification   *)
(* ends at "proved" or "refuted", the issue of a code at "issued" or       *)
(* "limited"; the module that uses this one goes on from there.            *)
(***************************************************************************)
EXTENDS Naturals, FiniteSets

CONSTANTS
    Users,
    Requests,       \* HTTP requests being handled
    Authenticators, \* rows of totp_credentials
    Passkeys,       \* rows of webauthn_credentials
    None,
    MaxStep,        \* bound: TOTP time steps
    MaxCodes,       \* bound: codes generated for a user
    MaxAttempts,    \* MAX_ATTEMPTS of emailOtp.ts
    DailyCap        \* DAILY_CAP of emailOtp.ts

ASSUME FactorsAssumption ==
    /\ {MaxStep, MaxCodes, MaxAttempts, DailyCap} \subseteq Nat \ {0}
    /\ None \notin Users

VARIABLES
    req,            \* the requests
    totpOf,         \* owner of an authenticator, None when it is not confirmed
    passkeyOf,      \* owner of a passkey, None when it is not registered
    clock,          \* the current TOTP time step
    stepOf,         \* Redis totp:step:<id>: the last step accepted
    accepted,       \* history: pairs of authenticator and step, with their number
    otp,            \* email_otps of a user
    generated,      \* number of the last code generated for a user
    limit,          \* email_otp_limits of a user
    spent           \* history: email codes that were accepted

factorVars == <<totpOf, passkeyOf, clock, stepOf, accepted, otp,
                generated, limit, spent>>

Steps == 0..(MaxStep + 1)

\* A row of email_otps: the code, as its number; failed attempts; generated
\* within OTP_TTL_SECONDS; sent within OTP_TTL_SECONDS.  No row has code 0.
Rows == [code : 0..MaxCodes, attempts : 0..MaxAttempts,
         fresh : BOOLEAN, live : BOOLEAN]
NoRow == [code |-> 0, attempts |-> 0, fresh |-> FALSE, live |-> FALSE]

\* A row of email_otp_limits; a window that has ended counts as no row.
Limits == [sent : Nat, cooling : BOOLEAN]
NoLimit == [sent |-> 0, cooling |-> FALSE]

FactorTypeOK ==
    /\ totpOf \in [Authenticators -> Users \cup {None}]
    /\ passkeyOf \in [Passkeys -> Users \cup {None}]
    /\ clock \in 1..MaxStep
    /\ stepOf \in [Authenticators -> Steps]
    /\ accepted \in [Authenticators -> [Steps -> Nat]]
    /\ otp \in [Users -> Rows]
    /\ generated \in [Users -> 0..MaxCodes]
    /\ limit \in [Users -> Limits]
    /\ spent \in [Users -> SUBSET (1..MaxCodes)]

FactorInit ==
    /\ clock = 1
    /\ stepOf = [a \in Authenticators |-> 0]
    /\ accepted = [a \in Authenticators |-> [s \in Steps |-> 0]]
    /\ otp = [u \in Users |-> NoRow]
    /\ generated = [u \in Users |-> 0]
    /\ limit = [u \in Users |-> NoLimit]
    /\ spent = [u \in Users |-> {}]

countAuthenticators(u) == Cardinality({a \in Authenticators : totpOf[a] = u})
countPasskeys(u) == Cardinality({p \in Passkeys : passkeyOf[p] = u})

Goto(r, label) == req' = [req EXCEPT ![r].pc = label]

-----------------------------------------------------------------------------
(* Authenticators.                                                         *)

\* CLAIM_STEP_LUA: one command in Redis.
MayClaim_Again(a, s) == s >= stepOf[a]
MayClaim(a, s) == s > stepOf[a]

\* The code typed is that of step s of one authenticator, within a step of
\* now, or it is wrong.
verifyLoginTotp(r) ==
    /\ req[r].pc = "totp"
    /\ \/ \E a \in Authenticators, s \in (clock - 1)..(clock + 1) :
            /\ totpOf[a] = req[r].user
            /\ MayClaim(a, s)
            /\ stepOf' = [stepOf EXCEPT ![a] = s]
            /\ accepted' = [accepted EXCEPT ![a][s] = @ + 1]
            /\ Goto(r, "proved")
       \/ /\ Goto(r, "refuted")
          /\ UNCHANGED <<stepOf, accepted>>
    /\ UNCHANGED <<totpOf, passkeyOf, clock, otp, generated, limit, spent>>

\* A step was accepted when its code was current or a step away from it, so
\* TOTP_STEP_TTL only forgets steps that are no longer accepted anyway.
Tick ==
    /\ clock < MaxStep
    /\ clock' = clock + 1
    /\ UNCHANGED <<req, totpOf, passkeyOf, stepOf, accepted, otp, generated, limit, spent>>

-----------------------------------------------------------------------------
(* Passkeys.                                                               *)

\* The assertion is by a registered passkey of the expected user, where one
\* is expected, and for the challenge the request read; or it is not.
AssertionBy_Anyone(r, p) == passkeyOf[p] # None
AssertionBy(r, p) ==
    /\ passkeyOf[p] # None
    /\ req[r].user \in {None, passkeyOf[p]}

verifyLoginAssertion(r) ==
    /\ req[r].pc = "assertion"
    /\ \/ \E p \in Passkeys :
            /\ req[r].challenge
            /\ AssertionBy(r, p)
            /\ req' = [req EXCEPT ![r].pc = "proved", ![r].user = passkeyOf[p]]
       \/ Goto(r, "refuted")
    /\ UNCHANGED factorVars

-----------------------------------------------------------------------------
(* Codes sent by email.                                                    *)

\* The limits are read ...
checkLimits(r) ==
    /\ req[r].pc = "limits"
    /\ LET l == limit[req[r].user]
       IN Goto(r, IF l.sent >= DailyCap \/ l.cooling THEN "limited" ELSE "existing")
    /\ UNCHANGED factorVars

\* ... then the code that exists ...
readExisting(r) ==
    /\ req[r].pc = "existing"
    /\ req' = [req EXCEPT ![r].pc = "issue", ![r].row = otp[req[r].user]]
    /\ UNCHANGED factorVars

\* ... which is sent again while it may be used, and replaced otherwise ...
issueCode(r) ==
    LET u == req[r].user
        old == req[r].row
    IN /\ req[r].pc = "issue"
       /\ \/ /\ old.code # 0 /\ old.fresh /\ old.attempts < MaxAttempts
             /\ otp' = [otp EXCEPT ![u].live = otp[u].code # 0]
             /\ UNCHANGED generated
          \/ /\ ~(old.code # 0 /\ old.fresh /\ old.attempts < MaxAttempts)
             /\ generated[u] < MaxCodes
             /\ generated' = [generated EXCEPT ![u] = @ + 1]
             /\ otp' = [otp EXCEPT ![u] = [code |-> generated[u] + 1, attempts |-> 0,
                                          fresh |-> TRUE, live |-> TRUE]]
       /\ Goto(r, "count")
       /\ UNCHANGED <<totpOf, passkeyOf, clock, stepOf, accepted, limit, spent>>

\* ... and the sending is counted.
countSending(r) ==
    /\ req[r].pc = "count"
    /\ limit' = [limit EXCEPT ![req[r].user] = [sent |-> @.sent + 1, cooling |-> TRUE]]
    /\ Goto(r, "issued")
    /\ UNCHANGED <<totpOf, passkeyOf, clock, stepOf, accepted, otp, generated, spent>>

issueEmailOtp(r) ==
    checkLimits(r) \/ readExisting(r) \/ issueCode(r) \/ countSending(r)

-----------------------------------------------------------------------------
\* verifyEmailOtp reads the row and compares it with the code typed, the last
\* one sent or some other ...
readOtp(r) ==
    LET row == otp[req[r].user]
    IN /\ req[r].pc = "email"
       /\ IF row.live /\ row.attempts < MaxAttempts
          THEN \E label \in {"match", "miss"} :
                 req' = [req EXCEPT ![r].pc = label, ![r].row = row]
          ELSE Goto(r, "refuted")
       /\ UNCHANGED factorVars

\* ... deletes whatever row there is by then ...
RowAfterMatch_Kept(u) == otp[u]
RowAfterMatch(u) == NoRow

matchOtp(r) ==
    LET u == req[r].user
    IN /\ req[r].pc = "match"
       /\ otp' = [otp EXCEPT ![u] = RowAfterMatch(u)]
       /\ spent' = [spent EXCEPT ![u] = @ \cup {req[r].row.code}]
       /\ req' = [req EXCEPT ![r].pc = "proved", ![r].row = NoRow]
       /\ UNCHANGED <<totpOf, passkeyOf, clock, stepOf, accepted, generated, limit>>

\* ... or stores the successor of the count it read.
missOtp(r) ==
    LET u == req[r].user
    IN /\ req[r].pc = "miss"
       /\ otp' = [otp EXCEPT ![u].attempts =
                    IF otp[u].code = 0 THEN 0 ELSE req[r].row.attempts + 1]
       /\ req' = [req EXCEPT ![r].pc = "refuted", ![r].row = NoRow]
       /\ UNCHANGED <<totpOf, passkeyOf, clock, stepOf, accepted, generated, limit,
                      spent>>

verifyEmailOtp(r) == readOtp(r) \/ matchOtp(r) \/ missOtp(r)

\* Five minutes pass since a code was generated, or since it was sent.
OtpAges(u) ==
    /\ otp[u].fresh \/ otp[u].live
    /\ otp' = [otp EXCEPT ![u].fresh = FALSE, ![u].live = @ /\ otp[u].fresh]
    /\ UNCHANGED <<req, totpOf, passkeyOf, clock, stepOf, accepted, generated, limit,
                   spent>>

\* A minute passes, or the day.
LimitAges(u) ==
    /\ limit[u] # NoLimit
    /\ \E n \in {0, limit[u].sent} : limit' = [limit EXCEPT ![u] = [sent |-> n, cooling |-> FALSE]]
    /\ limit'[u] # limit[u]
    /\ UNCHANGED <<req, totpOf, passkeyOf, clock, stepOf, accepted, otp, generated,
                   spent>>

FactorStep(r) ==
    \/ verifyLoginTotp(r)
    \/ verifyLoginAssertion(r)
    \/ issueEmailOtp(r)
    \/ verifyEmailOtp(r)

TimePasses == Tick \/ \E u \in Users : OtpAges(u) \/ LimitAges(u)

-----------------------------------------------------------------------------
(* Properties.                                                             *)

\* A one-time code of an authenticator is accepted once, however many requests
\* present it at the same time (claimTotpStep).
TotpOnce == \A a \in Authenticators, s \in Steps : accepted[a][s] <= 1

\* A code sent by email that was accepted is never in the table again: neither
\* a late failure nor a late resend brings it back (verifyEmailOtp,
\* issueEmailOtp).
SpentStaysSpent == \A u \in Users : otp[u].code \notin spent[u]

=============================================================================
