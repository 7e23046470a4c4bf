------------------------------- MODULE StepUp -------------------------------
(***************************************************************************)
(* The step-up of a session (src/routes/stepup.ts) and what it opens: the  *)
(* Security pane, where factors are added and removed                      *)
(* (src/routes/security.ts, src/mfa.ts, src/webauthn.ts).  Each user has   *)
(* one session here.  Requests interleave between their commands: the gate *)
(* reads the stamp, a check reads the factors, and the change comes later. *)
(* What a verification reads and uses up is in SecondFactors; here only    *)
(* its outcome counts.                                                     *)
(***************************************************************************)
EXTENDS Naturals, FiniteSets

CONSTANTS
    Users,
    Requests,       \* HTTP requests being handled
    Authenticators, \* rows of totp_credentials
    Passkeys,       \* rows of webauthn_credentials
    None,
    MayDisable,     \* users with profile.security.mfa.disable
    Verified,       \* users with a verified email address
    MaxFails,       \* MAX_FAILS of stepup.ts
    MaxAuthenticators, MaxPasskeys,
    MaxBegun        \* bound: requests in a behaviour

ASSUME StepUpAssumption ==
    /\ MayDisable \cup Verified \subseteq Users
    /\ {MaxFails, MaxAuthenticators, MaxPasskeys, MaxBegun} \subseteq Nat \ {0}
    /\ None \notin Users
    /\ IsFiniteSet(Authenticators) /\ IsFiniteSet(Passkeys)

VARIABLES
    req,            \* the requests
    totpOf,         \* owner of an authenticator, None when it is not confirmed
    passkeyOf,      \* owner of a passkey, None when it is not registered
    stamp,          \* stepup_method of the session and the age of stepup_at
    fails,          \* Redis stepup:fail:<sub>: count, and whether it has a time to live
    tries,          \* history: verifications begun in the current window
    asked,          \* Redis stepup:pk:<sid>: users with a challenge
    mfaOn,          \* users with mfa_enabled
    setup,          \* unconfirmed rows of totp_credentials: their owner
    registering,    \* Redis acct:webauthn:reg:<sub>: users with a challenge
    raced,          \* history: users with two removals under way at one time
    begun           \* requests so far

factors == <<totpOf, passkeyOf>>
stepUpVars == <<req, factors, stamp, fails, tries, asked, mfaOn, setup, registering, raced, begun>>

Proofs == {"passkey", "totp", "email", "password"}

\* Age: within FACTOR_STEPUP_MAX_S, within the validity, or older.
Stamps == [method : Proofs \cup {"none"}, age : 0..2]

Waiting == [pc |-> "idle", user |-> None, method |-> "none", item |-> None]

Changes == {"enable", "disable", "setup", "confirm", "register", "dropTotp", "dropPasskey",
            "options"}
StepUpLabels == {"idle", "expire", "take", "prove", "stamp", "clear", "check", "change"}

StepUpTypeOK ==
    /\ req \in [Requests -> [pc : StepUpLabels, user : Users \cup {None},
                             method : Proofs \cup Changes \cup {"none"},
                             item : Authenticators \cup Passkeys \cup {None}]]
    /\ totpOf \in [Authenticators -> Users \cup {None}]
    /\ passkeyOf \in [Passkeys -> Users \cup {None}]
    /\ stamp \in [Users -> Stamps]
    /\ \A u \in Users : fails[u].count \in Nat /\ fails[u].ttl \in BOOLEAN
    /\ tries \in [Users -> Nat]
    /\ setup \in [Authenticators -> Users \cup {None}]
    /\ \A a \in Authenticators : None \in {setup[a], totpOf[a]}
    /\ UNION {asked, mfaOn, registering, raced} \subseteq Users
    /\ begun \in 0..MaxBegun

\* The login that made the session stamped it with what it proved.
StepUpInit ==
    /\ totpOf \in [Authenticators -> Users \cup {None}]
    /\ passkeyOf \in [Passkeys -> Users \cup {None}]
    /\ req = [r \in Requests |-> Waiting]
    /\ \E m \in Proofs : stamp = [u \in Users |-> [method |-> m, age |-> 0]]
    /\ fails = [u \in Users |-> [count |-> 0, ttl |-> FALSE]]
    /\ tries = [u \in Users |-> 0]
    /\ asked = {} /\ registering = {} /\ raced = {}
    /\ mfaOn = {}
    /\ setup = [a \in Authenticators |-> None]
    /\ begun = 0

begin(r) ==
    /\ req[r].pc = "idle"
    /\ begun < MaxBegun
    /\ begun' = begun + 1

Goto(r, label) == req' = [req EXCEPT ![r].pc = label]
Finish(r) == req' = [req EXCEPT ![r] = Waiting]

countAuthenticators(u) == Cardinality({a \in Authenticators : totpOf[a] = u})
countPasskeys(u) == Cardinality({p \in Passkeys : passkeyOf[p] = u})

-----------------------------------------------------------------------------
(* stepupPolicy.ts.                                                        *)

StrongOf(u) ==
    {m \in {"passkey", "totp"} : \/ m = "passkey" /\ countPasskeys(u) > 0
                                 \/ m = "totp" /\ countAuthenticators(u) > 0}

\* acceptedStepupMethods in the mode "fallback".
acceptedFallback(u) ==
    IF StrongOf(u) # {} THEN StrongOf(u)
    ELSE IF u \in Verified \cap mfaOn THEN {"email"} ELSE {"password"}

\* requireSecurityStepup: the toggle of MFA goes by the validity alone.
requireSecurityStepup(u, change) ==
    /\ stamp[u].method \in acceptedFallback(u)
    /\ stamp[u].age < IF change \in {"enable", "disable"} THEN 2 ELSE 1

-----------------------------------------------------------------------------
(* The step-up.                                                            *)

passkeyOptions(r, u) ==
    /\ begin(r)
    /\ countPasskeys(u) > 0
    /\ asked' = asked \cup {u}
    /\ UNCHANGED <<req, factors, stamp, fails, tries, mfaOn, setup, registering, raced>>

\* Where a verification goes once its attempt is reserved.
Begin(m) == IF m = "passkey" THEN "take" ELSE "prove"

\* POST /account/stepup/verify: INCR, and the answer 429 over the limit.
Reserved_Stale(u) == fails[u].count <= MaxFails
Reserved(u) == fails[u].count + 1 <= MaxFails

verify(r, u, m) ==
    /\ begin(r)
    /\ fails[u].count <= MaxFails     \* bound: one refused request says it all
    /\ m = "email" => u \in Verified
    /\ fails' = [fails EXCEPT ![u].count = @ + 1]
    /\ IF Reserved(u)
       THEN /\ tries' = [tries EXCEPT ![u] = @ + 1]
            /\ req' = [req EXCEPT ![r].user = u, ![r].method = m,
                                  ![r].pc = IF fails[u].count = 0 THEN "expire" ELSE Begin(m)]
       ELSE UNCHANGED <<tries, req>>
    /\ UNCHANGED <<factors, stamp, asked, mfaOn, setup, registering, raced>>

\* EXPIRE comes after the first INCR; a stop in between leaves a counter that
\* never ends.
expireWindow(r) ==
    /\ req[r].pc = "expire"
    /\ \/ /\ fails' = [fails EXCEPT ![req[r].user].ttl = fails[req[r].user].count > 0]
          /\ Goto(r, Begin(req[r].method))
       \/ Finish(r) /\ UNCHANGED fails
    /\ UNCHANGED <<factors, stamp, tries, asked, mfaOn, setup, registering, raced, begun>>

\* GETDEL of the passkey's challenge.
takeChallenge(r) ==
    LET u == req[r].user
    IN /\ req[r].pc = "take"
       /\ asked' = asked \ {u}
       /\ IF u \in asked THEN Goto(r, "prove") ELSE Finish(r)
       /\ UNCHANGED <<factors, stamp, fails, tries, mfaOn, setup, registering, raced, begun>>

\* The proof fails, or it is one that the user can give.
Provable(u) == StrongOf(u) \cup {"password"} \cup (IF u \in Verified THEN {"email"} ELSE {})

prove(r) ==
    /\ req[r].pc = "prove"
    /\ \/ req[r].method \in Provable(req[r].user) /\ Goto(r, "stamp")
       \/ Finish(r)
    /\ UNCHANGED <<factors, stamp, fails, tries, asked, mfaOn, setup, registering, raced, begun>>

stampSession(r) ==
    /\ req[r].pc = "stamp"
    /\ stamp' = [stamp EXCEPT ![req[r].user] = [method |-> req[r].method, age |-> 0]]
    /\ Goto(r, "clear")
    /\ UNCHANGED <<factors, fails, tries, asked, mfaOn, setup, registering, raced, begun>>

\* DEL of the counter and of the challenge.
clearFails(r) ==
    LET u == req[r].user
    IN /\ req[r].pc = "clear"
       /\ fails' = [fails EXCEPT ![u] = [count |-> 0, ttl |-> FALSE]]
       /\ tries' = [tries EXCEPT ![u] = 0]
       /\ asked' = asked \ {u}
       /\ Finish(r)
       /\ UNCHANGED <<factors, stamp, mfaOn, setup, registering, raced, begun>>

WindowEnds(u) ==
    /\ fails[u].ttl
    /\ fails' = [fails EXCEPT ![u] = [count |-> 0, ttl |-> FALSE]]
    /\ tries' = [tries EXCEPT ![u] = 0]
    /\ UNCHANGED <<req, factors, stamp, asked, mfaOn, setup, registering, raced, begun>>

StampAges(u) ==
    /\ stamp[u].age < 2
    /\ stamp' = [stamp EXCEPT ![u].age = @ + 1]
    /\ UNCHANGED <<req, factors, fails, tries, asked, mfaOn, setup, registering, raced, begun>>

-----------------------------------------------------------------------------
(* The Security pane.                                                      *)

Removals == {"dropTotp", "dropPasskey"}

\* The gate of every change; renaming a factor has none and changes nothing
\* that is modelled.
enterChange(r, u, change) ==
    /\ begin(r)
    /\ change = "disable" => u \in MayDisable
    /\ requireSecurityStepup(u, change)
    /\ \E i \in Authenticators \cup Passkeys \cup {None} :
         /\ CASE change \in {"confirm", "setup"} -> i \in Authenticators
              [] change = "dropTotp" -> i \in Authenticators /\ u \in {totpOf[i], setup[i]}
              [] change = "register" -> i \in Passkeys
              [] change = "dropPasskey" -> i \in Passkeys /\ passkeyOf[i] = u
              [] OTHER -> i = None
         /\ req' = [req EXCEPT ![r].pc = "check", ![r].user = u, ![r].method = change,
                               ![r].item = i]
    /\ UNCHANGED <<factors, stamp, fails, tries, asked, mfaOn, setup, registering, raced>>

\* blocksLastFactor.
blocksLastFactor_Zero(u) == countAuthenticators(u) + countPasskeys(u) = 0 /\ u \notin MayDisable
blocksLastFactor(u) == countAuthenticators(u) + countPasskeys(u) <= 1 /\ u \notin MayDisable

\* What is read before the change: the caps, or the factors that remain.
checkChange(r) ==
    LET u == req[r].user
        change == req[r].method
        blocked == CASE change \in {"setup", "confirm"} -> countAuthenticators(u) >= MaxAuthenticators
                     [] change \in {"options", "register"} -> countPasskeys(u) >= MaxPasskeys
                     [] change \in Removals -> blocksLastFactor(u)
                     [] OTHER -> FALSE
    IN /\ req[r].pc = "check"
       /\ IF blocked THEN Finish(r) /\ UNCHANGED raced
          ELSE /\ Goto(r, "change")
               /\ raced' = IF /\ change \in Removals
                              /\ \E q \in Requests \ {r} : /\ req[q].pc = "change"
                                                           /\ req[q].user = u
                                                           /\ req[q].method \in Removals
                           THEN raced \cup {u} ELSE raced
       /\ UNCHANGED <<factors, stamp, fails, tries, asked, mfaOn, setup, registering, begun>>

\* The unconfirmed rows after a change.
SetupAfter_Kept(u, change, i) ==
    IF change = "setup" /\ totpOf[i] = None THEN [setup EXCEPT ![i] = u] ELSE setup
SetupAfter(u, change, i) ==
    CASE change = "setup" -> [a \in Authenticators |->
                                IF a = i /\ totpOf[a] = None /\ setup[a] \in {u, None} THEN u
                                ELSE IF setup[a] = u THEN None ELSE setup[a]]
      [] change \in {"confirm", "dropTotp"} -> [setup EXCEPT ![i] = IF @ = u THEN None ELSE @]
      [] OTHER -> setup

\* The change itself.  A setup replaces the unconfirmed rows of the user, a
\* confirmation needs its row, a registration its challenge; a removal deletes
\* the row, confirmed or not, only while it belongs to the user of the request.
applyChange(r) ==
    LET u == req[r].user
        change == req[r].method
        i == req[r].item
    IN /\ req[r].pc = "change"
       /\ mfaOn' = CASE change = "enable" -> mfaOn \cup {u}
                     [] change = "disable" -> mfaOn \ {u}
                     [] OTHER -> mfaOn
       /\ setup' = SetupAfter(u, change, i)
       /\ totpOf' = CASE change = "confirm" /\ setup[i] = u -> [totpOf EXCEPT ![i] = u]
                      [] change = "dropTotp" -> [totpOf EXCEPT ![i] = IF @ = u THEN None ELSE @]
                      [] OTHER -> totpOf
       /\ registering' = CASE change = "options" -> registering \cup {u}
                           [] change = "register" -> registering \ {u}
                           [] OTHER -> registering
       /\ passkeyOf' = CASE change = "register" /\ u \in registering /\ passkeyOf[i] = None ->
                              [passkeyOf EXCEPT ![i] = u]
                         [] change = "dropPasskey" -> [passkeyOf EXCEPT ![i] = IF @ = u THEN None ELSE @]
                         [] OTHER -> passkeyOf
       /\ Finish(r)
       /\ UNCHANGED <<stamp, fails, tries, asked, raced, begun>>

StepUpNext ==
    \/ \E r \in Requests :
        \/ \E u \in Users : \/ passkeyOptions(r, u)
                            \/ \E m \in Proofs : verify(r, u, m)
                            \/ \E change \in Changes : enterChange(r, u, change)
        \/ expireWindow(r) \/ takeChallenge(r) \/ prove(r) \/ stampSession(r)
        \/ clearFails(r) \/ checkChange(r) \/ applyChange(r)
    \/ \E u \in Users : WindowEnds(u) \/ StampAges(u)

-----------------------------------------------------------------------------
(* Properties.                                                             *)

\* However many requests verify at the same time, no more than MaxFails
\* verifications begin between two clearings of the counter (INCR before the
\* verification).
GuessesBounded == \A u \in Users : tries[u] <= MaxFails

\* A user who may not disable MFA and has a strong factor keeps one through
\* any sequence of changes, except when two removals passed their check at the
\* same time (blocksLastFactor).
LastFactorKept ==
    [][\A u \in Users \ (MayDisable \cup raced') :
         StrongOf(u) # {} => StrongOf(u)' # {}]_stepUpVars

=============================================================================
