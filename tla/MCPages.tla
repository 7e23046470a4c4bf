------------------------------ MODULE MCPages -------------------------------
(* The instance of what a person meets page by page: signing in, the       *)
(* challenges of the account pages, the panes of the organization, profile *)
(* and picture.  Each behaviour is one of the chosen part, the others rest.*)
(* At sign-in two users, one of whom signs in with an emailed code, and    *)
(* two requests.                                                           *)
EXTENDS LoginTxn, Challenges, OrgPane, Profile, TLC

VARIABLE part
pagesVars == <<part, vars, challengeVars, orgVars, profileVars>>

Symmetry == Permutations(Requests) \cup Permutations(Passkeys)
MCAsks == [v \in {"security", "totp", "passkeys", "password", "change"} |-> 2] @@ "org" :> 1
MCCards == [v \in {"security", "totp", "passkeys", "password", "change", "org"} |-> 1]
MCSent == "user" :> 3 @@ "roles" :> 3

FirstChallenge == ChallengeInit("change", <<"totp">>, TRUE, TRUE)
AnyChallenge ==
    \/ FirstChallenge
    \/ \E f \in BOOLEAN : ChallengeInit("security", <<"email", "totp">>, TRUE, f)
    \/ ChallengeInit("totp", <<"password">>, TRUE, TRUE)
    \/ ChallengeInit("passkeys", <<"passkey">>, TRUE, TRUE)
    \/ ChallengeInit("password", << >>, TRUE, FALSE)
    \/ ChallengeInit("org", <<"passkey", "totp">>, TRUE, TRUE)
    \/ ChallengeInit("org", <<"totp">>, FALSE, TRUE)
AnyPane == OrgInit("user", {}) \/ OrgInit("roles", {}) \/ OrgInit("roles", Entries \ {First})

(* Who owns which factor matters to the sign-in only.                      *)
OwnedByOne ==
    \E u \in {CHOOSE u \in Users : TRUE} :
        /\ \A a \in Authenticators : totpOf[a] = u
        /\ \A k \in Passkeys : passkeyOf[k] = u
        /\ sessions[1].sub = u

PagesInit ==
    /\ Init /\ ProfileInit
    /\ \/ part \in {"login", "profile"} /\ FirstChallenge /\ OrgInit("user", {})
       \/ part = "challenge" /\ AnyChallenge /\ OrgInit("user", {})
       \/ part = "org" /\ FirstChallenge /\ AnyPane
    /\ part # "login" => OwnedByOne
LoginStep ==
    part = "login" /\ Next /\ UNCHANGED <<part, challengeVars, orgVars, profileVars>>
ChallengeStep ==
    part = "challenge" /\ ChallengeNext /\ UNCHANGED <<part, vars, orgVars, profileVars>>
OrgStep ==
    part = "org" /\ OrgNext /\ UNCHANGED <<part, vars, challengeVars, profileVars>>
(* The profile's two requests differ in nothing: "one" comes first.        *)
ProfileStep ==
    /\ part = "profile" /\ ProfileNext /\ (made = 0 => jobs'["two"].at = "idle")
    /\ UNCHANGED <<part, vars, challengeVars, orgVars>>
PagesNext == LoginStep \/ ChallengeStep \/ OrgStep \/ ProfileStep
PagesSpec == PagesInit /\ [][PagesNext]_pagesVars
=============================================================================
