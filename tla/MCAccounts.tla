----------------------------- MODULE MCAccounts -----------------------------
(***************************************************************************)
(* A person's account: password reset; registration by invitation;         *)
(* registration without one beside changes of address; and the sessions of *)
(* the account portal.  A behaviour is one of the four.                    *)
(***************************************************************************)
EXTENDS PasswordReset, EmailChange, PortalSessions, TLC

CONSTANT Founder    \* the account that changes its address

VARIABLES
    part,
    lapses      \* what a bound counts: expired indexes, or requests and invitations that fail

lapseOf(happens) == lapses' = IF happens THEN lapses + 1 ELSE lapses

\* Bound on the portal: two of its sessions, or one and a fault, an index that expires or
\* a session written anew.
PortalBound ==
    /\ lapseOf(\E s \in Ssos : indexExpires(s))
    /\ Cardinality({b \in Sids : boundTo'[b] # None}) + Cardinality(revived') + faults' + lapses' <= 2

\* Bound on registration: for each request that fails, and each invitation that is voided
\* or expires, one request less.
RegisterBound ==
    /\ lapseOf((\E j \in Jobs : requestFails(j)) \/ (\E c \in Invites : voidInvite(c) \/ expireInvite(c)))
    /\ lapses' <= toCome'

AccountsInit ==
    /\ part \in {"reset", "register", "change", "portal"}
    /\ lapses = 0
    /\ Init
    /\ ResetInit
    /\ part # "reset" => methods = {}
    /\ IF part = "change" THEN RegistrationInit({Founder}, MaxJobs - 1)
                         ELSE RegistrationInit({}, MaxJobs)
    /\ ChangeInit

AccountsNext ==
    /\ UNCHANGED part
    /\ \/ part = "reset" /\ ResetNext /\ UNCHANGED <<lapses, registrationVars, changeVars, vars>>
       \/ /\ part = "register" /\ RegistrationNext(Held, Invites) /\ RegisterBound
          /\ UNCHANGED <<resetVars, changeVars, vars>>
       \/ part = "change" /\ AddressNext /\ UNCHANGED <<lapses, resetVars, vars>>
       \/ /\ part = "portal" /\ Next /\ PortalBound
          /\ UNCHANGED <<resetVars, registrationVars, changeVars>>

accountVars == <<part, lapses, resetVars, registrationVars, changeVars, vars>>

AccountsSpec == AccountsInit /\ [][AccountsNext]_accountVars

AccountsTypeOK == ResetTypeOK /\ AddressTypeOK

\* The configuration gives Jobs and Deliveries the value of Handlers, and
\* VerifyLinks and Sids that of Links: one permutation renames them together.
Symmetry ==
    UNION {Permutations(Links), Permutations(Handlers), Permutations(Addresses)}
=============================================================================
