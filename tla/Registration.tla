----------------------------- MODULE Registration -----------------------------
(***************************************************************************)
(* Self-serve registration (src/registration.ts, src/routes/register.ts):  *)
(* invitations in Postgres, one pending registration per address in Redis, *)
(* a link by mail, and the account at the end.  An invitation is read at   *)
(* the start of a request and changed later from what was read.            *)
(* EmailChange adds the other flow that holds addresses.                   *)
(***************************************************************************)
EXTENDS SendLimiter, FiniteSets

CONSTANTS
    Addresses,      \* email addresses
    Invites,        \* invitation codes
    Members,        \* accounts: those that exist and those to come
    Jobs,           \* requests being handled
    Nil,
    MaxUses,        \* MAX_CODE_USES
    MaxSends,       \* RL_MAX_SENDS
    MaxJobs         \* bound: requests in a behaviour

ASSUME RegistrationAssumption ==
    /\ {MaxUses, MaxSends, MaxJobs} \subseteq Nat \ {0}
    /\ Nil \notin Addresses \cup Invites \cup Members
    /\ IsFiniteSet(Jobs)

VARIABLES
    budget,         \* reg:rl:<email>
    pending,        \* reg:pending:<email>
    invite,         \* table invitation_codes
    emailOf,        \* identities.email
    job,            \* the requests
    toCome,         \* bound: requests still to come
    bornOf,         \* history: the invitation an account came from
    loosened,       \* history: invitations with two completions under way, or with one
                    \* that stopped between the account and consumeInvite
    overlapped      \* history: addresses with two requests for them under way, or a
                    \* change link without its hold (EmailChange)

registrationVars ==
    <<budget, pending, invite, emailOf, job, toCome, bornOf, loosened, overlapped>>

\* A pending registration: its invitation, whether the link was sent less than 5 minutes
\* ago, whether it was delivered, and whether the record has a time to live.
Pendings == [code : Invites \cup {Nil}, recent : BOOLEAN, mailed : BOOLEAN,
             expires : BOOLEAN, held : BOOLEAN]
Vacant == [code |-> Nil, recent |-> FALSE, mailed |-> FALSE, expires |-> FALSE, held |-> FALSE]

Rows == [state : {"live", "voided", "expired", "used", "deleted"},
         uses : 0..MaxUses + Cardinality(Jobs), pending : Addresses \cup {Nil}]

NoJob == [pc |-> "idle", email |-> Nil, code |-> Nil, uses |-> 0, holder |-> Nil,
          read |-> Vacant, kind |-> "none", found |-> Nil]

Ready(j) == job[j].pc = "idle" /\ toCome > 0
step(j, pc) == job' = [job EXCEPT ![j].pc = pc]
done(j) == job' = [job EXCEPT ![j] = NoJob]

\* Requests that have found address e free and have yet to write their claim on it.
Claiming(e) ==
    {j \in Jobs : job[j].email = e
                    /\ job[j].pc \in {"claim", "issue", "write", "chgRead", "chgWrite", "assign"}}

\* A request begins with address e.
enter(j, e, rec) ==
    /\ toCome' = toCome - 1
    /\ job' = [job EXCEPT ![j] = rec]
    /\ overlapped' = IF Claiming(e) = {} THEN overlapped ELSE overlapped \cup {e}

Taken(e, u) == \E v \in Members \ {u} : emailOf[v] = e

\* founders: the accounts that exist, each with an address.  n: a bound on the requests.
RegistrationInit(founders, n) ==
    /\ budget = [e \in Addresses |-> NoSends]
    /\ pending = [e \in Addresses |-> Vacant]
    /\ invite = [c \in Invites |-> [state |-> "live", uses |-> 0, pending |-> Nil]]
    /\ emailOf \in [Members -> Addresses \cup {Nil}]
    /\ \A u \in Members : emailOf[u] # Nil <=> u \in founders
    /\ \A u, v \in founders : emailOf[u] = emailOf[v] => u = v
    /\ job = [j \in Jobs |-> NoJob]
    /\ toCome = n
    /\ bornOf = [u \in Members |-> Nil]
    /\ loosened = {} /\ overlapped = {}

-----------------------------------------------------------------------------
(* POST /internal/register/start                                           *)

\* getLiveInvite
LiveInvite(c) == c # Nil => invite[c].state = "live"

\* The invitation is read, the address looked up, a slot taken.  changing: the addresses
\* that a pending change of address holds.
registerStart(j, e, c, changing) ==
    /\ Ready(j)
    /\ LiveInvite(c)
    /\ ~Taken(e, Nil) /\ e \notin changing
    /\ MayReserve(budget[e], MaxSends)
    /\ budget' = [budget EXCEPT ![e] = AfterReserve(@)]
    /\ enter(j, e, [NoJob EXCEPT !.pc = IF c = Nil THEN "issue" ELSE "claim", !.email = e,
                                 !.code = c, !.uses = IF c = Nil THEN 0 ELSE invite[c].uses,
                                 !.holder = IF c = Nil THEN Nil ELSE invite[c].pending])
    /\ UNCHANGED <<pending, invite, emailOf, bornOf, loosened>>

\* dropPending: the address may be gone already.
without(e) == [x \in Addresses |-> IF x = e THEN Vacant ELSE pending[x]]

\* UPDATE ... WHERE used_by IS NULL AND voided_at IS NULL
Open(c) == invite[c].state \in {"live", "expired"}

voided(c) == IF Open(c) THEN [invite EXCEPT ![c].state = "voided", ![c].pending = Nil]
                        ELSE invite

Exhausted_Late(uses) == uses > MaxUses
Exhausted(uses) == uses >= MaxUses

\* From the row as it was read: the same address is free of charge, another one is a use
\* and evicts the registration before it, and one too many voids the invitation.
claimInviteUse(j) ==
    LET c == job[j].code
        e == job[j].email IN
    /\ job[j].pc = "claim"
    /\ \/ /\ job[j].holder = e
          /\ step(j, "issue")
          /\ UNCHANGED <<pending, invite, budget>>
       \/ /\ job[j].holder # e /\ Exhausted(job[j].uses)
          /\ pending' = without(job[j].holder)
          /\ invite' = voided(c)
          /\ budget' = [budget EXCEPT ![e] = AfterRelease(@)]
          /\ done(j)
       \/ /\ job[j].holder # e /\ ~Exhausted(job[j].uses)
          /\ pending' = without(job[j].holder)
          /\ invite' = IF invite[c].state = "deleted" THEN invite
                       ELSE [invite EXCEPT ![c].uses = @ + 1, ![c].pending = e]
          /\ step(j, "issue")
          /\ UNCHANGED budget
    /\ UNCHANGED <<emailOf, toCome, bornOf, loosened, overlapped>>

\* issuePending: GET, then SET.  A recent record is kept and written back as it was read,
\* with whatever time to live the key has by now.
readPending(j) ==
    /\ job[j].pc = "issue"
    /\ job' = [job EXCEPT ![j].pc = "write", ![j].read = pending[job[j].email]]
    /\ UNCHANGED <<budget, pending, invite, emailOf, toCome, bornOf, loosened, overlapped>>

issuePending(j) ==
    LET e == job[j].email
        cur == job[j].read
        same == cur.held /\ cur.code = job[j].code /\ cur.recent IN
    /\ job[j].pc = "write"
    /\ pending' = [pending EXCEPT ![e] =
         IF same THEN [cur EXCEPT !.expires = pending[e].expires]
                 ELSE [code |-> job[j].code, recent |-> TRUE, mailed |-> FALSE,
                       expires |-> TRUE, held |-> TRUE]]
    /\ step(j, "send")
    /\ UNCHANGED <<budget, invite, emailOf, toCome, bornOf, loosened, overlapped>>

\* The link mailed is the one issued; if the record has changed hands since, it is stale.
sendRegistration(j) ==
    LET e == job[j].email IN
    /\ job[j].pc = "send"
    /\ \/ /\ pending' = IF pending[e].held /\ pending[e].code = job[j].code
                          THEN [pending EXCEPT ![e].mailed = TRUE] ELSE pending
          /\ UNCHANGED budget
       \/ budget' = [budget EXCEPT ![e] = AfterRelease(@)] /\ UNCHANGED pending
    /\ done(j)
    /\ UNCHANGED <<invite, emailOf, toCome, bornOf, loosened, overlapped>>

-----------------------------------------------------------------------------
(* POST /internal/register/complete                                        *)

\* What POST /internal/register/validate answers for the link mailed to e.
ValidLink(e) == pending[e].held /\ pending[e].mailed /\ LiveInvite(pending[e].code)

registerComplete(j, e) ==
    LET c == pending[e].code IN
    /\ Ready(j)
    /\ ValidLink(e) /\ ~Taken(e, Nil)
    /\ toCome' = toCome - 1
    /\ job' = [job EXCEPT ![j] = [NoJob EXCEPT !.pc = "insert", !.email = e, !.code = c]]
    /\ loosened' = IF c # Nil /\ \E k \in Jobs : job[k].pc \in {"insert", "consume"}
                                                  /\ job[k].code = c
                    THEN loosened \cup {c} ELSE loosened
    /\ UNCHANGED <<budget, pending, invite, emailOf, bornOf, overlapped>>

\* The transaction; the unique index decides, and a duplicate is a 422.
insertIdentity(j, u) ==
    /\ job[j].pc = "insert"
    /\ emailOf[u] = Nil
    /\ IF Taken(job[j].email, Nil)
         THEN done(j) /\ UNCHANGED <<emailOf, bornOf>>
         ELSE /\ emailOf' = [emailOf EXCEPT ![u] = job[j].email]
              /\ bornOf' = [bornOf EXCEPT ![u] = job[j].code]
              /\ step(j, "consume")
    /\ UNCHANGED <<budget, pending, invite, toCome, loosened, overlapped>>

Consumed_Stamped(c) == IF c # Nil THEN [invite EXCEPT ![c].pending = Nil] ELSE invite
Consumed(c) ==
    IF c # Nil /\ Open(c) THEN [invite EXCEPT ![c].state = "used", ![c].pending = Nil]
                          ELSE invite

\* consumeInvite, which may come too late, and dropPending, which may fail.
consumeInvite(j) ==
    /\ job[j].pc = "consume"
    /\ invite' = Consumed(job[j].code)
    /\ pending' \in {pending, without(job[j].email)}
    /\ done(j)
    /\ UNCHANGED <<budget, emailOf, toCome, bornOf, loosened, overlapped>>

\* A query or a command fails, or the process dies: no slot is given back, the account
\* made stays, and claimInviteUse may have evicted the registration before its own.
requestFails(j) ==
    LET evicted == job[j].pc = "claim" /\ job[j].holder # job[j].email IN
    /\ job[j].pc # "idle"
    /\ pending' \in {pending} \cup (IF evicted THEN {without(job[j].holder)} ELSE {})
    /\ loosened' = IF job[j].pc = "consume" THEN loosened \cup {job[j].code} ELSE loosened
    /\ done(j)
    /\ UNCHANGED <<budget, invite, emailOf, toCome, bornOf, overlapped>>

-----------------------------------------------------------------------------
(* Administrators, the sweep, time.                                        *)

\* DELETE /account/org/invites/:code
voidInvite(c) ==
    /\ Open(c)
    /\ pending' = without(invite[c].pending)
    /\ invite' = voided(c)
    /\ UNCHANGED <<budget, emailOf, job, toCome, bornOf, loosened, overlapped>>

expireInvite(c) ==
    /\ invite[c].state = "live"
    /\ invite' = [invite EXCEPT ![c].state = "expired"]
    /\ UNCHANGED <<budget, pending, emailOf, job, toCome, bornOf, loosened, overlapped>>

\* sweepInvitations: a stamp older than its link, a row past clear_at.
sweepInvitations(c) ==
    /\ \/ /\ invite[c].pending # Nil /\ ~pending[invite[c].pending].held
          /\ invite' = [invite EXCEPT ![c].pending = Nil]
       \/ /\ invite[c].state \in {"voided", "expired"}
          /\ invite' = [invite EXCEPT ![c].state = "deleted", ![c].pending = Nil]
    /\ UNCHANGED <<budget, pending, emailOf, job, toCome, bornOf, loosened, overlapped>>

\* Five minutes, or the validity, of a pending registration; the limiter's times.
registrationTime(e) ==
    /\ \/ /\ pending[e].recent
          /\ pending' = [pending EXCEPT ![e].recent = FALSE]
          /\ UNCHANGED budget
       \/ pending[e].expires /\ pending' = without(e) /\ UNCHANGED budget
       \/ /\ \E rl \in Later(budget[e], MaxSends) : budget' = [budget EXCEPT ![e] = rl]
          /\ UNCHANGED pending
    /\ UNCHANGED <<invite, emailOf, job, toCome, bornOf, loosened, overlapped>>

\* codes: the invitations a request may bring; Nil, for none, while none is required.
RegistrationNext(changing, codes) ==
    \/ \E j \in Jobs :
         \/ claimInviteUse(j) \/ readPending(j) \/ issuePending(j) \/ sendRegistration(j)
         \/ consumeInvite(j) \/ requestFails(j)
         \/ \E u \in Members : insertIdentity(j, u)
         \/ \E e \in Addresses :
              \/ registerComplete(j, e)
              \/ \E c \in codes : registerStart(j, e, c, changing)
    \/ \E c \in Invites : voidInvite(c) \/ expireInvite(c) \/ sweepInvitations(c)
    \/ \E e \in Addresses : registrationTime(e)

-----------------------------------------------------------------------------
(* Properties.                                                             *)

\* An invitation makes one account, unless two completions held it at one time
\* (POST /internal/register/complete keeps the account when consumeInvite comes too late)
\* or one stopped between its COMMIT and consumeInvite, which leaves the invitation live.
\* And each further request under way may add one use beyond the cap, never more:
\* claimInviteUse compares the count that getLiveInvite read, and adds to the one in the row.
InviteBounded ==
    /\ \A c \in Invites \ loosened : Cardinality({u \in Members : bornOf[u] = c}) <= 1
    /\ \A c \in Invites : invite[c].uses <= MaxUses + Cardinality(Jobs) - 1
=============================================================================
