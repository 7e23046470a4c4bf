----------------------------- MODULE EmailChange -----------------------------
(***************************************************************************)
(* Changing and confirming the address of an account (src/emailChange.ts,  *)
(* src/routes/emailChangeRoutes.ts), beside registration: both hold an     *)
(* address in Redis until its link is used, both look at what the other    *)
(* holds, and both send through the limiter of the address.                *)
(*                                                                         *)
(* Three keys make one change: the record of the link, the user's pointer  *)
(* to it, and the hold on the address.  Redis expires the three together.  *)
(***************************************************************************)
EXTENDS Registration

CONSTANTS
    VerifyLinks,    \* tokens of emailchg:tok:<hash>
    MayChange       \* members with profile.email.change and a fresh step-up

VARIABLES
    link,           \* emailchg:tok:<hash>
    linkOf,         \* emailchg:user:<sub>
    heldBy,         \* emailchg:addr:<email>
    delivered,      \* links in a mailbox
    verified        \* members with email_verified

changeVars == <<link, linkOf, heldBy, delivered, verified>>

Kinds == {"change", "confirm"}
Gone == [live |-> FALSE, member |-> Nil, kind |-> "confirm", email |-> Nil, recent |-> FALSE,
         expires |-> FALSE]
LinkRecords == [live : BOOLEAN, member : Members \cup {Nil}, kind : Kinds,
                email : Addresses \cup {Nil}, recent : BOOLEAN, expires : BOOLEAN]

\* Addresses that changePendingForAddress finds held.
Held == {e \in Addresses : heldBy[e] # Nil}

ChangeInit ==
    /\ link = [v \in VerifyLinks |-> Gone]
    /\ linkOf = [u \in Members |-> Nil]
    /\ heldBy = [e \in Addresses |-> Nil]
    /\ delivered = {} /\ verified = {}

\* getEmailChange: the pointer, then the record.
Current(u) == IF linkOf[u] # Nil /\ link[linkOf[u]].live THEN linkOf[u] ELSE Nil

\* Addresses with a live change link and no hold: Redis keys written and deleted one by one.
Loose ==
    {e \in Addresses : /\ heldBy[e] = Nil
                       /\ \E v \in VerifyLinks : link[v].live /\ link[v].kind = "change"
                                                 /\ link[v].email = e}

\* The history of addresses takes note of those a step leaves without their hold.
noteLoose == overlapped' = overlapped \cup Loose'

\* A request of member u about address e.
change(u, kind, e) == [NoJob EXCEPT !.pc = "chgRead", !.email = e, !.holder = u, !.kind = kind]

-----------------------------------------------------------------------------
(* The requests.                                                           *)

\* POST /account/email-change/start: uniqueness, step-up, the slot.
Free_Blind(u, e) == ~Taken(e, u) /\ heldBy[e] \in {Nil, u}
Free(u, e) == ~Taken(e, u) /\ ~pending[e].held /\ heldBy[e] \in {Nil, u}

emailChangeStart(j, u, e) ==
    /\ Ready(j) /\ u \in MayChange
    /\ emailOf[u] # e /\ Free(u, e)
    /\ MayReserve(budget[e], MaxSends)
    /\ budget' = [budget EXCEPT ![e] = AfterReserve(@)]
    /\ enter(j, e, change(u, "change", e))
    /\ UNCHANGED <<pending, invite, emailOf, bornOf, loosened, changeVars>>

\* POST /account/email-change/resend
resendChange(j, u) ==
    LET v == Current(u) IN
    /\ Ready(j) /\ v # Nil
    /\ MayReserve(budget[link[v].email], MaxSends)
    /\ budget' = [budget EXCEPT ![link[v].email] = AfterReserve(@)]
    /\ enter(j, link[v].email, change(u, link[v].kind, link[v].email))
    /\ UNCHANGED <<pending, invite, emailOf, bornOf, loosened, changeVars>>

\* POST /account/email/verify/send: the address the member has, not yet verified.
verifySend(j, u) ==
    LET e == emailOf[u] IN
    /\ Ready(j) /\ e # Nil /\ u \notin verified
    /\ MayReserve(budget[e], MaxSends)
    /\ budget' = [budget EXCEPT ![e] = AfterReserve(@)]
    /\ enter(j, e, change(u, "confirm", e))
    /\ UNCHANGED <<pending, invite, emailOf, bornOf, loosened, changeVars>>

\* issueEmailChange reads the current link.
readChange(j) ==
    /\ job[j].pc = "chgRead"
    /\ LET v == Current(job[j].holder) IN
         job' = [job EXCEPT ![j].pc = "chgWrite", ![j].found = v,
                            ![j].read = IF v = Nil THEN Gone ELSE link[v]]
    /\ UNCHANGED <<budget, pending, invite, emailOf, toCome, bornOf, loosened, overlapped,
                   changeVars>>

\* dropEmailChange: what is left of the three keys.
unlinked(v) == IF v = Nil THEN link ELSE [link EXCEPT ![v] = Gone]
released(rec) ==
    [e \in Addresses |-> IF rec.kind = "change" /\ rec.email = e THEN Nil ELSE heldBy[e]]

\* The same link within 5 minutes, or a new one in place of the old.
issueEmailChange(j, v) ==
    LET u == job[j].holder
        cur == job[j].read
        same == cur.live /\ cur.kind = job[j].kind /\ cur.email = job[j].email /\ cur.recent
        old == job[j].found IN
    /\ job[j].pc = "chgWrite"
    /\ \/ /\ same /\ v = old
          /\ link' = [link EXCEPT ![v] = [cur EXCEPT !.expires = link[v].expires]]
          /\ UNCHANGED <<linkOf, heldBy>>
       \/ /\ ~same /\ ~link[v].live /\ v \notin delivered
          /\ link' = [unlinked(old) EXCEPT ![v] =
                        [live |-> TRUE, member |-> u, kind |-> job[j].kind,
                         email |-> job[j].email, recent |-> TRUE, expires |-> TRUE]]
          /\ linkOf' = [linkOf EXCEPT ![u] = v]
          /\ heldBy' = IF job[j].kind = "change"
                         THEN [released(cur) EXCEPT ![job[j].email] = u] ELSE released(cur)
    /\ noteLoose
    /\ job' = [job EXCEPT ![j].pc = "chgSend", ![j].found = v]
    /\ UNCHANGED <<budget, pending, invite, emailOf, toCome, bornOf, loosened, delivered,
                   verified>>

sendChange(j) ==
    /\ job[j].pc = "chgSend"
    /\ \/ delivered' = delivered \cup {job[j].found} /\ UNCHANGED budget
       \/ budget' = [budget EXCEPT ![job[j].email] = AfterRelease(@)] /\ UNCHANGED delivered
    /\ done(j)
    /\ UNCHANGED <<pending, invite, emailOf, toCome, bornOf, loosened, overlapped, link, linkOf,
                   heldBy, verified>>

\* DELETE /account/email-change
cancelEmailChange(u) ==
    /\ Current(u) # Nil
    /\ link' = unlinked(Current(u))
    /\ linkOf' = [linkOf EXCEPT ![u] = Nil]
    /\ heldBy' = released(link[Current(u)])
    /\ noteLoose
    /\ UNCHANGED <<budget, pending, invite, emailOf, job, toCome, bornOf, loosened, delivered,
                   verified>>

\* POST /internal/email-change/verify: redeemEmailChange takes the record, then the
\* pointer and the hold, whomever they serve by now.
redeemEmailChange(j, v) ==
    /\ Ready(j) /\ v \in delivered /\ link[v].live
    /\ toCome' = toCome - 1
    /\ job' = [job EXCEPT ![j] = [NoJob EXCEPT !.pc = "chgCommit", !.read = link[v]]]
    /\ link' = unlinked(v)
    /\ linkOf' = [linkOf EXCEPT ![link[v].member] = Nil]
    /\ heldBy' = released(link[v])
    /\ noteLoose
    /\ UNCHANGED <<budget, pending, invite, emailOf, bornOf, loosened, delivered, verified>>

\* The address is looked up again; a confirmation needs the address to be unchanged.
commitChange(j) ==
    LET rec == job[j].read IN
    /\ job[j].pc = "chgCommit"
    /\ \/ /\ rec.kind = "confirm" /\ emailOf[rec.member] = rec.email
          /\ verified' = verified \cup {rec.member} /\ UNCHANGED emailOf
       \/ /\ rec.kind = "change" /\ ~Taken(rec.email, rec.member)
          /\ emailOf' = [emailOf EXCEPT ![rec.member] = rec.email]
          /\ verified' = verified \cup {rec.member}
       \/ /\ IF rec.kind = "change" THEN Taken(rec.email, rec.member)
                                    ELSE emailOf[rec.member] # rec.email
          /\ UNCHANGED <<emailOf, verified>>
    /\ done(j)
    /\ UNCHANGED <<budget, pending, invite, toCome, bornOf, loosened, overlapped, link, linkOf,
                   heldBy, delivered>>

\* PATCH /account/org/users/:sub: an administrator finds address e free, and assigns it.
editEmail(j, u, e) ==
    /\ Ready(j) /\ emailOf[u] \notin {Nil, e}
    /\ ~Taken(e, u) /\ ~pending[e].held /\ e \notin Held
    /\ enter(j, e, [NoJob EXCEPT !.pc = "assign", !.email = e, !.holder = u])
    /\ UNCHANGED <<budget, pending, invite, emailOf, bornOf, loosened, changeVars>>

assignEmail(j) ==
    LET e == job[j].email
        u == job[j].holder IN
    /\ job[j].pc = "assign"
    /\ IF Taken(e, u) THEN UNCHANGED <<emailOf, verified>>
                      ELSE /\ emailOf' = [emailOf EXCEPT ![u] = e]
                           /\ verified' = verified \cup {u}
    /\ done(j)
    /\ UNCHANGED <<budget, pending, invite, toCome, bornOf, loosened, overlapped, link, linkOf,
                   heldBy, delivered>>

\* Five minutes, or the validity, of a link; a member's three keys expire together.
changeTime(v) ==
    LET u == link[v].member IN
    /\ link[v].live
    /\ \/ /\ link[v].recent
          /\ link' = [link EXCEPT ![v].recent = FALSE]
          /\ UNCHANGED <<linkOf, heldBy>>
       \/ /\ link[v].expires
          /\ link' = unlinked(v)
          /\ linkOf' = [linkOf EXCEPT ![u] = IF @ = v THEN Nil ELSE @]
          /\ heldBy' = IF heldBy[link[v].email] = u THEN released(link[v]) ELSE heldBy
    /\ noteLoose
    /\ UNCHANGED <<budget, pending, invite, emailOf, job, toCome, bornOf, loosened, delivered,
                   verified>>

ChangeNext ==
    \/ \E j \in Jobs :
         \/ readChange(j) \/ sendChange(j) \/ commitChange(j) \/ assignEmail(j)
         \/ \E v \in VerifyLinks : issueEmailChange(j, v) \/ redeemEmailChange(j, v)
         \/ \E u \in Members :
              \/ resendChange(j, u) \/ verifySend(j, u)
              \/ \E e \in Addresses : emailChangeStart(j, u, e) \/ editEmail(j, u, e)
    \/ \E u \in Members : cancelEmailChange(u)
    \/ \E v \in VerifyLinks : changeTime(v)

AddressNext == ChangeNext \/ (RegistrationNext(Held, {Nil}) /\ UNCHANGED changeVars)

-----------------------------------------------------------------------------
(* Properties.                                                             *)

AddressTypeOK ==
    /\ budget \in [Addresses -> Limiters(MaxSends)]
    /\ pending \in [Addresses -> Pendings]
    /\ invite \in [Invites -> Rows]
    /\ emailOf \in [Members -> Addresses \cup {Nil}]
    /\ \A u, v \in Members : emailOf[u] = emailOf[v] /\ emailOf[u] # Nil => u = v
    /\ toCome \in 0..MaxJobs
    /\ link \in [VerifyLinks -> LinkRecords]
    /\ linkOf \in [Members -> VerifyLinks \cup {Nil}]
    /\ heldBy \in [Addresses -> Members \cup {Nil}]
    /\ delivered \subseteq VerifyLinks /\ verified \subseteq Members

\* A change that can still be redeemed holds its address: emailChange.ts says of the
\* reservation that "a pending CHANGE holds its new address against every uniqueness check".
ChangeHolds == Loose = {}

\* A pending registration and a pending change do not hold the same address, unless two
\* requests for it overlapped (/internal/register/start and /account/email-change/start each
\* look for the other's key and write their own later) or a change link of it has outlived
\* its hold (issueEmailChange deletes and writes by what it read before).
AddressHeldOnce ==
    \A e \in Addresses \ overlapped : ~(pending[e].held /\ heldBy[e] # Nil)
=============================================================================
