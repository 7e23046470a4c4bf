--------------------------- MODULE PortalSessions ---------------------------
(***************************************************************************)
(* The account portal's browser sessions in Redis (account/server/src/     *)
(* session.ts), the login callback that creates them, the API calls that   *)
(* rewrite them, and the receiver of the SSO's events, which revokes them  *)
(* (account/server/src/routes/backchannel.ts).                             *)
(*                                                                         *)
(* One Redis command is one step; handlers interleave between their        *)
(* commands.  There is one logout event for each SSO session.  The         *)
(* sessions are numbered in the order in which they end, and so are the    *)
(* events; the SSO's outbox sends a batch again until it is acknowledged,  *)
(* and may send it twice at the same time.                                 *)
(***************************************************************************)
EXTENDS Naturals, FiniteSets, FiniteSetsExt

CONSTANTS
    MaxSso,        \* bound: SSO sessions
    Sids,          \* portal session IDs
    Deliveries,    \* POSTs of event batches being handled
    Logins,        \* /auth/callback requests being handled
    Calls,         \* API requests being handled
    None,          \* no subject
    MaxFaults      \* bound: crashes and Redis errors

Ssos == 1..MaxSso
Requests == Deliveries \cup Logins \cup Calls

ASSUME RequestsAssumption ==
    /\ MaxSso \in Nat
    /\ MaxFaults \in Nat
    /\ Deliveries \cap Logins = {}
    /\ Deliveries \cap Calls = {}
    /\ Logins \cap Calls = {}
    /\ None \notin Ssos \cup Sids

VARIABLES
    \* --- Redis
    sessions,      \* acct:sess:<sid> exists
    boundTo,       \* its ssoSid
    index,         \* the set acct:ssosid:<ssoSid>
    seen,          \* evt:seen:<id> exists
    \* --- handlers
    pc,
    subject,       \* the SSO session, or for a call the portal session
    found,         \* what SMEMBERS returned
    todo,          \* events of the batch not yet handled
    sent,          \* the batch
    \* --- SSO
    posted,        \* SSO sessions that ended: their event is in the outbox
    \* --- history
    given,         \* portal sessions whose cookie went to a browser ...
    before,        \* ... and those of an SSO session when its event was posted
    applied,       \* events whose revocation has run to its end
    revived,       \* portal sessions written again after they were deleted
    faults

redisVars == <<sessions, boundTo, index, seen>>
handlerVars == <<pc, subject, found, todo, sent>>
historyVars == <<given, before, applied, revived>>
vars == <<redisVars, handlerVars, posted, historyVars, faults>>

TypeOK ==
    /\ sessions \in SUBSET Sids
    /\ boundTo \in [Sids -> Ssos \cup {None}]
    /\ index \in [Ssos -> SUBSET Sids]
    /\ seen \in SUBSET Ssos
    /\ pc \in [Requests -> {"idle", "next", "members", "delete", "unindex",
                            "forget", "create", "index", "update"}]
    /\ subject \in [Requests -> Ssos \cup Sids \cup {None}]
    /\ \A r \in Requests : pc[r] \in {"members", "delete", "unindex"}
                             => subject[r] \in Ssos
    /\ found \in [Requests -> SUBSET Sids]
    /\ todo \in [Deliveries -> SUBSET Ssos]
    /\ sent \in [Deliveries -> SUBSET Ssos]
    /\ posted \in SUBSET Ssos
    /\ given \in SUBSET Sids
    /\ before \in [Ssos -> SUBSET Sids]
    /\ applied \in SUBSET posted
    /\ revived \in SUBSET Sids
    /\ faults \in 0..MaxFaults

Init ==
    /\ sessions = {}
    /\ boundTo = [b \in Sids |-> None]
    /\ index = [s \in Ssos |-> {}]
    /\ seen = {}
    /\ pc = [r \in Requests |-> "idle"]
    /\ subject = [r \in Requests |-> None]
    /\ found = [r \in Requests |-> {}]
    /\ todo = [d \in Deliveries |-> {}]
    /\ sent = [d \in Deliveries |-> {}]
    /\ posted = {}
    /\ given = {}
    /\ before = [s \in Ssos |-> {}]
    /\ applied = {}
    /\ revived = {}
    /\ faults = 0

-----------------------------------------------------------------------------
Goto(r, label) == pc' = [pc EXCEPT ![r] = label]

\* A handler that has returned keeps nothing.
Return(r) ==
    /\ Goto(r, "idle")
    /\ subject' = [subject EXCEPT ![r] = None]
    /\ found' = [found EXCEPT ![r] = {}]
    /\ todo' = [d \in Deliveries |-> IF d = r THEN {} ELSE todo[d]]
    /\ sent' = [d \in Deliveries |-> IF d = r THEN {} ELSE sent[d]]

Fault ==
    /\ faults < MaxFaults
    /\ faults' = faults + 1

-----------------------------------------------------------------------------
(* The SSO.                                                                *)

\* A session ends and its logout event is committed to the outbox.
Post(s) ==
    /\ posted = 1..(s - 1)
    /\ posted' = posted \cup {s}
    /\ before' = [before EXCEPT ![s] = {b \in given : boundTo[b] = s}]
    /\ UNCHANGED <<redisVars, handlerVars, given, applied, revived, faults>>

\* The SSO posts a batch of events, some of them again perhaps.
deliver(d, S) ==
    /\ pc[d] = "idle"
    /\ S # {}
    /\ S \subseteq posted
    /\ Goto(d, "next")
    /\ todo' = [todo EXCEPT ![d] = S]
    /\ sent' = [sent EXCEPT ![d] = S]
    /\ UNCHANGED <<redisVars, subject, found, posted, historyVars, faults>>

-----------------------------------------------------------------------------
(* The event receiver.                                                     *)

\* SET evt:seen:<id> NX did not set it.
AlreadySeen_Never(e) == FALSE
AlreadySeen(e) == e \in seen

skip(d) ==
    /\ pc[d] = "next"
    /\ todo[d] # {}
    /\ AlreadySeen(Min(todo[d]))
    /\ todo' = [todo EXCEPT ![d] = @ \ {Min(@)}]
    /\ UNCHANGED <<redisVars, pc, subject, found, sent, posted, historyVars,
                   faults>>

take(d) ==
    /\ pc[d] = "next"
    /\ todo[d] # {}
    /\ ~AlreadySeen(Min(todo[d]))
    /\ seen' = seen \cup {Min(todo[d])}
    /\ subject' = [subject EXCEPT ![d] = Min(todo[d])]
    /\ Goto(d, "members")
    /\ UNCHANGED <<sessions, boundTo, index, found, todo, sent, posted,
                   historyVars, faults>>

\* revokeBySsoSid failed: the marker is removed again, unless that fails too,
\* and the answer is 500.
forget(d) ==
    /\ pc[d] = "forget"
    /\ \/ /\ seen' = seen \ {subject[d]}
          /\ UNCHANGED faults
       \/ Fault /\ UNCHANGED seen
    /\ Return(d)
    /\ UNCHANGED <<sessions, boundTo, index, posted, historyVars>>

\* The batch is done: 204.  Whether the SSO still waits for it or not, it may
\* send the batch again.
answer(d) ==
    /\ pc[d] = "next"
    /\ todo[d] = {}
    /\ Return(d)
    /\ UNCHANGED <<redisVars, posted, historyVars, faults>>

-----------------------------------------------------------------------------
(* revokeBySsoSid: SMEMBERS, DEL of the sessions, DEL of the index.  The   *)
(* callback rotates with it, the receiver revokes with it.                 *)

members(r) ==
    /\ pc[r] = "members"
    /\ found' = [found EXCEPT ![r] = index[subject[r]]]
    /\ Goto(r, "delete")
    /\ UNCHANGED <<redisVars, subject, todo, sent, posted, historyVars, faults>>

delete(r) ==
    /\ pc[r] = "delete"
    /\ sessions' = sessions \ found[r]
    /\ Goto(r, "unindex")
    /\ UNCHANGED <<boundTo, index, seen, subject, found, todo, sent, posted,
                   historyVars, faults>>

unindex(r) ==
    /\ pc[r] = "unindex"
    /\ index' = [index EXCEPT ![subject[r]] = {}]
    /\ found' = [found EXCEPT ![r] = {}]
    /\ \/ /\ r \in Deliveries
          /\ applied' = applied \cup {subject[r]}
          /\ todo' = [todo EXCEPT ![r] = @ \ {subject[r]}]
          /\ subject' = [subject EXCEPT ![r] = None]
          /\ Goto(r, "next")
       \/ /\ r \in Logins
          /\ Goto(r, "create")
          /\ UNCHANGED <<subject, applied, todo>>
    /\ UNCHANGED <<sessions, boundTo, seen, sent, posted, given, before, revived,
                   faults>>

\* A Redis command fails.  Only a failure of revokeBySsoSid in the receiver
\* is caught; any other one ends the handler.
redisFails(r) ==
    /\ pc[r] \notin {"idle", "forget"}
    /\ pc[r] = "next" => todo[r] # {}
    /\ Fault
    /\ \/ /\ r \in Deliveries
          /\ pc[r] # "next"
          /\ Goto(r, "forget")
          /\ UNCHANGED <<subject, found, todo, sent>>
       \/ /\ r \in Deliveries => pc[r] = "next"
          /\ Return(r)
    /\ UNCHANGED <<redisVars, posted, historyVars>>

-----------------------------------------------------------------------------
(* The login callback.                                                     *)

\* exchangeCode has succeeded: the SSO session was there.
callback(l) ==
    /\ pc[l] = "idle"
    /\ \E s \in Ssos \ posted : subject' = [subject EXCEPT ![l] = s]
    /\ Goto(l, "members")
    /\ UNCHANGED <<redisVars, found, todo, sent, posted, historyVars, faults>>

Unused == {b \in Sids : boundTo[b] = None}

\* createSession: SET of the session, then SADD to the index.
create(l) ==
    /\ pc[l] = "create"
    /\ \E b \in Unused :
         /\ sessions' = sessions \cup {b}
         /\ boundTo' = [boundTo EXCEPT ![b] = subject[l]]
         /\ found' = [found EXCEPT ![l] = {b}]
    /\ Goto(l, "index")
    /\ UNCHANGED <<index, seen, subject, todo, sent, posted, historyVars, faults>>

NewIndex_Unchanged(l) == index
NewIndex_WrongId(l) == [index EXCEPT ![subject[l]] = @ \cup {subject[l]}]
NewIndex(l) == [index EXCEPT ![subject[l]] = @ \cup found[l]]

addToIndex(l) ==
    /\ pc[l] = "index"
    /\ index' = NewIndex(l)
    /\ given' = given \cup found[l]
    /\ Return(l)
    /\ UNCHANGED <<sessions, boundTo, seen, posted, before, applied, revived,
                   faults>>

-----------------------------------------------------------------------------
(* API calls, the portal's own logout, and expiry.                         *)

\* requireSession: the session is read, and the SSO is asked something.
getSession(c) ==
    /\ pc[c] = "idle"
    /\ \E b \in given \cap sessions : subject' = [subject EXCEPT ![c] = b]
    /\ Goto(c, "update")
    /\ UNCHANGED <<redisVars, found, todo, sent, posted, historyVars, faults>>

\* updateSession: SET, whether or not the key still exists; with its
\* remaining TTL or, if it has none, the full one.
updateSession(c) ==
    /\ pc[c] = "update"
    /\ sessions' = sessions \cup {subject[c]}
    /\ revived' = revived \cup ({subject[c]} \ sessions)
    /\ Return(c)
    /\ UNCHANGED <<boundTo, index, seen, posted, given, before, applied, faults>>

\* /auth/logout and the end of the TTL: the index keeps the entry.
destroySession(b) ==
    /\ b \in sessions
    /\ sessions' = sessions \ {b}
    /\ UNCHANGED <<boundTo, index, seen, handlerVars, posted, historyVars, faults>>

\* EXPIRE of the index, which createSession sets after the session's own time to live:
\* by then the sessions of s are gone, but for those that updateSession wrote anew.
indexExpires(s) ==
    /\ index[s] # {}
    /\ {b \in sessions : boundTo[b] = s} \subseteq revived
    /\ index' = [index EXCEPT ![s] = {}]
    /\ UNCHANGED <<sessions, boundTo, seen, handlerVars, posted, historyVars, faults>>

\* The portal process stops with all its handlers; Redis keeps its state.
Crash ==
    /\ Fault
    /\ pc' = [r \in Requests |-> "idle"]
    /\ subject' = [r \in Requests |-> None]
    /\ found' = [r \in Requests |-> {}]
    /\ todo' = [d \in Deliveries |-> {}]
    /\ sent' = [d \in Deliveries |-> {}]
    /\ UNCHANGED <<redisVars, posted, historyVars>>

-----------------------------------------------------------------------------
Receive(d) ==
    \/ skip(d) \/ take(d) \/ forget(d) \/ answer(d)
    \/ members(d) \/ delete(d) \/ unindex(d)

Login(l) ==
    callback(l) \/ members(l) \/ delete(l) \/ unindex(l) \/ create(l) \/ addToIndex(l)

Next ==
    \/ \E s \in Ssos : Post(s) \/ indexExpires(s)
    \/ \E d \in Deliveries : Receive(d) \/ \E S \in SUBSET posted : deliver(d, S)
    \/ \E l \in Logins : Login(l)
    \/ \E r \in Requests : redisFails(r)
    \/ \E c \in Calls : getSession(c) \/ updateSession(c)
    \/ \E b \in Sids : destroySession(b)
    \/ Crash

Spec == Init /\ [][Next]_vars

-----------------------------------------------------------------------------
(* Properties.                                                             *)

Handling(d, e) ==
    pc[d] \in {"members", "delete", "unindex", "forget"} /\ subject[d] = e

(* Deliveries of the same event never work on it at the same time, and     *)
(* what one of them works on is marked: the failing one takes back its own *)
(* mark, not another's.                                                    *)
OneHandler ==
    \A d \in Deliveries, e \in Ssos : Handling(d, e) =>
        /\ e \in seen
        /\ \A c \in Deliveries : Handling(c, e) => c = d

(* Every portal session that a browser held when its SSO session ended is  *)
(* gone, for good, once the logout event has been applied.  Fails when two *)
(* callbacks of one SSO session overlap, and when an API call rewrites the *)
(* session it read before.                                                 *)
LogoutReaches == \A e \in applied : before[e] \cap sessions = {}

(* With one callback at a time, that rewriting is the only way to survive: *)
(* rotations, failures, crashes and repeated deliveries in any order leave *)
(* no session that the event does not find.                                *)
OnlyRevivedSurvive == \A e \in applied : before[e] \cap sessions \subseteq revived

(* What the receiver acknowledges it has applied, or is applying in        *)
(* another handler.  Fails: the mark is set before the work, and a crash   *)
(* in between leaves the mark, so the repeated delivery is skipped and     *)
(* acknowledged and the logout never happens.                              *)
AckedIsApplied ==
    [][\A d \in Deliveries : answer(d) =>
         \A e \in sent[d] : \/ e \in applied
                           \/ \E c \in Deliveries : Handling(c, e)]_vars
=============================================================================
