----------------------------- MODULE SsoSessions -----------------------------
(***************************************************************************)
(* Master sessions of one user (src/oidc/sessions.ts), the codes minted    *)
(* for them (src/oidc/codes.ts), their redemption by applications          *)
(* (src/routes/token.ts), and every way a session ends: logout, the        *)
(* Devices pane, a changed password, expiry.                               *)
(*                                                                         *)
(* A removal deletes rows in one statement that returns their              *)
(* applications, then enqueues a logout event for each of them; a          *)
(* redemption reads the code, deletes it, lists the application in the     *)
(* background and mints.  All of these interleave.  What an application    *)
(* does with an event, a token or a verdict is external.                   *)
(***************************************************************************)
EXTENDS Naturals, FiniteSets

CONSTANTS
    Sids,           \* session IDs
    Apps,           \* OIDC clients
    Codes,          \* authorization codes
    Redeemers,      \* requests at /token
    Removers,       \* requests, or the sweep, that end sessions
    Nobody,
    MaxTime,        \* bound: the clock
    IdleHours, MaxHours, TransientMaxHours  \* getSessionWindows

ASSUME WindowsAssumption ==
    /\ {MaxTime, IdleHours, MaxHours, TransientMaxHours} \subseteq Nat \ {0}
    /\ IdleHours <= MaxHours /\ TransientMaxHours <= MaxHours
    /\ Nobody \notin Sids \cup Codes

VARIABLES
    now,
    row,            \* table sessions
    suspended,      \* the user's status is not active
    authorizing,    \* pairs of app and sid that a request, or a transaction in Redis,
                    \* holds and may mint a code for
    code,           \* Redis code:<c>, with the number of its redemptions
    redeem,         \* requests at /token: place and code
    appends,        \* background updates of "clients" not yet run
    removing,       \* logout events that a remover has still to enqueue
    queued,         \* logout events in the outbox
    local,          \* applications' own sessions: pairs of app and sid
    excused         \* history: pairs being logged in while the row was deleted,
                    \* and events lost to a failure before the outbox

sessionVars == <<now, row, suspended, authorizing, code, redeem, appends, removing, queued,
                 local, excused>>

Pairs == Apps \X Sids
NoSession == [state |-> "unused", clients |-> {}, persistent |-> FALSE, created |-> 0,
              seen |-> 0]
NoCode == [state |-> "unused", pair |-> Nobody, uses |-> 0]
NoRequest == [pc |-> "idle", code |-> Nobody, pair |-> Nobody]

SessionTypeOK ==
    /\ now \in 0..MaxTime
    /\ row \in [Sids -> [state : {"unused", "live", "gone"}, clients : SUBSET Apps,
                         persistent : BOOLEAN, created : 0..MaxTime, seen : 0..MaxTime]]
    /\ suspended \in BOOLEAN
    /\ code \in [Codes -> [state : {"unused", "issued", "gone"}, pair : Pairs \cup {Nobody},
                           uses : 0..Cardinality(Redeemers)]]
    /\ redeem \in [Redeemers -> [pc : {"idle", "got", "check"}, code : Codes \cup {Nobody},
                               pair : Pairs \cup {Nobody}]]
    /\ appends \in SUBSET Pairs
    /\ removing \in [Removers -> SUBSET Pairs]
    /\ UNION {authorizing, queued, local, excused} \subseteq Pairs
    /\ \A s \in Sids : row[s].seen <= now

SessionInit ==
    /\ now = 0
    /\ row = [s \in Sids |-> NoSession]
    /\ suspended = FALSE /\ authorizing = {}
    /\ code = [c \in Codes |-> NoCode]
    /\ redeem = [r \in Redeemers |-> NoRequest]
    /\ appends = {}
    /\ removing = [w \in Removers |-> {}]
    /\ queued = {} /\ local = {} /\ excused = {}

-----------------------------------------------------------------------------
(* Windows.                                                                *)

Window(s) == IF row[s].persistent THEN MaxHours ELSE TransientMaxHours

\* The conditions of loadSession and loadSessionBySid.
Live(s) ==
    /\ row[s].state = "live"
    /\ row[s].seen + IdleHours > now
    /\ row[s].created + Window(s) > now
    /\ ~suspended

\* The condition of cleanExpiredSessions.
Expired(s) ==
    /\ row[s].state = "live"
    /\ row[s].seen + IdleHours < now \/ row[s].created + Window(s) < now

HourPasses ==
    /\ now < MaxTime
    /\ now' = now + 1
    /\ UNCHANGED <<row, suspended, authorizing, code, redeem, appends, removing, queued,
                   local, excused>>

Suspend ==
    /\ ~suspended
    /\ suspended' = TRUE
    /\ UNCHANGED <<now, row, authorizing, code, redeem, appends, removing, queued, local,
                   excused>>

-----------------------------------------------------------------------------
(* Sessions and codes.                                                     *)

\* Bound: sessions are created at time 0; what matters is the time since.
\* for: the application whose login it is, if any; its transaction holds the new sid.
createSession(s, for) ==
    /\ row[s].state = "unused" /\ now = 0
    /\ row' = [row EXCEPT ![s] = [NoSession EXCEPT !.state = "live", !.created = now,
                                                   !.seen = now]]
    /\ authorizing' = authorizing \cup {<<a, s>> : a \in for}
    /\ UNCHANGED <<now, suspended, code, redeem, appends, removing, queued, local, excused>>

\* "Stay signed in": the row is found by its ID and cookie alone.
persistSession(s) ==
    /\ row[s].state = "live" /\ ~row[s].persistent
    /\ row' = [row EXCEPT ![s].persistent = TRUE]
    /\ UNCHANGED <<now, suspended, authorizing, code, redeem, appends, removing, queued,
                   local, excused>>

\* A request with the cookie, or the portal renewing its access token.
touchSession(s) ==
    /\ Live(s)
    /\ row' = [row EXCEPT ![s].seen = now]
    /\ UNCHANGED <<now, suspended, authorizing, code, redeem, appends, removing, queued,
                   local, excused>>

\* GET /authorize finds the session: the request goes on to mint a code by itself, or
\* leaves a step-up transaction with the session's ID.
loadSession(p) ==
    /\ Live(p[2]) /\ p \notin authorizing
    /\ authorizing' = authorizing \cup {p}
    /\ UNCHANGED <<now, row, suspended, code, redeem, appends, removing, queued, local,
                   excused>>

\* By the silent reuse, POST /login/stay or POST /login/challenge; none looks at the
\* session's row any more.  A transaction that is posted twice may mint twice.
createCode(c, p) ==
    /\ p \in authorizing
    /\ code[c].state = "unused"
    /\ code' = [code EXCEPT ![c] = [NoCode EXCEPT !.state = "issued", !.pair = p]]
    /\ authorizing' \in {authorizing, authorizing \ {p}}
    /\ UNCHANGED <<now, row, suspended, redeem, appends, removing, queued, local, excused>>

\* Access is refused, the request fails, or the transaction is cancelled or expires.
authorizationEnds(p) ==
    /\ p \in authorizing
    /\ authorizing' = authorizing \ {p}
    /\ UNCHANGED <<now, row, suspended, code, redeem, appends, removing, queued, local,
                   excused>>

CodeExpires(c) ==
    /\ code[c].state = "issued"
    /\ code' = [code EXCEPT ![c].state = "gone", ![c].pair = Nobody]
    /\ UNCHANGED <<now, row, suspended, authorizing, redeem, appends, removing, queued,
                   local, excused>>

-----------------------------------------------------------------------------
(* POST /token.                                                            *)

\* consumeCode: GET ...
getCode(r, c) ==
    /\ redeem[r].pc = "idle"
    /\ code[c].state = "issued"
    /\ redeem' = [redeem EXCEPT ![r] = [pc |-> "got", code |-> c, pair |-> code[c].pair]]
    /\ UNCHANGED <<now, row, suspended, authorizing, code, appends, removing, queued,
                   local, excused>>

\* ... then DEL.  Another client, return address or PKCE verifier ends the
\* request; otherwise the application is listed in the background.
delCode(r) ==
    LET c == redeem[r].code
    IN /\ redeem[r].pc = "got"
       /\ code' = [code EXCEPT ![c].state = "gone", ![c].pair = Nobody]
       /\ \/ /\ redeem' = [redeem EXCEPT ![r] = NoRequest]
             /\ UNCHANGED appends
          \/ /\ redeem' = [redeem EXCEPT ![r].pc = "check"]
             /\ appends' = appends \cup {redeem[r].pair}
       /\ UNCHANGED <<now, row, suspended, authorizing, removing, queued, local, excused>>

\* The application's access is checked and its tokens are minted; with them it
\* opens its own session, whether or not the row is still there.
mintTokens(r) ==
    LET c == redeem[r].code
    IN /\ redeem[r].pc = "check"
       /\ redeem' = [redeem EXCEPT ![r] = NoRequest]
       /\ IF suspended
          THEN UNCHANGED <<code, local>>
          ELSE /\ code' = [code EXCEPT ![c].uses = @ + 1]
               /\ local' = local \cup {redeem[r].pair}
       /\ UNCHANGED <<now, row, suspended, authorizing, appends, removing, queued,
                      excused>>

\* UPDATE sessions SET clients = array_append(...): nothing when the row is
\* gone; a failure is logged.
recordClient(p) ==
    /\ p \in appends
    /\ appends' = appends \ {p}
    /\ \/ /\ row[p[2]].state = "live"
          /\ row' = [row EXCEPT ![p[2]].clients = @ \cup {p[1]}]
       \/ UNCHANGED row
    /\ UNCHANGED <<now, suspended, authorizing, code, redeem, removing, queued, local,
                   excused>>

-----------------------------------------------------------------------------
(* Removals.                                                               *)

\* Pairs with an authorization, a code, a redemption or a background update under way.
LoggingIn ==
    authorizing \cup appends \cup {code[c].pair : c \in Codes} \cup {redeem[r].pair : r \in Redeemers}

\* An application that a failed background update left out.
Unlisted == {p \in local : p[1] \notin row[p[2]].clients}

\* DELETE ... RETURNING clients.
Returned_First(gone) ==
    LET first == CHOOSE s \in gone : TRUE
    IN {p \in Pairs : p[2] = first /\ p[1] \in row[first].clients}
Returned(gone) == {p \in Pairs : p[2] \in gone /\ p[1] \in row[p[2]].clients}

remove(w, gone) ==
    /\ removing[w] = {}
    /\ gone # {}
    /\ row' = [s \in Sids |-> IF s \in gone THEN [NoSession EXCEPT !.state = "gone"]
                              ELSE row[s]]
    /\ removing' = [removing EXCEPT ![w] = Returned(gone)]
    /\ excused' = excused \cup {p \in Pairs : p \in LoggingIn \cup Unlisted /\ p[2] \in gone}
    /\ UNCHANGED <<now, suspended, authorizing, code, redeem, appends, queued, local>>

LiveRows == {s \in Sids : row[s].state = "live"}

logout(w) == \E s \in Sids : Live(s) /\ remove(w, {s})

\* DELETE /account/sessions/:sid and terminate-others.
terminate(w) == \E s \in LiveRows : remove(w, {s})
terminateOthers(w) == \E keep \in LiveRows : remove(w, LiveRows \ {keep})

\* POST /account/password keeps the caller's session when it is known.
changePassword(w) == \E keep \in LiveRows \cup {Nobody} : remove(w, LiveRows \ {keep})

cleanExpiredSessions(w) == remove(w, {s \in Sids : Expired(s)})

\* fanOutLogout for one application: the event is committed to the outbox, or
\* the error is swallowed by allSettled.
fanOutLogout(w, p) ==
    /\ p \in removing[w]
    /\ removing' = [removing EXCEPT ![w] = @ \ {p}]
    /\ \/ queued' = queued \cup {p} /\ UNCHANGED excused
       \/ excused' = excused \cup {p} /\ UNCHANGED queued
    /\ UNCHANGED <<now, row, suspended, authorizing, code, redeem, appends, local>>

\* The process stops: what was in memory is lost.
Crash ==
    /\ \/ \E w \in Removers : removing[w] # {}
       \/ appends # {}
    /\ excused' = excused \cup UNION {removing[w] : w \in Removers} \cup appends
    /\ removing' = [w \in Removers |-> {}]
    /\ appends' = {}
    /\ redeem' = [r \in Redeemers |-> NoRequest]
    /\ UNCHANGED <<now, row, suspended, authorizing, code, queued, local>>

-----------------------------------------------------------------------------
(* Applications.                                                           *)

\* The outbox delivers and the application ends its session.
LogoutDelivered(p) ==
    /\ p \in queued
    /\ queued' = queued \ {p}
    /\ local' = local \ {p}
    /\ UNCHANGED <<now, row, suspended, authorizing, code, redeem, appends, removing,
                   excused>>

\* The condition of the one UPDATE of POST /internal/session-activity.
Accepts_Silent(p) == row[p[2]].state = "gone" \/ (Live(p[2]) /\ p[1] \in row[p[2]].clients)
Accepts(p) == Live(p[2]) /\ p[1] \in row[p[2]].clients

\* GREATEST(last_seen, LEAST(reported, now)).
ReportedSeen_Late(p, t) == IF t > now THEN now ELSE t
ReportedSeen_Ahead(p, t) == IF t > row[p[2]].seen THEN t ELSE row[p[2]].seen
ReportedSeen(p, t) ==
    LET seen == IF t > now THEN now ELSE t
    IN IF seen > row[p[2]].seen THEN seen ELSE row[p[2]].seen

\* An application in use reports its activity, of now or of some earlier or
\* wrong time; the verdict "gone" ends its session.
reportActivity(p) ==
    /\ p \in local
    /\ IF Accepts(p)
       THEN /\ \E t \in 0..(MaxTime + 1) : row' = [row EXCEPT ![p[2]].seen = ReportedSeen(p, t)]
            /\ UNCHANGED local
       ELSE local' = local \ {p} /\ UNCHANGED row
    /\ UNCHANGED <<now, suspended, authorizing, code, redeem, appends, removing, queued,
                   excused>>

SessionNext ==
    \/ HourPasses \/ Suspend \/ Crash
    \/ \E s \in Sids : \/ persistSession(s) \/ touchSession(s)
                       \/ \E for \in {{}} \cup {{a} : a \in Apps} : createSession(s, for)
    \/ \E c \in Codes : \/ \E p \in Pairs : createCode(c, p)
                        \/ CodeExpires(c)
                        \/ \E r \in Redeemers : getCode(r, c)
    \/ \E r \in Redeemers : delCode(r) \/ mintTokens(r)
    \/ \E w \in Removers : \/ logout(w) \/ terminate(w) \/ terminateOthers(w)
                           \/ changePassword(w) \/ cleanExpiredSessions(w)
                           \/ \E p \in Pairs : fanOutLogout(w, p)
    \/ \E p \in Pairs : \/ loadSession(p) \/ authorizationEnds(p)
                        \/ recordClient(p) \/ LogoutDelivered(p) \/ reportActivity(p)

\* Applications in use report every few minutes.
SessionFairness == \A p \in Pairs : WF_sessionVars(reportActivity(p))

-----------------------------------------------------------------------------
(* Properties.                                                             *)

\* An application keeps a session of a deleted master session without being
\* told only if its login overlapped the deletion, from the moment a request or
\* a transaction held the session's ID to the listing of the application, or
\* the event was lost before it reached the outbox (fanOutLogout over the row's
\* clients).
StrandedOnlyByOverlap ==
    \A p \in local :
        row[p[2]].state = "gone" =>
            \/ p \in queued \cup excused
            \/ \E w \in Removers : p \in removing[w]

\* Those sessions end too: an application in use learns from the answer to its
\* activity report that the session is gone (sessionActivity.ts).
StrandedEnds ==
    \A p \in Pairs :
        row[p[2]].state = "gone" /\ p \in local ~> p \notin local

\* last_seen never moves backwards, whatever order reports arrive in, and no
\* report or request moves it past the session's absolute window.
LastSeenForward ==
    [][\A s \in Sids :
         row[s].state = "live" /\ row'[s].state = "live" =>
            /\ row'[s].seen >= row[s].seen
            /\ row'[s].seen # row[s].seen => row'[s].seen < row[s].created + Window(s)]_sessionVars

\* An authorization code is redeemed once (codes.ts).
CodeOnce == \A c \in Codes : code[c].uses <= 1

=============================================================================
