------------------------------ MODULE LoginTxn ------------------------------
(***************************************************************************)
(* Login transactions: the pages of src/routes/authorize.ts over the JSON  *)
(* value that src/oidc/transactions.ts keeps in Redis for each of them.    *)
(*                                                                         *)
(* A request reads the transaction, works on its copy, and writes the      *)
(* whole copy back (updateTxn) or deletes the key (consumeTxn).  Several   *)
(* requests for one transaction interleave between those commands: a       *)
(* double click, two tabs, a reload.  Requests with a wrong csrf value, and*)
(* pages that are only rendered, change nothing and are left out.          *)
(***************************************************************************)
EXTENDS SecondFactors, Sequences

CONSTANTS
    Txns,           \* transaction IDs
    Apps,           \* OIDC clients
    MfaUsers,       \* users with mfa_enabled
    EmailUsers,     \* users with an email address
    Cap,            \* MAX_CHALLENGE_ATTEMPTS
    MaxSessions,    \* bound: sessions
    MaxRequests     \* bound: requests in a behaviour

ASSUME LoginAssumption ==
    /\ {Cap, MaxSessions, MaxRequests} \subseteq Nat \ {0}
    /\ MfaUsers \cup EmailUsers \subseteq Users
    /\ None \notin Apps \cup Txns

VARIABLES
    txn,            \* Redis txn:<id>
    ttl,            \* time to live of the key: unused, ttl or never
    active,         \* users whose status is active
    access,         \* pairs of app and user for which appAccessAllowed holds
    sessions,       \* history: sessions created, in order
    stamps,         \* history: step-ups of a session by stampStepup
    codes,          \* history: authorization codes minted
    proofs,         \* history: what was proved in a transaction, and by whom
    begun           \* requests so far

loginVars == <<txn, ttl, active, access, sessions, stamps, codes, proofs,
               begun>>
vars == <<req, factorVars, loginVars>>

Methods == {"passkey", "totp", "email"}

\* A transaction: the app it returns to (None for localNext); whether there
\* is a first-factor challenge; mfa, if "sub" is set, with what success is for: a new
\* session, the stamp or a code of the session "opener"; kmsi, the session whose
\* "Stay signed in?" is pending (0 for none).
Txn == [app : Apps \cup {None}, passkey : BOOLEAN,
        sub : Users \cup {None}, methods : SUBSET Methods, attempts : 0..(Cap - 1),
        challenge : BOOLEAN, mode : {"login", "stamp", "code"},
        opener : 0..MaxSessions, emailSent : BOOLEAN, kmsi : 0..MaxSessions]
Gone == [app |-> None, passkey |-> FALSE, sub |-> None, methods |-> {}, attempts |-> 0,
         challenge |-> FALSE, mode |-> "gone", opener |-> 0, emailSent |-> FALSE, kmsi |-> 0]
NewTxn == [Gone EXCEPT !.mode = "login"]

\* A request: where it is, the transaction, its copy, the user and the method
\* it is about, the challenge and the row it read, and where it goes on after
\* the next write.
Idle == [pc |-> "idle", id |-> None, txn |-> Gone, user |-> None, method |-> "pwd",
         challenge |-> FALSE, row |-> NoRow, then |-> "idle"]

Labels == {"idle", "password", "save", "options", "challenge", "finish", "stay",
           "mint", "stamp", "consume", "totp", "assertion", "email", "match", "miss",
           "proved", "refuted", "limits", "existing", "issue", "count", "issued",
           "limited", "mail"}

Session == [sub : Users, amr : SUBSET (Methods \cup {"pwd"}), id : Txns \cup {None},
            persistent : BOOLEAN]

TypeOK ==
    /\ FactorTypeOK
    /\ req \in [Requests -> [pc : Labels, id : Txns \cup {None}, txn : Txn \cup {Gone},
                             user : Users \cup {None}, method : Methods \cup {"pwd"},
                             challenge : BOOLEAN, row : Rows,
                             then : {"idle", "options", "challenge"}]]
    /\ txn \in [Txns -> Txn \cup {Gone}]
    /\ ttl \in [Txns -> {"unused", "ttl", "never"}]
    /\ active \in SUBSET Users
    /\ access \in SUBSET (Apps \X Users)
    /\ Len(sessions) <= MaxSessions
    /\ \A i \in DOMAIN sessions : sessions[i] \in Session
    /\ begun \in 0..MaxRequests

\* There is one session to begin with, which a step-up can be about.
Init ==
    /\ FactorInit
    /\ totpOf \in [Authenticators -> Users]
    /\ passkeyOf \in [Passkeys -> Users]
    /\ req = [r \in Requests |-> Idle]
    /\ txn = [t \in Txns |-> Gone]
    /\ ttl = [t \in Txns |-> "unused"]
    /\ active = Users
    /\ access = Apps \X Users
    /\ \E u \in Users : sessions = <<[sub |-> u, amr |-> {"pwd"}, id |-> None,
                                      persistent |-> FALSE]>>
    /\ stamps = {}
    /\ codes = {}
    /\ proofs = {}
    /\ begun = 0

-----------------------------------------------------------------------------
(* Parts of the handlers.  "q" is the record of the request.               *)

\* The second factors that a login asks for, the strongest first; email only
\* when there is nothing else.
LoginMethods(u) ==
    LET strong == {m \in {"passkey", "totp"} :
                     \/ m = "passkey" /\ countPasskeys(u) > 0
                     \/ m = "totp" /\ countAuthenticators(u) > 0}
    IN IF strong # {} \/ u \notin EmailUsers THEN strong ELSE {"email"}

\* The page of a request that has ended keeps nothing.
Done(r) == req' = [req EXCEPT ![r] = Idle]

\* renderChallenge(method): the passkey page stores a new challenge.
renderChallenge(r, q, method) ==
    IF method = "passkey"
    THEN req' = [req EXCEPT ![r] = [q EXCEPT !.pc = "save", !.then = "idle",
                                            !.txn.challenge = TRUE]]
    ELSE Done(r)

Strongest(methods) ==
    IF "passkey" \in methods THEN "passkey"
    ELSE IF "totp" \in methods THEN "totp" ELSE "email"

\* loginPasskeyOptions: the login form has one challenge, stored when missing.
loginPasskeyOptions(r, q) ==
    IF q.txn.passkey
    THEN Done(r)
    ELSE req' = [req EXCEPT ![r] = [q EXCEPT !.pc = "save", !.then = "idle",
                                            !.txn.passkey = TRUE]]

\* Every handler begins with getTxn; a missing one is the page "expired".
getTxn(r, t) ==
    /\ req[r].pc = "idle"
    /\ begun < MaxRequests
    /\ begun' = begun + 1
    /\ txn[t].mode # "gone"

Reading(t) == [Idle EXCEPT !.id = t, !.txn = txn[t]]

-----------------------------------------------------------------------------
(* The requests.                                                           *)

\* createTxn: a random ID, a key that lives for TXN_TTL_SECONDS.
createTxn(t, value) ==
    /\ ttl[t] = "unused"
    /\ ttl' = [ttl EXCEPT ![t] = "ttl"]
    /\ txn' = [txn EXCEPT ![t] = value]

\* GET /authorize: a code for the session there is, a step-up of it with the
\* factors asked for that its user has, or a new login.
authorize(r, t) ==
    /\ req[r].pc = "idle"
    /\ begun < MaxRequests
    /\ begun' = begun + 1
    /\ \E a \in Apps :
        \/ \E s \in DOMAIN sessions :
            /\ sessions[s].sub \in active
            /\ <<a, sessions[s].sub>> \in access
            /\ codes' = codes \cup {[sub |-> sessions[s].sub, sid |-> s, id |-> None,
                                     amr |-> sessions[s].amr]}
            /\ UNCHANGED <<txn, ttl>>
        \/ \E s \in DOMAIN sessions, want \in SUBSET {"passkey", "totp"} :
            LET u == sessions[s].sub
                methods == LoginMethods(u) \cap want
            IN /\ u \in active
               /\ <<a, u>> \in access
               /\ methods # {}
               /\ createTxn(t, [NewTxn EXCEPT !.app = a, !.sub = u, !.methods = methods,
                                              !.mode = "code", !.opener = s])
               /\ UNCHANGED codes
        \/ createTxn(t, [NewTxn EXCEPT !.app = a]) /\ UNCHANGED codes
    /\ UNCHANGED <<req, factorVars, active, access, sessions, stamps, proofs>>

\* The /admin door: a step-up with the strongest factor, or a login.
adminDoor(r, t) ==
    /\ req[r].pc = "idle"
    /\ begun < MaxRequests
    /\ begun' = begun + 1
    /\ \/ \E s \in DOMAIN sessions :
            LET u == sessions[s].sub
                strong == LoginMethods(u) \cap {"passkey", "totp"}
            IN /\ u \in active
               /\ strong # {}
               /\ createTxn(t, [NewTxn EXCEPT !.sub = u, !.methods = {Strongest(strong)},
                                              !.mode = "stamp", !.opener = s])
       \/ createTxn(t, NewTxn)
    /\ UNCHANGED <<req, factorVars, active, access, sessions, stamps, codes, proofs>>

\* GET /login and GET /login/passkey: the page of the phase.
login(r, t) ==
    /\ getTxn(r, t)
    /\ txn[t].kmsi = 0
    /\ IF txn[t].sub # None
       THEN \E m \in txn[t].methods : renderChallenge(r, Reading(t), m)
       ELSE loginPasskeyOptions(r, Reading(t))
    /\ UNCHANGED <<factorVars, txn, ttl, active, access, sessions, stamps, codes, proofs>>

\* POST /login and POST /login/passkey: the first factor.
postLogin(r, t) ==
    /\ getTxn(r, t)
    /\ txn[t].kmsi = 0
    /\ IF txn[t].sub # None
       THEN renderChallenge(r, Reading(t), Strongest(txn[t].methods))
       ELSE \/ \E u \in Users :
                 req' = [req EXCEPT ![r] = [Reading(t) EXCEPT !.pc = "password", !.user = u]]
            \/ req' = [req EXCEPT ![r] =
                         [Reading(t) EXCEPT !.pc = "assertion", !.method = "passkey",
                                            !.challenge = txn[t].passkey]]
    /\ UNCHANGED <<factorVars, txn, ttl, active, access, sessions, stamps, codes, proofs>>

\* The password is wrong, or it is right: then a challenge is due when the
\* account asks for one and there is a method for it.
checkPassword(r) ==
    LET q == req[r]
        methods == LoginMethods(q.user)
    IN /\ q.pc = "password"
       /\ \/ loginPasskeyOptions(r, q) /\ UNCHANGED proofs
          \/ /\ q.user \in active
             /\ proofs' = proofs \cup {<<q.id, q.user, "pwd">>}
             /\ req' = [req EXCEPT ![r] =
                          IF q.user \in MfaUsers /\ methods # {}
                          THEN [q EXCEPT !.pc = "save", !.then = "challenge",
                                         !.txn.sub = q.user, !.txn.methods = methods,
                                         !.txn.attempts = 0, !.txn.challenge = FALSE,
                                         !.txn.emailSent = FALSE]
                          ELSE [q EXCEPT !.pc = "finish"]]
       /\ UNCHANGED <<factorVars, txn, ttl, active, access, sessions, stamps, codes, begun>>

\* failBack: the challenge was used up.
failBack(r, q) ==
    req' = [req EXCEPT ![r] = [q EXCEPT !.pc = "save", !.then = "options",
                                        !.txn.passkey = FALSE]]

\* POST /login/challenge with a method of the transaction; a passkey's
\* challenge is taken out of the copy.
postChallenge(r, t) ==
    /\ getTxn(r, t)
    /\ txn[t].kmsi = 0 /\ txn[t].sub # None
    /\ \E m \in txn[t].methods :
         req' = [req EXCEPT ![r] =
                   [Reading(t) EXCEPT !.pc = IF m = "passkey" THEN "assertion" ELSE m,
                                      !.method = m, !.user = txn[t].sub,
                                      !.challenge = m = "passkey" /\ txn[t].challenge,
                                      !.txn.challenge = @ /\ m # "passkey"]]
    /\ UNCHANGED <<factorVars, txn, ttl, active, access, sessions, stamps, codes, proofs>>

\* A factor was proved.  The first factor needs an active account (the passkey
\* is both factors); succeed() goes by what the challenge was for.
factorProved(r) ==
    LET q == req[r]
    IN /\ q.pc = "proved"
       /\ proofs' = proofs \cup {<<q.id, q.user, q.method>>}
       /\ IF q.txn.sub = None /\ q.user \notin active
          THEN failBack(r, q)
          ELSE Goto(r, CASE q.txn.mode = "login" -> "finish"
                         [] q.txn.mode = "stamp" -> "stamp"
                         [] q.txn.mode = "code" ->
                              IF <<q.txn.app, q.txn.sub>> \in access THEN "mint" ELSE "consume")
       /\ UNCHANGED <<factorVars, txn, ttl, active, access, sessions, stamps, codes, begun>>

\* The failure that ends a transaction.
Burns_Late(n) == n > Cap
Burns(n) == n >= Cap

\* A factor was refuted: strongFail counts and burns; a wrong email code is
\* counted by emailOtp only.
factorRefuted(r) ==
    LET q == req[r]
        n == q.txn.attempts + 1
    IN /\ q.pc = "refuted"
       /\ IF q.txn.sub = None
          THEN failBack(r, q)
          ELSE IF q.method = "email"
          THEN Done(r)
          ELSE req' = [req EXCEPT ![r] =
                         IF Burns(n) THEN [q EXCEPT !.pc = "consume"]
                         ELSE [q EXCEPT !.pc = "save", !.then = "challenge",
                                        !.txn.attempts = n]]
       /\ UNCHANGED <<factorVars, txn, ttl, active, access, sessions, stamps, codes,
                      proofs, begun>>

\* The user a login is completed for: the challenge's, or the one that the
\* first factor showed.
LoginSub(q) == IF q.txn.sub = None THEN q.user ELSE q.txn.sub

\* finishLogin: createSession, then the question "Stay signed in?".
finishLogin(r) ==
    LET q == req[r]
        sid == Len(sessions) + 1
    IN /\ q.pc = "finish"
       /\ sid <= MaxSessions
       /\ sessions' = Append(sessions,
            [sub |-> LoginSub(q), id |-> q.id, persistent |-> FALSE,
             amr |-> {q.method} \cup (IF q.txn.sub = None THEN {} ELSE {"pwd"})])
       /\ req' = [req EXCEPT ![r] = [q EXCEPT !.pc = "save", !.then = "idle",
                                              !.txn.kmsi = sid]]
       /\ UNCHANGED <<factorVars, txn, ttl, active, access, stamps, codes, proofs, begun>>

\* POST /login/stay: persistSession writes only a session whose cookie the
\* browser has.
stay(r, t) ==
    /\ getTxn(r, t)
    /\ txn[t].kmsi # 0
    /\ \E yes \in BOOLEAN : sessions' = [sessions EXCEPT ![txn[t].kmsi].persistent = @ \/ yes]
    /\ req' = [req EXCEPT ![r] = [Reading(t) EXCEPT !.pc = "stay"]]
    /\ UNCHANGED <<factorVars, txn, ttl, active, access, stamps, codes, proofs>>

checkAccess(r) ==
    LET q == req[r]
        allowed == q.txn.app # None /\ <<q.txn.app, sessions[q.txn.kmsi].sub>> \in access
    IN /\ q.pc = "stay"
       /\ Goto(r, IF allowed THEN "mint" ELSE "consume")
       /\ UNCHANGED <<factorVars, loginVars>>

\* createCode: for the new session, or for the session that a step-up is
\* about, with the fresh factor alone.
mint(r) ==
    LET q == req[r]
        k == q.txn.kmsi
    IN /\ q.pc = "mint"
       /\ codes' = codes \cup
            {IF k # 0
             THEN [sub |-> sessions[k].sub, sid |-> k, id |-> None, amr |-> sessions[k].amr]
             ELSE [sub |-> q.txn.sub, sid |-> q.txn.opener, id |-> q.id, amr |-> {q.method}]}
       /\ Goto(r, "consume")
       /\ UNCHANGED <<factorVars, txn, ttl, active, access, sessions, stamps, proofs, begun>>

stampStepup(r) ==
    LET q == req[r]
    IN /\ q.pc = "stamp"
       /\ stamps' = stamps \cup {<<q.txn.opener, q.method, q.id>>}
       /\ Goto(r, "consume")
       /\ UNCHANGED <<factorVars, txn, ttl, active, access, sessions, codes, proofs, begun>>

\* POST /login/challenge/send-email.
sendEmail(r, t) ==
    /\ getTxn(r, t)
    /\ "email" \in txn[t].methods
    /\ req' = [req EXCEPT ![r] = [Reading(t) EXCEPT !.pc = "limits", !.method = "email",
                                                    !.user = txn[t].sub]]
    /\ UNCHANGED <<factorVars, txn, ttl, active, access, sessions, stamps, codes, proofs>>

\* The mail goes out or fails; over the limit there is none.
emailSent(r) ==
    /\ \/ req[r].pc \in {"limited", "issued"} /\ Done(r)
       \/ /\ req[r].pc = "issued"
          /\ req' = [req EXCEPT ![r].pc = "save", ![r].then = "challenge",
                                ![r].txn.emailSent = TRUE]
    /\ UNCHANGED <<factorVars, loginVars>>

-----------------------------------------------------------------------------
(* The key in Redis.                                                       *)

\* updateTxn: SET with KEEPTTL.  A key that was deleted comes back, and has no
\* time to live.
updateTxn(r) ==
    LET q == req[r]
    IN /\ q.pc = "save"
       /\ txn' = [txn EXCEPT ![q.id] = q.txn]
       /\ ttl' = [ttl EXCEPT ![q.id] = IF txn[q.id] = Gone THEN "never" ELSE @]
       /\ CASE q.then = "idle" -> Done(r)
            [] q.then = "options" -> loginPasskeyOptions(r, q)
            [] q.then = "challenge" ->
                 renderChallenge(r, q, IF q.method = "pwd" THEN Strongest(q.txn.methods)
                                       ELSE q.method)
       /\ UNCHANGED <<factorVars, active, access, sessions, stamps, codes, proofs, begun>>

consumeTxn(r) ==
    /\ req[r].pc = "consume"
    /\ txn' = [txn EXCEPT ![req[r].id] = Gone]
    /\ Done(r)
    /\ UNCHANGED <<factorVars, ttl, active, access, sessions, stamps, codes, proofs, begun>>

TxnExpires(t) ==
    /\ txn[t] # Gone /\ ttl[t] = "ttl"
    /\ txn' = [txn EXCEPT ![t] = Gone]
    /\ UNCHANGED <<req, factorVars, ttl, active, access, sessions, stamps, codes, proofs,
                   begun>>

\* An administrator suspends a user or takes a role away.
Suspend(u) ==
    /\ u \in active
    /\ active' = active \ {u}
    /\ access' = {p \in access : p[2] # u}
    /\ UNCHANGED <<req, factorVars, txn, ttl, sessions, stamps, codes, proofs, begun>>

Next ==
    \/ \E r \in Requests :
        \/ \E t \in Txns : \/ authorize(r, t) \/ adminDoor(r, t) \/ login(r, t)
                           \/ postLogin(r, t) \/ postChallenge(r, t) \/ stay(r, t)
                           \/ sendEmail(r, t)
        \/ checkPassword(r) \/ factorProved(r) \/ factorRefuted(r) \/ finishLogin(r)
        \/ checkAccess(r) \/ mint(r) \/ stampStepup(r) \/ emailSent(r)
        \/ updateTxn(r) \/ consumeTxn(r)
        \/ FactorStep(r) /\ UNCHANGED loginVars
    \/ TimePasses /\ UNCHANGED loginVars
    \/ \E t \in Txns : TxnExpires(t)
    \/ \E u \in Users : Suspend(u)

Spec == Init /\ [][Next]_vars

-----------------------------------------------------------------------------
(* Properties.                                                             *)

\* Whatever the requests of a transaction do to each other's copies: a session
\* rests on factors that its own user proved in that transaction, with one
\* factor less than the account asks for in no case; a step-up code and a
\* stamp name a factor that the session's user proved for them (finishLogin,
\* succeed).
FactorProven ==
    /\ \A i \in DOMAIN sessions :
         LET s == sessions[i]
         IN s.id # None =>
              /\ \A m \in s.amr : <<s.id, s.sub, m>> \in proofs
              /\ s.amr = {"pwd"} => s.sub \notin MfaUsers \/ LoginMethods(s.sub) = {}
    /\ \A c \in codes :
         /\ c.sub = sessions[c.sid].sub
         /\ IF c.id = None THEN c.amr = sessions[c.sid].amr
            ELSE \A m \in c.amr : <<c.id, c.sub, m>> \in proofs
    /\ \A x \in stamps : <<x[3], sessions[x[1]].sub, x[2]>> \in proofs

=============================================================================
