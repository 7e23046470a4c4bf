---------------------------- MODULE LoginProofs -----------------------------
(***************************************************************************)
(* Proofs about sign-in: however the requests of a transaction interleave  *)
(* and overwrite each other's copies, a session, a code and a stamp rest   *)
(* on factors that their user proved; the code of an authenticator is      *)
(* accepted once; an emailed code that was accepted does not come back.    *)
(***************************************************************************)
EXTENDS LoginTxn, TLAPS

-----------------------------------------------------------------------------
(* Types, as loose as the proofs can do with.                              *)

AnyTxn == [app : Apps \cup {None}, passkey : BOOLEAN,
           sub : Users \cup {None}, methods : SUBSET Methods, attempts : Nat,
           challenge : BOOLEAN, mode : {"login", "stamp", "code", "gone"},
           opener : Nat, emailSent : BOOLEAN, kmsi : Nat]
AnyRow == [code : Nat, attempts : Nat, fresh : BOOLEAN, live : BOOLEAN]
AnyRequest == [pc : Labels, id : Txns \cup {None}, txn : AnyTxn, user : Users \cup {None},
               method : Methods \cup {"pwd"}, challenge : BOOLEAN, row : AnyRow,
               then : {"idle", "options", "challenge"}]
AnySession == [sub : Users \cup {None}, amr : SUBSET (Methods \cup {"pwd"}),
               id : Txns \cup {None}, persistent : BOOLEAN]

LoginType ==
    /\ req \in [Requests -> AnyRequest]
    /\ txn \in [Txns -> AnyTxn]
    /\ sessions \in Seq(AnySession)
    /\ passkeyOf \in [Passkeys -> Users \cup {None}]
    /\ active \subseteq Users

FactorType ==
    /\ clock \in 1..MaxStep
    /\ stepOf \in [Authenticators -> Steps]
    /\ accepted \in [Authenticators -> [Steps -> Nat]]
    /\ otp \in [Users -> AnyRow]
    /\ generated \in [Users -> Nat]
    /\ spent \in [Users -> SUBSET Nat]

-----------------------------------------------------------------------------
(* Second factors.                                                         *)

\* The last step accepted is the last one counted.
StepInv ==
    \A a \in Authenticators, s \in Steps :
        accepted[a][s] <= 1 /\ (s > stepOf[a] => accepted[a][s] = 0)

\* Codes are numbered in the order they are generated, so a new one is new; and
\* a row that can be used has a code.
CodeInv ==
    \A u \in Users :
        /\ otp[u].code <= generated[u]
        /\ otp[u].live => otp[u].code # 0
        /\ otp[u].code \notin spent[u]
        /\ 0 \notin spent[u]
        /\ \A c \in spent[u] : c <= generated[u]

-----------------------------------------------------------------------------
(* Transactions.                                                           *)

\* A transaction, in Redis or as the copy of a request, however old: methods
\* only with a user to prove them; the second half of a login only after the
\* password; a step-up only of a session of the same user; the question "Stay
\* signed in?" only for a session that exists.
TxnOK(t, x) ==
    /\ x.sub = None => x.methods = {}
    /\ x.mode = "login" /\ x.sub # None => <<t, x.sub, "pwd">> \in proofs
    /\ x.mode \in {"stamp", "code"} => /\ x.sub # None /\ x.opener \in DOMAIN sessions
                                       /\ sessions[x.opener].sub = x.sub
    /\ x.kmsi # 0 => x.kmsi \in DOMAIN sessions

Verifying == {"assertion", "totp", "email", "match", "miss", "proved", "refuted"}
Mailing == {"email", "match", "miss", "limits", "existing", "issue", "count"}

\* A request: what its place says it has proved, and of whom.
RequestOK(q) ==
    /\ q.pc # "idle" => q.id \in Txns /\ q.txn.mode # "gone" /\ TxnOK(q.id, q.txn)
    /\ q.pc = "password" => q.txn.sub = None /\ q.user \in Users /\ q.method = "pwd"
    /\ q.pc \in Verifying => /\ q.method \in Methods
                             /\ IF q.txn.sub # None THEN q.user = q.txn.sub
                                ELSE q.method = "passkey" /\ q.pc \in {"assertion", "proved", "refuted"}
    /\ q.pc = "finish" =>
         /\ q.txn.mode = "login"
         /\ <<q.id, LoginSub(q), q.method>> \in proofs
         /\ q.method = "pwd" => q.txn.sub = None /\ (q.user \notin MfaUsers \/ LoginMethods(q.user) = {})
    /\ q.pc = "stamp" => q.txn.mode = "stamp" /\ <<q.id, q.txn.sub, q.method>> \in proofs
    /\ q.pc = "mint" => \/ q.txn.kmsi # 0
                        \/ q.txn.mode = "code" /\ <<q.id, q.txn.sub, q.method>> \in proofs
    /\ q.pc = "stay" => q.txn.kmsi # 0
    /\ q.pc \in Mailing => q.user \in Users
    /\ q.pc = "match" => q.row.code # 0 /\ q.row.code <= generated[q.user]

TxnInv == \A t \in Txns : TxnOK(t, txn[t])
RequestInv == \A r \in Requests : RequestOK(req[r])

\* FactorProven, with the existence of what codes and stamps name.
SessionOK(s) ==
    s.id # None =>
        /\ \A m \in s.amr : <<s.id, s.sub, m>> \in proofs
        /\ s.amr = {"pwd"} => s.sub \notin MfaUsers \/ LoginMethods(s.sub) = {}
CodeOK(c) ==
    /\ c.sid \in DOMAIN sessions
    /\ c.sub = sessions[c.sid].sub
    /\ IF c.id = None THEN c.amr = sessions[c.sid].amr
       ELSE \A m \in c.amr : <<c.id, c.sub, m>> \in proofs
StampOK(x) == x[1] \in DOMAIN sessions /\ <<x[3], sessions[x[1]].sub, x[2]>> \in proofs

SessionsOK == \A i \in DOMAIN sessions : SessionOK(sessions[i])
CodesOK == \A c \in codes : CodeOK(c)
StampsOK == \A x \in stamps : StampOK(x)

FactorInv == FactorType /\ StepInv /\ CodeInv
LoginInv == LoginType /\ FactorInv /\ TxnInv /\ RequestInv /\ SessionsOK /\ CodesOK /\ StampsOK

-----------------------------------------------------------------------------
(* What every step does to the histories, and what that leaves true.       *)

Grows ==
    /\ proofs \subseteq proofs'
    /\ DOMAIN sessions \subseteq DOMAIN sessions'
    /\ \A i \in DOMAIN sessions : /\ sessions'[i].sub = sessions[i].sub
                                  /\ sessions'[i].amr = sessions[i].amr
                                  /\ sessions'[i].id = sessions[i].id
    /\ generated' \in [Users -> Nat]
    /\ \A u \in Users : generated[u] <= generated'[u]
    /\ UNCHANGED <<totpOf, passkeyOf>>

LEMMA SameMethods == ASSUME Grows, NEW u PROVE LoginMethods(u)' = LoginMethods(u)
BY DEF Grows, LoginMethods, countPasskeys, countAuthenticators

LEMMA TxnKept == ASSUME Grows, NEW t, NEW x, TxnOK(t, x) PROVE TxnOK(t, x)'
BY DEF Grows, TxnOK

LEMMA RequestKept ==
    ASSUME Grows, FactorType, NEW q \in AnyRequest, RequestOK(q) PROVE RequestOK(q)'
<1>1. q.pc # "idle" => q.id \in Txns /\ q.txn.mode # "gone" /\ TxnOK(q.id, q.txn)'
  BY TxnKept DEF RequestOK
<1>2. q.pc = "finish" =>
         /\ q.txn.mode = "login"
         /\ <<q.id, LoginSub(q), q.method>> \in proofs'
         /\ q.method = "pwd" => q.txn.sub = None /\ (q.user \notin MfaUsers \/ LoginMethods(q.user)' = {})
  BY SameMethods DEF RequestOK, Grows
<1>3. q.pc \in Mailing => q.user \in Users
  BY DEF RequestOK
<1>4. q.pc = "match" => q.row.code # 0 /\ q.row.code <= generated'[q.user]
  BY <1>3 DEF RequestOK, Grows, FactorType, Mailing, AnyRequest, AnyRow
<1>5. /\ q.pc = "password" => q.txn.sub = None /\ q.user \in Users /\ q.method = "pwd"
      /\ q.pc \in Verifying => /\ q.method \in Methods
                               /\ IF q.txn.sub # None THEN q.user = q.txn.sub
                                  ELSE q.method = "passkey" /\ q.pc \in {"assertion", "proved", "refuted"}
      /\ q.pc = "stamp" => q.txn.mode = "stamp" /\ <<q.id, q.txn.sub, q.method>> \in proofs'
      /\ q.pc = "mint" => \/ q.txn.kmsi # 0
                          \/ q.txn.mode = "code" /\ <<q.id, q.txn.sub, q.method>> \in proofs'
      /\ q.pc = "stay" => q.txn.kmsi # 0
  BY DEF RequestOK, Grows
<1>6. QED
  BY <1>1, <1>2, <1>3, <1>4, <1>5 DEF RequestOK, LoginSub

\* A step in which one request takes a new value that is in order.
Became(r) == \E n \in AnyRequest : RequestOK(n) /\ req' = [req EXCEPT ![r] = n]

LEMMA OneRequest ==
    ASSUME Grows, LoginType, FactorType, RequestInv, NEW r \in Requests, NEW n \in AnyRequest,
           RequestOK(n)', req' = [req EXCEPT ![r] = n]
    PROVE  req' \in [Requests -> AnyRequest] /\ RequestInv'
<1>1. req' \in [Requests -> AnyRequest]
  BY DEF LoginType
<1>2. ASSUME NEW o \in Requests PROVE RequestOK(req[o])'
  <2>1. PICK q \in AnyRequest : q = req[o] /\ RequestOK(q)
    BY DEF LoginType, RequestInv
  <2>2. RequestOK(q)'
    BY <2>1, RequestKept
  <2>3. req'[o] = n \/ req'[o] = q
    BY <2>1 DEF LoginType
  <2>4. QED
    BY <2>2, <2>3
<1>3. QED
  BY <1>1, <1>2 DEF RequestInv

LEMMA BecameOK ==
    ASSUME Grows, LoginType, FactorType, RequestInv, NEW r \in Requests, Became(r)
    PROVE  req' \in [Requests -> AnyRequest] /\ RequestInv'
<1>1. PICK n \in AnyRequest : RequestOK(n) /\ req' = [req EXCEPT ![r] = n]
  BY DEF Became
<1>2. RequestOK(n)'
  BY <1>1, RequestKept
<1>3. QED
  BY <1>1, <1>2, OneRequest

LEMMA SameRequests ==
    ASSUME Grows, LoginType, FactorType, RequestInv, UNCHANGED req
    PROVE  req' \in [Requests -> AnyRequest] /\ RequestInv'
<1>1. ASSUME NEW o \in Requests PROVE RequestOK(req[o])'
  <2>1. PICK q \in AnyRequest : q = req[o] /\ RequestOK(q)
    BY DEF LoginType, RequestInv
  <2>2. RequestOK(q)'
    BY <2>1, RequestKept
  <2>3. QED
    BY <2>1, <2>2
<1>2. QED
  BY <1>1 DEF RequestInv, LoginType

LEMMA SameTxns == ASSUME Grows, TxnInv, UNCHANGED txn PROVE TxnInv'
<1>1. ASSUME NEW t \in Txns PROVE TxnOK(t, txn[t])'
  <2>1. PICK x : x = txn[t] /\ TxnOK(t, x)
    BY DEF TxnInv
  <2>2. TxnOK(t, x)'
    BY <2>1, TxnKept
  <2>3. QED
    BY <2>1, <2>2
<1>2. QED
  BY <1>1 DEF TxnInv

LEMMA OneTxn ==
    ASSUME Grows, LoginType, TxnInv, NEW t \in Txns, NEW x \in AnyTxn, TxnOK(t, x)',
           txn' = [txn EXCEPT ![t] = x]
    PROVE  txn' \in [Txns -> AnyTxn] /\ TxnInv'
<1>1. txn' \in [Txns -> AnyTxn]
  BY DEF LoginType
<1>2. ASSUME NEW o \in Txns PROVE TxnOK(o, txn[o])'
  <2>1. PICK y : y = txn[o] /\ TxnOK(o, y)
    BY DEF TxnInv
  <2>2. TxnOK(o, y)'
    BY <2>1, TxnKept
  <2>3. CASE o = t
    <3>1. txn'[o] = x
      BY <2>3 DEF LoginType
    <3>2. QED
      BY <2>3, <3>1
  <2>4. CASE o # t
    <3>1. txn'[o] = y
      BY <2>1, <2>4 DEF LoginType
    <3>2. QED
      BY <2>2, <3>1
  <2>5. QED
    BY <2>3, <2>4
<1>3. QED
  BY <1>1, <1>2 DEF TxnInv

LEMMA SessionKept == ASSUME Grows, NEW s, SessionOK(s) PROVE SessionOK(s)'
<1>1. LoginMethods(s.sub)' = LoginMethods(s.sub)
  BY SameMethods
<1>2. QED
  BY <1>1 DEF SessionOK, Grows

LEMMA CodeKept == ASSUME Grows, NEW c, CodeOK(c) PROVE CodeOK(c)'
BY DEF CodeOK, Grows

LEMMA StampKept == ASSUME Grows, NEW x, StampOK(x) PROVE StampOK(x)'
BY DEF StampOK, Grows

LEMMA SameSessions == ASSUME Grows, SessionsOK, UNCHANGED sessions PROVE SessionsOK'
<1>1. ASSUME NEW i \in DOMAIN sessions' PROVE SessionOK(sessions[i])'
  <2>1. PICK s : s = sessions[i] /\ SessionOK(s)
    BY DEF SessionsOK
  <2>2. SessionOK(s)'
    BY <2>1, SessionKept
  <2>3. QED
    BY <2>1, <2>2
<1>2. QED
  BY <1>1 DEF SessionsOK

LEMMA SameCodes == ASSUME Grows, CodesOK, UNCHANGED codes PROVE CodesOK'
<1>1. ASSUME NEW c \in codes PROVE CodeOK(c)'
  BY CodeKept DEF CodesOK
<1>2. QED
  BY <1>1 DEF CodesOK

LEMMA OneCode ==
    ASSUME Grows, CodesOK, NEW n, CodeOK(n), codes' = codes \cup {n} PROVE CodesOK'
<1>1. ASSUME NEW c \in codes \cup {n} PROVE CodeOK(c)'
  BY CodeKept DEF CodesOK
<1>2. QED
  BY <1>1 DEF CodesOK

LEMMA SameStamps == ASSUME Grows, StampsOK, UNCHANGED stamps PROVE StampsOK'
<1>1. ASSUME NEW x \in stamps PROVE StampOK(x)'
  BY StampKept DEF StampsOK
<1>2. QED
  BY <1>1 DEF StampsOK

LEMMA SameFactors == ASSUME FactorInv, UNCHANGED factorVars PROVE FactorInv'
BY DEF FactorInv, FactorType, StepInv, CodeInv, factorVars

\* Most steps of a request leave the histories and the factors alone.
LEMMA QuietGrows ==
    ASSUME FactorInv, UNCHANGED factorVars, UNCHANGED sessions, proofs \subseteq proofs' PROVE Grows
BY DEF FactorInv, FactorType, factorVars, Grows

LEMMA QuietStep ==
    ASSUME LoginInv, NEW r \in Requests, Became(r),
           UNCHANGED <<factorVars, txn, active, sessions, stamps, codes, proofs>>
    PROVE  LoginInv'
<1>1. Grows
  BY QuietGrows DEF LoginInv
<1>2. FactorInv' /\ TxnInv' /\ SessionsOK' /\ CodesOK' /\ StampsOK'
  BY <1>1, SameFactors, SameTxns, SameSessions, SameCodes, SameStamps DEF LoginInv
<1>3. req' \in [Requests -> AnyRequest] /\ RequestInv'
  BY <1>1, BecameOK DEF LoginInv, FactorInv
<1>4. LoginType'
  BY <1>3 DEF LoginInv, LoginType, factorVars
<1>5. QED
  BY <1>2, <1>3, <1>4 DEF LoginInv

-----------------------------------------------------------------------------
(* The ways a request goes on.                                             *)

LEMMA IdleOK == Idle \in AnyRequest /\ Gone \in AnyTxn /\ NoRow \in AnyRow /\ RequestOK(Idle)
<1>1. NoRow \in AnyRow /\ NoRow.code = 0
  BY DEF NoRow, AnyRow
<1>2. /\ Gone \in AnyTxn /\ Gone.sub = None /\ Gone.methods = {} /\ Gone.mode = "gone" /\ Gone.kmsi = 0
      /\ Gone.opener = 0
  BY DEF Gone, AnyTxn
<1>3. Idle \in AnyRequest
  BY <1>1, <1>2 DEF Idle, AnyRequest, Labels
<1>4. RequestOK(Idle)
  BY DEF RequestOK, Idle, Verifying, Mailing
<1>5. QED
  BY <1>1, <1>2, <1>3, <1>4

\* A transaction that differs from another one in what the invariant does not
\* speak of.
LEMMA TxnSame ==
    ASSUME NEW t, NEW x, NEW y, TxnOK(t, x), y.sub = x.sub, y.methods = x.methods, y.mode = x.mode,
           y.opener = x.opener, y.kmsi = x.kmsi
    PROVE  TxnOK(t, y)
BY DEF TxnOK

\* The copy that a request works on.
Holds(q) == q \in AnyRequest /\ q.id \in Txns /\ q.txn.mode # "gone" /\ TxnOK(q.id, q.txn)

LEMMA SaveOK == ASSUME NEW q, Holds(q), q.pc \in {"save", "consume"} PROVE RequestOK(q)
BY DEF Holds, RequestOK, Verifying, Mailing

LEMMA DoneOK == ASSUME NEW r, Done(r) PROVE Became(r)
BY IdleOK DEF Done, Became

LEMMA RenderOK ==
    ASSUME NEW r, NEW q, Holds(q), NEW m, renderChallenge(r, q, m) PROVE Became(r)
<1>1. CASE m = "passkey"
  <2> DEFINE n == [q EXCEPT !.pc = "save", !.then = "idle", !.txn.challenge = TRUE]
  <2>1. req' = [req EXCEPT ![r] = n]
    BY <1>1 DEF renderChallenge
  <2>2. n \in AnyRequest /\ n.pc = "save" /\ n.id = q.id /\ n.txn = [q.txn EXCEPT !.challenge = TRUE]
    BY DEF Holds, AnyRequest, AnyTxn, Labels
  <2>3. /\ n.txn.sub = q.txn.sub /\ n.txn.methods = q.txn.methods /\ n.txn.mode = q.txn.mode
        /\ n.txn.opener = q.txn.opener /\ n.txn.kmsi = q.txn.kmsi
    BY <2>2 DEF Holds, AnyRequest, AnyTxn
  <2> HIDE DEF n
  <2>4. TxnOK(n.id, n.txn)
    BY <2>2, <2>3, TxnSame DEF Holds
  <2>5. QED
    BY <2>1, <2>2, <2>3, <2>4, SaveOK DEF Became, Holds
<1>2. CASE m # "passkey"
  BY <1>2, DoneOK DEF renderChallenge
<1>3. QED
  BY <1>1, <1>2

LEMMA OptionsOK ==
    ASSUME NEW r, NEW q, Holds(q), loginPasskeyOptions(r, q) PROVE Became(r)
<1>1. CASE ~q.txn.passkey
  <2> DEFINE n == [q EXCEPT !.pc = "save", !.then = "idle", !.txn.passkey = TRUE]
  <2>1. req' = [req EXCEPT ![r] = n]
    BY <1>1 DEF loginPasskeyOptions
  <2>2. n \in AnyRequest /\ n.pc = "save" /\ n.id = q.id /\ n.txn = [q.txn EXCEPT !.passkey = TRUE]
    BY DEF Holds, AnyRequest, AnyTxn, Labels
  <2>3. /\ n.txn.sub = q.txn.sub /\ n.txn.methods = q.txn.methods /\ n.txn.mode = q.txn.mode
        /\ n.txn.opener = q.txn.opener /\ n.txn.kmsi = q.txn.kmsi
    BY <2>2 DEF Holds, AnyRequest, AnyTxn
  <2> HIDE DEF n
  <2>4. TxnOK(n.id, n.txn)
    BY <2>2, <2>3, TxnSame DEF Holds
  <2>5. QED
    BY <2>1, <2>2, <2>3, <2>4, SaveOK DEF Became, Holds
<1>2. CASE q.txn.passkey
  BY <1>2, DoneOK DEF loginPasskeyOptions
<1>3. QED
  BY <1>1, <1>2

LEMMA FailBackOK ==
    ASSUME NEW r, NEW q, Holds(q), failBack(r, q) PROVE Became(r)
<1> DEFINE n == [q EXCEPT !.pc = "save", !.then = "options", !.txn.passkey = FALSE]
<1>1. req' = [req EXCEPT ![r] = n]
  BY DEF failBack
<1>2. n \in AnyRequest /\ n.pc = "save" /\ n.id = q.id /\ n.txn = [q.txn EXCEPT !.passkey = FALSE]
  BY DEF Holds, AnyRequest, AnyTxn, Labels
<1>3. /\ n.txn.sub = q.txn.sub /\ n.txn.methods = q.txn.methods /\ n.txn.mode = q.txn.mode
      /\ n.txn.opener = q.txn.opener /\ n.txn.kmsi = q.txn.kmsi
  BY <1>2 DEF Holds, AnyRequest, AnyTxn
<1> HIDE DEF n
<1>4. TxnOK(n.id, n.txn)
  BY <1>2, <1>3, TxnSame DEF Holds
<1>5. QED
  BY <1>1, <1>2, <1>3, <1>4, SaveOK DEF Became, Holds

\* Reading a transaction that there is.
LEMMA ReadingOK ==
    ASSUME LoginInv, NEW t \in Txns, txn[t].mode # "gone"
    PROVE  /\ Holds(Reading(t)) /\ Reading(t) = [Idle EXCEPT !.id = t, !.txn = txn[t]]
           /\ Reading(t).id = t /\ Reading(t).txn = txn[t] /\ Reading(t).method = "pwd"
           /\ txn[t] \in AnyTxn /\ TxnOK(t, txn[t])
<1>1. txn[t] \in AnyTxn /\ TxnOK(t, txn[t])
  BY DEF LoginInv, LoginType, TxnInv
<1>2. /\ Reading(t) \in AnyRequest /\ Reading(t).id = t /\ Reading(t).txn = txn[t]
      /\ Reading(t).method = "pwd"
  BY <1>1, IdleOK DEF Reading, AnyRequest, Idle
<1>3. QED
  BY <1>1, <1>2 DEF Holds, Reading

\* What a request that is under way holds.
LEMMA HoldsOK ==
    ASSUME LoginInv, NEW r \in Requests, req[r].pc # "idle"
    PROVE  req[r] \in AnyRequest /\ RequestOK(req[r]) /\ Holds(req[r])
BY DEF LoginInv, LoginType, RequestInv, RequestOK, Holds

-----------------------------------------------------------------------------
(* One lemma for each step that does more than moving a request on.        *)

LEMMA StrongestIs == ASSUME NEW S PROVE Strongest(S) \in Methods
BY DEF Strongest, Methods

LEMMA LoginMethodsAre == ASSUME NEW u PROVE LoginMethods(u) \subseteq Methods
BY DEF LoginMethods, Methods

\* A new transaction.
LEMMA CreateOK ==
    ASSUME LoginInv, NEW t \in Txns, NEW x \in AnyTxn, TxnOK(t, x), createTxn(t, x),
           UNCHANGED <<req, factorVars, active, sessions, stamps, codes, proofs>>
    PROVE  LoginInv'
<1>1. Grows
  BY QuietGrows DEF LoginInv
<1>2. txn' \in [Txns -> AnyTxn] /\ TxnInv'
  <2>1. TxnOK(t, x)'
    BY <1>1, TxnKept
  <2>2. QED
    BY <1>1, <2>1, OneTxn DEF LoginInv, createTxn
<1>3. FactorInv' /\ SessionsOK' /\ CodesOK' /\ StampsOK'
  BY <1>1, SameFactors, SameSessions, SameCodes, SameStamps DEF LoginInv
<1>4. req' \in [Requests -> AnyRequest] /\ RequestInv'
  BY <1>1, SameRequests DEF LoginInv, FactorInv
<1>5. LoginType'
  BY <1>2, <1>4 DEF LoginInv, LoginType, factorVars
<1>6. QED
  BY <1>2, <1>3, <1>4, <1>5 DEF LoginInv

\* Transactions as they are created.
LEMMA NewLogin ==
    ASSUME NEW t, NEW a \in Apps \cup {None}
    PROVE  /\ [NewTxn EXCEPT !.app = a] \in AnyTxn /\ TxnOK(t, [NewTxn EXCEPT !.app = a])
           /\ NewTxn \in AnyTxn /\ TxnOK(t, NewTxn)
<1>1. NewTxn \in AnyTxn /\ NewTxn.sub = None /\ NewTxn.methods = {} /\ NewTxn.mode = "login" /\ NewTxn.kmsi = 0
  BY DEF NewTxn, Gone, AnyTxn
<1>2. QED
  BY <1>1 DEF AnyTxn, TxnOK

LEMMA NewStepUp ==
    ASSUME NEW t, LoginInv, NEW a \in Apps \cup {None}, NEW s \in DOMAIN sessions,
           NEW M \in SUBSET Methods, NEW mode \in {"stamp", "code"}, sessions[s].sub # None
    PROVE  LET x == [NewTxn EXCEPT !.app = a, !.sub = sessions[s].sub, !.methods = M,
                                   !.mode = mode, !.opener = s]
           IN  x \in AnyTxn /\ TxnOK(t, x)
<1> DEFINE x == [NewTxn EXCEPT !.app = a, !.sub = sessions[s].sub, !.methods = M,
                               !.mode = mode, !.opener = s]
<1>1. NewTxn \in AnyTxn /\ NewTxn.kmsi = 0
  BY DEF NewTxn, Gone, AnyTxn
<1>2. sessions[s].sub \in Users \cup {None} /\ s \in Nat
  <2>1. sessions \in Seq(AnySession)
    BY DEF LoginInv, LoginType
  <2>2. sessions[s] \in AnySession /\ s \in Nat
    BY <2>1
  <2>3. QED
    BY <2>2 DEF AnySession
<1>3. x \in AnyTxn
  BY <1>1, <1>2 DEF AnyTxn
<1>4. x.sub = sessions[s].sub /\ x.mode = mode /\ x.opener = s /\ x.kmsi = 0
  BY <1>1 DEF AnyTxn
<1> HIDE DEF x
<1>5. TxnOK(t, x)
  BY <1>4 DEF TxnOK
<1>6. QED
  BY <1>3, <1>5 DEF x

LEMMA AuthorizeOK ==
    ASSUME LoginInv, NEW r \in Requests, NEW t \in Txns, authorize(r, t) PROVE LoginInv'
<1>0. PICK a \in Apps :
        \/ \E s \in DOMAIN sessions :
            /\ sessions[s].sub \in active
            /\ <<a, sessions[s].sub>> \in access
            /\ codes' = codes \cup {[sub |-> sessions[s].sub, sid |-> s, id |-> None,
                                     amr |-> sessions[s].amr]}
            /\ UNCHANGED <<txn, ttl>>
        \/ \E s \in DOMAIN sessions, want \in SUBSET {"passkey", "totp"} :
            LET u == sessions[s].sub
                methods == LoginMethods(u) \cap want
            IN /\ u \in active
               /\ <<a, u>> \in access
               /\ methods # {}
               /\ createTxn(t, [NewTxn EXCEPT !.app = a, !.sub = u, !.methods = methods,
                                              !.mode = "code", !.opener = s])
               /\ UNCHANGED codes
        \/ createTxn(t, [NewTxn EXCEPT !.app = a]) /\ UNCHANGED codes
  BY DEF authorize
<1>00. UNCHANGED <<req, factorVars, active, access, sessions, stamps, proofs>>
  BY DEF authorize
<1>1. ASSUME NEW s \in DOMAIN sessions, UNCHANGED <<txn, ttl>>,
             codes' = codes \cup {[sub |-> sessions[s].sub, sid |-> s, id |-> None,
                                   amr |-> sessions[s].amr]}
      PROVE  LoginInv'
  <2>1. Grows
    BY <1>00, QuietGrows DEF LoginInv
  <2>2. CodeOK([sub |-> sessions[s].sub, sid |-> s, id |-> None, amr |-> sessions[s].amr])
    BY <1>1 DEF CodeOK
  <2>3. CodesOK'
    BY <1>1, <2>1, <2>2, OneCode DEF LoginInv
  <2>4. FactorInv' /\ TxnInv' /\ SessionsOK' /\ StampsOK'
    BY <1>00, <1>1, <2>1, SameFactors, SameTxns, SameSessions, SameStamps DEF LoginInv
  <2>5. req' \in [Requests -> AnyRequest] /\ RequestInv'
    BY <1>00, <2>1, SameRequests DEF LoginInv, FactorInv
  <2>6. LoginType'
    BY <1>00, <1>1, <2>5 DEF LoginInv, LoginType, factorVars
  <2>7. QED
    BY <2>3, <2>4, <2>5, <2>6 DEF LoginInv
<1>2. ASSUME NEW s \in DOMAIN sessions, NEW want \in SUBSET {"passkey", "totp"},
             sessions[s].sub # None, UNCHANGED codes,
             createTxn(t, [NewTxn EXCEPT !.app = a, !.sub = sessions[s].sub,
                                         !.methods = LoginMethods(sessions[s].sub) \cap want,
                                         !.mode = "code", !.opener = s])
      PROVE  LoginInv'
  <2>1. LoginMethods(sessions[s].sub) \cap want \in SUBSET Methods
    BY LoginMethodsAre
  <2>2. PICK x \in AnyTxn : TxnOK(t, x) /\ createTxn(t, x)
    BY <1>2, <2>1, NewStepUp
  <2>3. QED
    BY <1>00, <1>2, <2>2, CreateOK
<1>3. CASE createTxn(t, [NewTxn EXCEPT !.app = a]) /\ UNCHANGED codes
  BY <1>00, <1>3, NewLogin, CreateOK
<1>4. ASSUME NEW s \in DOMAIN sessions, sessions[s].sub \in active PROVE sessions[s].sub # None
  BY <1>4, FactorsAssumption DEF LoginInv, LoginType
<1>5. QED
  BY <1>0, <1>1, <1>2, <1>3, <1>4

LEMMA AdminDoorOK ==
    ASSUME LoginInv, NEW r \in Requests, NEW t \in Txns, adminDoor(r, t) PROVE LoginInv'
<1>0. UNCHANGED <<req, factorVars, active, access, sessions, stamps, codes, proofs>>
  BY DEF adminDoor
<1>1. ASSUME NEW s \in DOMAIN sessions, sessions[s].sub \in active,
             createTxn(t, [NewTxn EXCEPT !.sub = sessions[s].sub,
                             !.methods = {Strongest(LoginMethods(sessions[s].sub) \cap {"passkey", "totp"})},
                             !.mode = "stamp", !.opener = s])
      PROVE  LoginInv'
  <2>1. sessions[s].sub # None
    BY <1>1, FactorsAssumption DEF LoginInv, LoginType
  <2>2. {Strongest(LoginMethods(sessions[s].sub) \cap {"passkey", "totp"})} \in SUBSET Methods
    BY StrongestIs
  <2> DEFINE M == {Strongest(LoginMethods(sessions[s].sub) \cap {"passkey", "totp"})}
  <2>3. [NewTxn EXCEPT !.sub = sessions[s].sub, !.methods = M, !.mode = "stamp", !.opener = s]
          = [NewTxn EXCEPT !.app = None, !.sub = sessions[s].sub, !.methods = M, !.mode = "stamp", !.opener = s]
    <3> HIDE DEF M
    <3>1. NewTxn \in AnyTxn /\ NewTxn.app = None
      BY NewLogin DEF NewTxn, Gone
    <3>2. QED
      BY <3>1 DEF AnyTxn
  <2>4. PICK x \in AnyTxn : TxnOK(t, x) /\ createTxn(t, x)
    BY <1>1, <2>1, <2>2, <2>3, NewStepUp
  <2>5. QED
    BY <1>0, <2>4, CreateOK
<1>2. CASE createTxn(t, NewTxn)
  BY <1>0, <1>2, NewLogin, CreateOK
<1>3. QED
  BY <1>1, <1>2 DEF adminDoor

LEMMA LoginPageOK ==
    ASSUME LoginInv, NEW r \in Requests, NEW t \in Txns, login(r, t) PROVE LoginInv'
<1>1. Holds(Reading(t))
  BY ReadingOK DEF login, getTxn
<1>2. Became(r)
  BY <1>1, RenderOK, OptionsOK DEF login
<1>3. QED
  BY <1>2, QuietStep DEF login

LEMMA PostLoginOK ==
    ASSUME LoginInv, NEW r \in Requests, NEW t \in Txns, postLogin(r, t) PROVE LoginInv'
<1>1. /\ Holds(Reading(t)) /\ Reading(t).id = t /\ Reading(t).txn = txn[t] /\ Reading(t).method = "pwd"
      /\ txn[t] \in AnyTxn /\ TxnOK(t, txn[t])
  BY ReadingOK DEF postLogin, getTxn
<1>2. CASE txn[t].sub # None
  <2>1. Became(r)
    BY <1>1, <1>2, RenderOK DEF postLogin
  <2>2. QED
    BY <2>1, QuietStep DEF postLogin
<1>3. ASSUME txn[t].sub = None, NEW u \in Users,
             req' = [req EXCEPT ![r] = [Reading(t) EXCEPT !.pc = "password", !.user = u]]
      PROVE  LoginInv'
  <2> DEFINE n == [Reading(t) EXCEPT !.pc = "password", !.user = u]
  <2>1. /\ n \in AnyRequest /\ n.pc = "password" /\ n.user = u /\ n.method = "pwd" /\ n.id = t
        /\ n.txn = txn[t]
    BY <1>1 DEF Holds, AnyRequest, Labels
  <2> HIDE DEF n
  <2>2. RequestOK(n)
    BY <1>1, <1>3, <2>1 DEF RequestOK, Holds, Verifying, Mailing
  <2>3. Became(r)
    BY <1>3, <2>1, <2>2 DEF Became, n
  <2>4. QED
    BY <2>3, QuietStep DEF postLogin
<1>4. ASSUME txn[t].sub = None,
             req' = [req EXCEPT ![r] = [Reading(t) EXCEPT !.pc = "assertion", !.method = "passkey",
                                                          !.challenge = txn[t].passkey]]
      PROVE  LoginInv'
  <2> DEFINE n == [Reading(t) EXCEPT !.pc = "assertion", !.method = "passkey", !.challenge = txn[t].passkey]
  <2>1. txn[t].passkey \in BOOLEAN
    BY <1>1 DEF AnyTxn
  <2>2. n \in AnyRequest /\ n.pc = "assertion" /\ n.method = "passkey" /\ n.id = t /\ n.txn = txn[t]
    BY <1>1, <2>1 DEF Holds, AnyRequest, Labels, Methods
  <2> HIDE DEF n
  <2>3. RequestOK(n)
    BY <1>1, <1>4, <2>2 DEF RequestOK, Holds, Verifying, Mailing, Methods
  <2>4. Became(r)
    BY <1>4, <2>2, <2>3 DEF Became, n
  <2>5. QED
    BY <2>4, QuietStep DEF postLogin
<1>5. QED
  BY <1>2, <1>3, <1>4 DEF postLogin

LEMMA PostChallengeOK ==
    ASSUME LoginInv, NEW r \in Requests, NEW t \in Txns, postChallenge(r, t) PROVE LoginInv'
<1>1. /\ Holds(Reading(t)) /\ Reading(t).id = t /\ Reading(t).txn = txn[t]
      /\ txn[t] \in AnyTxn /\ TxnOK(t, txn[t])
  BY ReadingOK DEF postChallenge, getTxn
<1>2. PICK m \in txn[t].methods :
         req' = [req EXCEPT ![r] =
                   [Reading(t) EXCEPT !.pc = IF m = "passkey" THEN "assertion" ELSE m,
                                      !.method = m, !.user = txn[t].sub,
                                      !.challenge = m = "passkey" /\ txn[t].challenge,
                                      !.txn.challenge = @ /\ m # "passkey"]]
  BY DEF postChallenge
<1> DEFINE c == m = "passkey" /\ txn[t].challenge
           d == txn[t].challenge /\ m # "passkey"
           y == [txn[t] EXCEPT !.challenge = d]
           pc == IF m = "passkey" THEN "assertion" ELSE m
           n == [Reading(t) EXCEPT !.pc = pc, !.method = m, !.user = txn[t].sub, !.challenge = c, !.txn = y]
<1>3. /\ m \in Methods /\ txn[t].sub \in Users /\ c \in BOOLEAN /\ d \in BOOLEAN
      /\ pc \in {"assertion", "totp", "email"}
  BY <1>1 DEF postChallenge, AnyTxn, Methods
<1> HIDE DEF c, d, pc
<1>4. /\ y \in AnyTxn /\ y.sub = txn[t].sub /\ y.methods = txn[t].methods /\ y.mode = txn[t].mode
      /\ y.opener = txn[t].opener /\ y.kmsi = txn[t].kmsi
  BY <1>1, <1>3 DEF AnyTxn
<1> HIDE DEF y
<1>5. /\ n \in AnyRequest /\ n.pc \in {"assertion", "totp", "email"} /\ n.method = m /\ n.id = t
      /\ n.txn = y /\ n.user = txn[t].sub
  BY <1>1, <1>3, <1>4 DEF Holds, AnyRequest, Labels
<1>6. req' = [req EXCEPT ![r] = n]
  <2>1. [Reading(t) EXCEPT !.pc = IF m = "passkey" THEN "assertion" ELSE m,
                           !.method = m, !.user = txn[t].sub,
                           !.challenge = m = "passkey" /\ txn[t].challenge,
                           !.txn.challenge = @ /\ m # "passkey"] = n
    BY <1>1 DEF Holds, AnyRequest, c, d, y, pc
  <2>2. QED
    BY <1>2, <2>1
<1> HIDE DEF n
<1>7. TxnOK(t, y)
  BY <1>1, <1>4, TxnSame
<1>8. txn[t].sub # None
  BY <1>3, FactorsAssumption
<1>9. RequestOK(n)
  BY <1>1, <1>3, <1>4, <1>5, <1>7, <1>8 DEF RequestOK, Holds, Verifying, Mailing
<1>10. Became(r)
  BY <1>5, <1>6, <1>9 DEF Became
<1>11. QED
  BY <1>10, QuietStep DEF postChallenge

LEMMA SendEmailOK ==
    ASSUME LoginInv, NEW r \in Requests, NEW t \in Txns, sendEmail(r, t) PROVE LoginInv'
<1>1. /\ Holds(Reading(t)) /\ Reading(t).id = t /\ Reading(t).txn = txn[t]
      /\ txn[t] \in AnyTxn /\ TxnOK(t, txn[t])
  BY ReadingOK DEF sendEmail, getTxn
<1>2. txn[t].sub \in Users
  BY <1>1 DEF sendEmail, TxnOK, AnyTxn
<1> DEFINE n == [Reading(t) EXCEPT !.pc = "limits", !.method = "email", !.user = txn[t].sub]
<1>3. n \in AnyRequest /\ n.pc = "limits" /\ n.id = t /\ n.txn = txn[t] /\ n.user = txn[t].sub
  BY <1>1, <1>2 DEF Holds, AnyRequest, Labels, Methods
<1>4. req' = [req EXCEPT ![r] = n]
  BY DEF sendEmail
<1> HIDE DEF n
<1>5. RequestOK(n)
  BY <1>1, <1>2, <1>3 DEF RequestOK, Holds, Verifying, Mailing
<1>6. Became(r)
  BY <1>3, <1>4, <1>5 DEF Became
<1>7. QED
  BY <1>6, QuietStep DEF sendEmail

\* A step that proves a factor and moves its request on.
LEMMA ProvingStep ==
    ASSUME LoginInv, NEW r \in Requests, NEW n \in AnyRequest, RequestOK(n)',
           req' = [req EXCEPT ![r] = n], proofs \subseteq proofs',
           UNCHANGED <<factorVars, txn, active, sessions, stamps, codes>>
    PROVE  LoginInv'
<1>1. Grows
  BY QuietGrows DEF LoginInv
<1>2. FactorInv' /\ TxnInv' /\ SessionsOK' /\ CodesOK' /\ StampsOK'
  BY <1>1, SameFactors, SameTxns, SameSessions, SameCodes, SameStamps DEF LoginInv
<1>3. req' \in [Requests -> AnyRequest] /\ RequestInv'
  BY <1>1, OneRequest DEF LoginInv, FactorInv
<1>4. LoginType'
  BY <1>3 DEF LoginInv, LoginType, factorVars
<1>5. QED
  BY <1>2, <1>3, <1>4 DEF LoginInv

LEMMA CheckPasswordOK ==
    ASSUME LoginInv, NEW r \in Requests, checkPassword(r) PROVE LoginInv'
<1>0. PICK q : q = req[r]
  OBVIOUS
<1>1. /\ q \in AnyRequest /\ RequestOK(q) /\ Holds(q) /\ q.pc = "password"
      /\ UNCHANGED <<factorVars, txn, active, sessions, stamps, codes>>
  BY <1>0, HoldsOK DEF checkPassword
<1>2. q.txn \in AnyTxn /\ q.txn.sub = None /\ q.user \in Users /\ q.method = "pwd" /\ q.id \in Txns
  BY <1>1 DEF RequestOK, Holds, AnyRequest
<1>3. q.txn.mode = "login"
  BY <1>1, <1>2 DEF Holds, TxnOK, AnyTxn
<1>4. CASE loginPasskeyOptions(r, q) /\ UNCHANGED proofs
  BY <1>1, <1>4, OptionsOK, QuietStep
<1>5. CASE /\ q.user \in MfaUsers /\ LoginMethods(q.user) # {}
           /\ proofs' = proofs \cup {<<q.id, q.user, "pwd">>}
           /\ req' = [req EXCEPT ![r] =
                        [q EXCEPT !.pc = "save", !.then = "challenge",
                                  !.txn.sub = q.user, !.txn.methods = LoginMethods(q.user),
                                  !.txn.attempts = 0, !.txn.challenge = FALSE,
                                  !.txn.emailSent = FALSE]]
  <2>1. PICK M \in SUBSET Methods : M = LoginMethods(q.user)
    BY LoginMethodsAre
  <2> DEFINE y == [q.txn EXCEPT !.sub = q.user, !.methods = M, !.attempts = 0, !.challenge = FALSE,
                               !.emailSent = FALSE]
             n == [q EXCEPT !.pc = "save", !.then = "challenge", !.txn = y]
  <2>2. /\ y \in AnyTxn /\ y.sub = q.user /\ y.mode = "login" /\ y.kmsi = q.txn.kmsi
    BY <1>2, <1>3 DEF AnyTxn
  <2>3. [q EXCEPT !.pc = "save", !.then = "challenge",
                  !.txn.sub = q.user, !.txn.methods = LoginMethods(q.user),
                  !.txn.attempts = 0, !.txn.challenge = FALSE,
                  !.txn.emailSent = FALSE] = n
    BY <1>1, <1>2, <2>1 DEF AnyRequest, AnyTxn
  <2> HIDE DEF y
  <2>4. n \in AnyRequest /\ n.pc = "save" /\ n.id = q.id /\ n.txn = y
    BY <1>1, <2>2 DEF AnyRequest, Labels
  <2> HIDE DEF n
  <2>5. /\ proofs \subseteq proofs' /\ <<q.id, q.user, "pwd">> \in proofs' /\ UNCHANGED sessions
        /\ q.user # None
    BY <1>1, <1>2, <1>5, FactorsAssumption
  <2>6. TxnOK(q.id, y)'
    BY <1>1, <2>2, <2>5 DEF TxnOK, Holds
  <2>7. RequestOK(n)'
    BY <1>2, <2>2, <2>4, <2>6 DEF RequestOK, Verifying, Mailing
  <2>8. QED
    BY <1>1, <1>5, <2>3, <2>4, <2>5, <2>7, ProvingStep
<1>6. CASE /\ q.user \notin MfaUsers \/ LoginMethods(q.user) = {}
           /\ proofs' = proofs \cup {<<q.id, q.user, "pwd">>}
           /\ req' = [req EXCEPT ![r] = [q EXCEPT !.pc = "finish"]]
  <2> DEFINE n == [q EXCEPT !.pc = "finish"]
  <2>1. /\ n \in AnyRequest /\ n.pc = "finish" /\ n.id = q.id /\ n.txn = q.txn /\ n.user = q.user
        /\ n.method = "pwd"
    BY <1>1, <1>2 DEF AnyRequest, Labels
  <2> HIDE DEF n
  <2>2. proofs \subseteq proofs' /\ <<q.id, q.user, "pwd">> \in proofs'
    BY <1>6
  <2>3. Grows
    BY <1>1, <2>2, QuietGrows DEF LoginInv
  <2>4. TxnOK(q.id, q.txn)' /\ LoginMethods(q.user)' = LoginMethods(q.user)
    BY <1>1, <2>3, TxnKept, SameMethods DEF Holds
  <2>5. RequestOK(n)'
    BY <1>2, <1>3, <1>6, <2>1, <2>2, <2>4 DEF RequestOK, LoginSub, Verifying, Mailing
  <2>6. QED
    BY <1>1, <1>6, <2>1, <2>2, <2>5, ProvingStep DEF n
<1>7. QED
  BY <1>0, <1>4, <1>5, <1>6 DEF checkPassword

\* Where a proved factor leads.
LEMMA FactorProvedOK ==
    ASSUME LoginInv, NEW r \in Requests, factorProved(r) PROVE LoginInv'
<1>0. PICK q : q = req[r]
  OBVIOUS
<1>1. /\ q \in AnyRequest /\ RequestOK(q) /\ Holds(q) /\ q.pc = "proved"
      /\ UNCHANGED <<factorVars, txn, active, sessions, stamps, codes>>
      /\ proofs' = proofs \cup {<<q.id, q.user, q.method>>}
  BY <1>0, HoldsOK DEF factorProved
<1>2. /\ q.txn \in AnyTxn /\ q.method \in Methods /\ q.id \in Txns
      /\ q.txn.sub # None => q.user = q.txn.sub
  BY <1>1 DEF RequestOK, Holds, AnyRequest, Verifying
<1>3. /\ proofs \subseteq proofs' /\ <<q.id, q.user, q.method>> \in proofs'
      /\ Grows /\ TxnOK(q.id, q.txn)'
  <2>1. proofs \subseteq proofs' /\ <<q.id, q.user, q.method>> \in proofs'
    BY <1>1
  <2>2. Grows
    BY <1>1, <2>1, QuietGrows DEF LoginInv
  <2>3. QED
    BY <1>1, <2>1, <2>2, TxnKept DEF Holds
<1>4. CASE failBack(r, q)
  <2>1. PICK n \in AnyRequest : RequestOK(n) /\ req' = [req EXCEPT ![r] = n]
    BY <1>1, <1>4, FailBackOK DEF Became
  <2>2. RequestOK(n)'
    BY <1>3, <2>1, RequestKept DEF LoginInv, FactorInv
  <2>3. QED
    BY <1>1, <1>3, <2>1, <2>2, ProvingStep
<1>5. ASSUME NEW label \in Labels,
             \/ label = "finish" /\ q.txn.mode = "login"
             \/ label = "stamp" /\ q.txn.mode = "stamp"
             \/ label = "mint" /\ q.txn.mode = "code"
             \/ label = "consume",
             Goto(r, label)
      PROVE  LoginInv'
  <2> DEFINE n == [q EXCEPT !.pc = label]
  <2>1. /\ n \in AnyRequest /\ n.pc = label /\ n.id = q.id /\ n.txn = q.txn /\ n.user = q.user
        /\ n.method = q.method
    BY <1>1 DEF AnyRequest
  <2>2. req' = [req EXCEPT ![r] = n]
    BY <1>0, <1>5 DEF Goto
  <2> HIDE DEF n
  <2>3. q.txn.mode \in {"stamp", "code"} => q.txn.sub # None
    BY <1>1 DEF Holds, TxnOK
  <2>4. q.method # "pwd" /\ q.txn.mode # "gone"
    BY <1>1, <1>2 DEF Methods, Holds
  <2>5. RequestOK(n)'
    BY <1>2, <1>3, <1>5, <2>1, <2>3, <2>4 DEF RequestOK, LoginSub, Verifying, Mailing
  <2>6. QED
    BY <1>1, <1>3, <2>1, <2>2, <2>5, ProvingStep
<1>6. QED
  <2>1. q.txn.mode \in {"login", "stamp", "code"}
    BY <1>1, <1>2 DEF Holds, AnyTxn
  <2>2. CASE q.txn.sub = None /\ q.user \notin active
    BY <1>0, <1>4, <2>2 DEF factorProved
  <2>3. CASE ~(q.txn.sub = None /\ q.user \notin active)
    <3>1. Goto(r, CASE q.txn.mode = "login" -> "finish"
                    [] q.txn.mode = "stamp" -> "stamp"
                    [] q.txn.mode = "code" ->
                         IF <<q.txn.app, q.txn.sub>> \in access THEN "mint" ELSE "consume")
      BY <1>0, <2>3 DEF factorProved
    <3>2. CASE q.txn.mode = "login"
      BY <1>5, <3>1, <3>2 DEF Labels
    <3>3. CASE q.txn.mode = "stamp"
      BY <1>5, <3>1, <3>3 DEF Labels
    <3>4. CASE q.txn.mode = "code"
      <4>1. CASE <<q.txn.app, q.txn.sub>> \in access
        BY <1>5, <3>1, <3>4, <4>1 DEF Labels
      <4>2. CASE <<q.txn.app, q.txn.sub>> \notin access
        BY <1>5, <3>1, <3>4, <4>2 DEF Labels
      <4>3. QED
        BY <4>1, <4>2
    <3>5. QED
      BY <2>1, <3>2, <3>3, <3>4
  <2>4. QED
    BY <2>2, <2>3

LEMMA FactorRefutedOK ==
    ASSUME LoginInv, NEW r \in Requests, factorRefuted(r) PROVE LoginInv'
<1>0. PICK q : q = req[r]
  OBVIOUS
<1>1. /\ q \in AnyRequest /\ RequestOK(q) /\ Holds(q) /\ q.pc = "refuted"
      /\ UNCHANGED <<factorVars, txn, active, sessions, stamps, codes, proofs>>
  BY <1>0, HoldsOK DEF factorRefuted
<1>2. q.txn \in AnyTxn
  BY <1>1 DEF AnyRequest
<1> DEFINE k == q.txn.attempts + 1
           c == [q EXCEPT !.pc = "consume"]
           n == [q EXCEPT !.pc = "save", !.then = "challenge", !.txn.attempts = k]
<1>3. \/ failBack(r, q) \/ Done(r)
      \/ req' = [req EXCEPT ![r] = c]
      \/ req' = [req EXCEPT ![r] = n]
  BY <1>0 DEF factorRefuted
<1>4. c \in AnyRequest /\ c.pc = "consume" /\ c.id = q.id /\ c.txn = q.txn
  BY <1>1 DEF AnyRequest, Labels
<1>5. k \in Nat
  BY <1>2 DEF AnyTxn
<1> HIDE DEF k
<1>6. n \in AnyRequest /\ n.pc = "save" /\ n.id = q.id /\ n.txn = [q.txn EXCEPT !.attempts = k]
  BY <1>1, <1>5 DEF AnyRequest, AnyTxn, Labels
<1>7. /\ n.txn.sub = q.txn.sub /\ n.txn.methods = q.txn.methods /\ n.txn.mode = q.txn.mode
      /\ n.txn.opener = q.txn.opener /\ n.txn.kmsi = q.txn.kmsi
  BY <1>2, <1>6 DEF AnyTxn
<1> HIDE DEF n, c
<1>8. RequestOK(n)
  <2>1. TxnOK(q.id, n.txn)
    BY <1>1, <1>7, TxnSame DEF Holds
  <2>2. QED
    BY <1>1, <1>6, <1>7, <2>1, SaveOK DEF Holds
<1>9. RequestOK(c)
  BY <1>1, <1>4, SaveOK DEF Holds
<1>10. Became(r)
  BY <1>1, <1>3, <1>4, <1>6, <1>8, <1>9, FailBackOK, DoneOK DEF Became
<1>11. QED
  BY <1>1, <1>10, QuietStep

LEMMA FinishLoginOK ==
    ASSUME LoginInv, NEW r \in Requests, finishLogin(r) PROVE LoginInv'
<1>0. PICK q : q = req[r]
  OBVIOUS
<1>00. PICK sid : sid = Len(sessions) + 1
  OBVIOUS
<1> DEFINE amr == {q.method} \cup (IF q.txn.sub = None THEN {} ELSE {"pwd"})
           s == [sub |-> LoginSub(q), id |-> q.id, persistent |-> FALSE, amr |-> amr]
           y == [q.txn EXCEPT !.kmsi = sid]
           n == [q EXCEPT !.pc = "save", !.then = "idle", !.txn = y]
<1>1. /\ q \in AnyRequest /\ RequestOK(q) /\ Holds(q) /\ q.pc = "finish"
      /\ sessions' = Append(sessions, s)
      /\ UNCHANGED <<factorVars, txn, active, stamps, codes, proofs>>
  BY <1>0, HoldsOK DEF finishLogin
<1>2. /\ q.txn \in AnyTxn /\ q.txn.mode = "login" /\ q.id \in Txns /\ q.method \in Methods \cup {"pwd"}
      /\ <<q.id, LoginSub(q), q.method>> \in proofs
      /\ q.method = "pwd" => q.txn.sub = None /\ (q.user \notin MfaUsers \/ LoginMethods(q.user) = {})
      /\ LoginSub(q) \in Users \cup {None}
  BY <1>1 DEF RequestOK, AnyRequest, AnyTxn, LoginSub, Holds
<1>3. sessions \in Seq(AnySession) /\ sid \in Nat \ {0}
  BY <1>00 DEF LoginInv, LoginType
<1>4. SessionOK(s)
  <2>1. ASSUME NEW m \in amr PROVE <<q.id, LoginSub(q), m>> \in proofs
    <3>1. CASE m = q.method
      BY <1>2, <3>1
    <3>2. CASE m = "pwd" /\ q.txn.sub # None
      BY <1>1, <1>2, <3>2 DEF Holds, TxnOK, LoginSub
    <3>3. QED
      BY <2>1, <3>1, <3>2
  <2>2. amr = {"pwd"} => q.method = "pwd"
    OBVIOUS
  <2>3. s.sub = LoginSub(q) /\ s.id = q.id /\ s.amr = amr
    OBVIOUS
  <2>4. q.method = "pwd" => LoginSub(q) = q.user
    BY <1>2 DEF LoginSub
  <2> HIDE DEF s, amr
  <2>5. QED
    BY <1>2, <2>1, <2>2, <2>3, <2>4 DEF SessionOK
<1>5. s \in AnySession
  <2>1. amr \in SUBSET (Methods \cup {"pwd"})
    BY <1>2
  <2> HIDE DEF amr
  <2>2. QED
    BY <1>2, <2>1 DEF AnySession
<1>6. [q EXCEPT !.pc = "save", !.then = "idle", !.txn.kmsi = sid] = n
  BY <1>1 DEF AnyRequest
<1>7. /\ y \in AnyTxn /\ y.kmsi = sid /\ y.sub = q.txn.sub /\ y.methods = q.txn.methods
      /\ y.mode = "login" /\ y.opener = q.txn.opener
  BY <1>2, <1>3 DEF AnyTxn
<1> HIDE DEF s
<1>8. /\ sessions' \in Seq(AnySession) /\ DOMAIN sessions' = DOMAIN sessions \cup {sid}
      /\ \A i \in DOMAIN sessions : sessions'[i] = sessions[i]
      /\ sessions'[sid] = s
  BY <1>00, <1>1, <1>3, <1>5
<1>9. req' = [req EXCEPT ![r] = n]
  <2>1. req' = [req EXCEPT ![r] = [q EXCEPT !.pc = "save", !.then = "idle", !.txn.kmsi = sid]]
    BY <1>0, <1>00 DEF finishLogin
  <2>2. QED
    BY <1>6, <2>1
<1> HIDE DEF y
<1>10. n \in AnyRequest /\ n.pc = "save" /\ n.id = q.id /\ n.txn = y
  BY <1>1, <1>7 DEF AnyRequest, Labels
<1> HIDE DEF n
<1>11. Grows
  BY <1>1, <1>8 DEF Grows, factorVars, LoginInv, FactorInv, FactorType
<1>12. TxnOK(q.id, y)'
  <2>1. TxnOK(q.id, q.txn)'
    BY <1>1, <1>11, TxnKept DEF Holds
  <2>2. QED
    BY <1>2, <1>7, <1>8, <2>1 DEF TxnOK
<1>13. RequestOK(n)'
  BY <1>2, <1>7, <1>10, <1>12 DEF RequestOK, Verifying, Mailing
<1>14. req' \in [Requests -> AnyRequest] /\ RequestInv'
  BY <1>9, <1>10, <1>11, <1>13, OneRequest DEF LoginInv, FactorInv
<1>15. FactorInv' /\ TxnInv' /\ CodesOK' /\ StampsOK'
  BY <1>1, <1>11, SameFactors, SameTxns, SameCodes, SameStamps DEF LoginInv
<1>16. SessionsOK'
  <2>1. ASSUME NEW i \in DOMAIN sessions' PROVE SessionOK(sessions[i])'
    <3>1. PICK x : x = sessions'[i]
      OBVIOUS
    <3>2. SessionOK(x)
      <4>1. CASE i \in DOMAIN sessions
        BY <1>8, <3>1, <4>1 DEF LoginInv, SessionsOK
      <4>2. CASE i = sid
        BY <1>4, <1>8, <3>1, <4>2
      <4>3. QED
        BY <1>8, <2>1, <4>1, <4>2
    <3>3. SessionOK(x)'
      BY <1>11, <3>2, SessionKept
    <3>4. QED
      BY <3>1, <3>3
  <2>2. QED
    BY <2>1 DEF SessionsOK
<1>17. LoginType'
  BY <1>1, <1>8, <1>14 DEF LoginInv, LoginType, factorVars
<1>18. QED
  BY <1>14, <1>15, <1>16, <1>17 DEF LoginInv

LEMMA StayOK ==
    ASSUME LoginInv, NEW r \in Requests, NEW t \in Txns, stay(r, t) PROVE LoginInv'
<1>1. /\ Holds(Reading(t)) /\ Reading(t).id = t /\ Reading(t).txn = txn[t]
      /\ txn[t] \in AnyTxn /\ TxnOK(t, txn[t]) /\ txn[t].kmsi # 0
  BY ReadingOK DEF stay, getTxn
<1> DEFINE k == txn[t].kmsi
           n == [Reading(t) EXCEPT !.pc = "stay"]
<1>2. k \in DOMAIN sessions
  BY <1>1 DEF TxnOK
<1>3. PICK yes \in BOOLEAN : sessions' = [sessions EXCEPT ![k].persistent = @ \/ yes]
  BY DEF stay
<1>4. sessions \in Seq(AnySession)
  BY DEF LoginInv, LoginType
<1>5. PICK p \in BOOLEAN : sessions' = [sessions EXCEPT ![k].persistent = p]
  BY <1>3
<1> HIDE DEF k
<1>6. PICK o \in AnySession : o = sessions[k]
  BY <1>2, <1>4
<1> DEFINE w == [o EXCEPT !.persistent = p]
<1>7. w \in AnySession /\ w.sub = o.sub /\ w.amr = o.amr /\ w.id = o.id
  BY <1>6 DEF AnySession
<1>8. sessions' = [sessions EXCEPT ![k] = w]
  BY <1>2, <1>4, <1>5, <1>6
<1> HIDE DEF w
<1>9. /\ sessions' \in Seq(AnySession) /\ DOMAIN sessions' = DOMAIN sessions
      /\ \A i \in DOMAIN sessions : sessions'[i] = IF i = k THEN w ELSE sessions[i]
  BY <1>2, <1>4, <1>7, <1>8
<1>10. Grows
  BY <1>6, <1>7, <1>9 DEF stay, Grows, factorVars, LoginInv, FactorInv, FactorType
<1>11. n \in AnyRequest /\ n.pc = "stay" /\ n.id = t /\ n.txn = txn[t]
  BY <1>1 DEF Holds, AnyRequest, Labels
<1>12. req' = [req EXCEPT ![r] = n]
  BY DEF stay
<1> HIDE DEF n
<1>13. RequestOK(n)
  BY <1>1, <1>11 DEF RequestOK, Holds, Verifying, Mailing
<1>14. req' \in [Requests -> AnyRequest] /\ RequestInv'
  BY <1>10, <1>11, <1>12, <1>13, BecameOK DEF Became, LoginInv, FactorInv
<1>15. FactorInv' /\ TxnInv' /\ CodesOK' /\ StampsOK'
  BY <1>10, SameFactors, SameTxns, SameCodes, SameStamps DEF LoginInv, stay
<1>16. SessionsOK'
  <2>1. ASSUME NEW i \in DOMAIN sessions' PROVE SessionOK(sessions[i])'
    <3>1. PICK x : x = sessions'[i]
      OBVIOUS
    <3>2. SessionOK(sessions[i]) /\ x.sub = sessions[i].sub /\ x.amr = sessions[i].amr /\ x.id = sessions[i].id
      BY <1>9, <1>10, <2>1, <3>1 DEF LoginInv, SessionsOK, Grows
    <3>3. SessionOK(x)
      BY <3>2 DEF SessionOK
    <3>4. SessionOK(x)'
      BY <1>10, <3>3, SessionKept
    <3>5. QED
      BY <3>1, <3>4
  <2>2. QED
    BY <2>1 DEF SessionsOK
<1>17. LoginType'
  BY <1>9, <1>14 DEF LoginInv, LoginType, factorVars, stay
<1>18. QED
  BY <1>14, <1>15, <1>16, <1>17 DEF LoginInv

LEMMA CheckAccessOK ==
    ASSUME LoginInv, NEW r \in Requests, checkAccess(r) PROVE LoginInv'
<1>0. PICK q : q = req[r]
  OBVIOUS
<1>1. /\ q \in AnyRequest /\ RequestOK(q) /\ Holds(q) /\ q.pc = "stay" /\ q.txn.kmsi # 0
      /\ UNCHANGED <<factorVars, loginVars>>
  BY <1>0, HoldsOK DEF checkAccess, RequestOK
<1>2. PICK label \in {"mint", "consume"} : Goto(r, label)
  BY DEF checkAccess
<1> DEFINE n == [q EXCEPT !.pc = label]
<1>3. n \in AnyRequest /\ n.pc = label /\ n.id = q.id /\ n.txn = q.txn
  BY <1>1 DEF AnyRequest, Labels
<1>4. req' = [req EXCEPT ![r] = n]
  BY <1>0, <1>2 DEF Goto
<1> HIDE DEF n
<1>5. RequestOK(n)
  BY <1>1, <1>3 DEF RequestOK, Holds, Verifying, Mailing
<1>6. Became(r)
  BY <1>3, <1>4, <1>5 DEF Became
<1>7. QED
  BY <1>1, <1>6, QuietStep DEF loginVars

\* Going on to delete the transaction.
LEMMA ConsumeNext ==
    ASSUME LoginInv, NEW r \in Requests, req[r].pc # "idle", Goto(r, "consume") PROVE Became(r)
<1>0. PICK q : q = req[r]
  OBVIOUS
<1>1. q \in AnyRequest /\ Holds(q)
  BY <1>0, HoldsOK
<1> DEFINE n == [q EXCEPT !.pc = "consume"]
<1>2. n \in AnyRequest /\ n.pc = "consume" /\ n.id = q.id /\ n.txn = q.txn
  BY <1>1 DEF AnyRequest, Labels
<1>3. req' = [req EXCEPT ![r] = n]
  BY <1>0 DEF Goto
<1> HIDE DEF n
<1>4. RequestOK(n)
  BY <1>1, <1>2, SaveOK DEF Holds
<1>5. QED
  BY <1>2, <1>3, <1>4 DEF Became

LEMMA MintOK ==
    ASSUME LoginInv, NEW r \in Requests, mint(r) PROVE LoginInv'
<1>0. PICK q : q = req[r]
  OBVIOUS
<1>1. /\ q \in AnyRequest /\ RequestOK(q) /\ Holds(q) /\ q.pc = "mint"
      /\ UNCHANGED <<factorVars, txn, active, sessions, stamps, proofs>>
  BY <1>0, HoldsOK DEF mint
<1>2. PICK c : CodeOK(c) /\ codes' = codes \cup {c}
  <2>1. CASE q.txn.kmsi # 0
    <3> DEFINE k == q.txn.kmsi
               c == [sub |-> sessions[k].sub, sid |-> k, id |-> None, amr |-> sessions[k].amr]
    <3>1. codes' = codes \cup {c}
      BY <1>0, <2>1 DEF mint
    <3>2. k \in DOMAIN sessions
      BY <1>1, <2>1 DEF Holds, TxnOK
    <3>3. CodeOK(c)
      BY <3>2 DEF CodeOK
    <3>4. QED
      BY <3>1, <3>3
  <2>2. CASE q.txn.kmsi = 0
    <3> DEFINE c == [sub |-> q.txn.sub, sid |-> q.txn.opener, id |-> q.id, amr |-> {q.method}]
    <3>1. codes' = codes \cup {c}
      BY <1>0, <2>2 DEF mint
    <3>2. /\ q.txn.mode = "code" /\ <<q.id, q.txn.sub, q.method>> \in proofs /\ q.id \in Txns
          /\ q.txn.opener \in DOMAIN sessions /\ sessions[q.txn.opener].sub = q.txn.sub
      BY <1>1, <2>2 DEF Holds, TxnOK, RequestOK
    <3>3. q.id # None
      BY <3>2, LoginAssumption
    <3>4. CodeOK(c)
      BY <3>2, <3>3 DEF CodeOK
    <3>5. QED
      BY <3>1, <3>4
  <2>3. QED
    BY <2>1, <2>2
<1>3. Grows
  BY <1>1, QuietGrows DEF LoginInv
<1>4. req' \in [Requests -> AnyRequest] /\ RequestInv'
  <2>1. Became(r)
    BY <1>0, <1>1, ConsumeNext DEF mint
  <2>2. QED
    BY <1>3, <2>1, BecameOK DEF LoginInv, FactorInv
<1>5. FactorInv' /\ TxnInv' /\ SessionsOK' /\ StampsOK' /\ CodesOK'
  BY <1>1, <1>2, <1>3, SameFactors, SameTxns, SameSessions, SameStamps, OneCode DEF LoginInv
<1>6. LoginType'
  BY <1>1, <1>4 DEF LoginInv, LoginType, factorVars
<1>7. QED
  BY <1>4, <1>5, <1>6 DEF LoginInv

LEMMA StampStepupOK ==
    ASSUME LoginInv, NEW r \in Requests, stampStepup(r) PROVE LoginInv'
<1>0. PICK q : q = req[r]
  OBVIOUS
<1>1. /\ q \in AnyRequest /\ RequestOK(q) /\ Holds(q) /\ q.pc = "stamp"
      /\ UNCHANGED <<factorVars, txn, active, sessions, codes, proofs>>
      /\ stamps' = stamps \cup {<<q.txn.opener, q.method, q.id>>}
  BY <1>0, HoldsOK DEF stampStepup
<1>2. /\ q.txn.mode = "stamp" /\ <<q.id, q.txn.sub, q.method>> \in proofs
      /\ q.txn.opener \in DOMAIN sessions /\ sessions[q.txn.opener].sub = q.txn.sub
  BY <1>1 DEF Holds, TxnOK, RequestOK
<1>3. Grows
  BY <1>1, QuietGrows DEF LoginInv
<1>4. req' \in [Requests -> AnyRequest] /\ RequestInv'
  <2>1. Became(r)
    BY <1>0, <1>1, ConsumeNext DEF stampStepup
  <2>2. QED
    BY <1>3, <2>1, BecameOK DEF LoginInv, FactorInv
<1>5. StampsOK'
  <2>1. StampOK(<<q.txn.opener, q.method, q.id>>)
    BY <1>2 DEF StampOK
  <2>2. ASSUME NEW x \in stamps \cup {<<q.txn.opener, q.method, q.id>>} PROVE StampOK(x)'
    BY <1>3, <2>1, StampKept DEF LoginInv, StampsOK
  <2>3. QED
    BY <1>1, <2>2 DEF StampsOK
<1>6. FactorInv' /\ TxnInv' /\ SessionsOK' /\ CodesOK'
  BY <1>1, <1>3, SameFactors, SameTxns, SameSessions, SameCodes DEF LoginInv
<1>7. LoginType'
  BY <1>1, <1>4 DEF LoginInv, LoginType, factorVars
<1>8. QED
  BY <1>4, <1>5, <1>6, <1>7 DEF LoginInv

LEMMA EmailSentOK ==
    ASSUME LoginInv, NEW r \in Requests, emailSent(r) PROVE LoginInv'
<1>0. PICK q : q = req[r]
  OBVIOUS
<1>1. UNCHANGED <<factorVars, loginVars>>
  BY DEF emailSent
<1>2. CASE Done(r)
  BY <1>1, <1>2, DoneOK, QuietStep DEF loginVars
<1>3. CASE /\ req[r].pc = "issued"
           /\ req' = [req EXCEPT ![r].pc = "save", ![r].then = "challenge", ![r].txn.emailSent = TRUE]
  <2>1. q \in AnyRequest /\ Holds(q) /\ q.txn \in AnyTxn
    BY <1>0, <1>3, HoldsOK DEF AnyRequest
  <2> DEFINE y == [q.txn EXCEPT !.emailSent = TRUE]
             n == [q EXCEPT !.pc = "save", !.then = "challenge", !.txn = y]
  <2>2. req' = [req EXCEPT ![r] = n]
    <3>1. req \in [Requests -> AnyRequest]
      BY DEF LoginInv, LoginType
    <3>2. QED
      BY <1>0, <1>3, <2>1, <3>1 DEF AnyRequest
  <2>3. /\ y \in AnyTxn /\ y.sub = q.txn.sub /\ y.methods = q.txn.methods /\ y.mode = q.txn.mode
        /\ y.opener = q.txn.opener /\ y.kmsi = q.txn.kmsi
    BY <2>1 DEF AnyTxn
  <2> HIDE DEF y
  <2>4. n \in AnyRequest /\ n.pc = "save" /\ n.id = q.id /\ n.txn = y
    BY <2>1, <2>3 DEF AnyRequest, Labels
  <2> HIDE DEF n
  <2>5. TxnOK(q.id, y)
    BY <2>1, <2>3, TxnSame DEF Holds
  <2>6. RequestOK(n)
    BY <2>1, <2>3, <2>4, <2>5, SaveOK DEF Holds
  <2>7. Became(r)
    BY <2>2, <2>4, <2>6 DEF Became
  <2>8. QED
    BY <1>1, <2>7, QuietStep DEF loginVars
<1>4. QED
  BY <1>2, <1>3 DEF emailSent

\* A write of the transaction.
LEMMA WriteOK ==
    ASSUME LoginInv, NEW r \in Requests, Became(r), NEW t \in Txns, NEW x \in AnyTxn, TxnOK(t, x),
           txn' = [txn EXCEPT ![t] = x],
           UNCHANGED <<factorVars, active, sessions, stamps, codes, proofs>>
    PROVE  LoginInv'
<1>1. Grows
  BY QuietGrows DEF LoginInv
<1>2. txn' \in [Txns -> AnyTxn] /\ TxnInv'
  <2>1. TxnOK(t, x)'
    BY <1>1, TxnKept
  <2>2. QED
    BY <1>1, <2>1, OneTxn DEF LoginInv
<1>3. FactorInv' /\ SessionsOK' /\ CodesOK' /\ StampsOK'
  BY <1>1, SameFactors, SameSessions, SameCodes, SameStamps DEF LoginInv
<1>4. req' \in [Requests -> AnyRequest] /\ RequestInv'
  BY <1>1, BecameOK DEF LoginInv, FactorInv
<1>5. LoginType'
  BY <1>2, <1>4 DEF LoginInv, LoginType, factorVars
<1>6. QED
  BY <1>2, <1>3, <1>4, <1>5 DEF LoginInv

LEMMA GoneOK == ASSUME NEW t PROVE TxnOK(t, Gone)
BY DEF TxnOK, Gone

LEMMA UpdateTxnOK ==
    ASSUME LoginInv, NEW r \in Requests, updateTxn(r) PROVE LoginInv'
<1>0. PICK q : q = req[r]
  OBVIOUS
<1>1. /\ q \in AnyRequest /\ RequestOK(q) /\ Holds(q) /\ q.pc = "save"
      /\ txn' = [txn EXCEPT ![q.id] = q.txn]
      /\ UNCHANGED <<factorVars, active, sessions, stamps, codes, proofs>>
      /\ CASE q.then = "idle" -> Done(r)
           [] q.then = "options" -> loginPasskeyOptions(r, q)
           [] q.then = "challenge" ->
                renderChallenge(r, q, IF q.method = "pwd" THEN Strongest(q.txn.methods)
                                      ELSE q.method)
  BY <1>0, HoldsOK DEF updateTxn
<1>2. q.then \in {"idle", "options", "challenge"}
  BY <1>1 DEF AnyRequest
<1>3. Became(r)
  <2>1. CASE q.then = "idle"
    BY <1>1, <2>1, DoneOK
  <2>2. CASE q.then = "options"
    BY <1>1, <2>2, OptionsOK
  <2>3. CASE q.then = "challenge"
    BY <1>1, <2>3, RenderOK
  <2>4. QED
    BY <1>2, <2>1, <2>2, <2>3
<1>4. q.id \in Txns /\ q.txn \in AnyTxn /\ TxnOK(q.id, q.txn)
  BY <1>1 DEF Holds, AnyRequest
<1>5. QED
  BY <1>1, <1>3, <1>4, WriteOK

LEMMA ConsumeTxnOK ==
    ASSUME LoginInv, NEW r \in Requests, consumeTxn(r) PROVE LoginInv'
<1>1. Became(r)
  BY DoneOK DEF consumeTxn
<1>2. req[r].id \in Txns
  BY HoldsOK DEF consumeTxn, Holds
<1>3. PICK t \in Txns : t = req[r].id
  BY <1>2
<1>4. txn' = [txn EXCEPT ![t] = Gone]
  BY <1>3 DEF consumeTxn
<1>5. QED
  BY <1>1, <1>4, IdleOK, GoneOK, WriteOK DEF consumeTxn

LEMMA TxnExpiresOK ==
    ASSUME LoginInv, NEW t \in Txns, TxnExpires(t) PROVE LoginInv'
<1>1. Grows
  BY QuietGrows DEF LoginInv, TxnExpires
<1>2. txn' \in [Txns -> AnyTxn] /\ TxnInv'
  <2>1. TxnOK(t, Gone)'
    BY <1>1, TxnKept, GoneOK
  <2>2. QED
    BY <1>1, <2>1, IdleOK, OneTxn DEF LoginInv, TxnExpires
<1>3. FactorInv' /\ SessionsOK' /\ CodesOK' /\ StampsOK'
  BY <1>1, SameFactors, SameSessions, SameCodes, SameStamps DEF LoginInv, TxnExpires
<1>4. req' \in [Requests -> AnyRequest] /\ RequestInv'
  BY <1>1, SameRequests DEF LoginInv, FactorInv, TxnExpires
<1>5. LoginType'
  BY <1>2, <1>4 DEF LoginInv, LoginType, factorVars, TxnExpires
<1>6. QED
  BY <1>2, <1>3, <1>4, <1>5 DEF LoginInv

\* A step that leaves requests, transactions and histories alone.
LEMMA RestOK ==
    ASSUME LoginInv, FactorInv', Grows, active' \subseteq Users,
           UNCHANGED <<req, txn, sessions, stamps, codes>>
    PROVE  LoginInv'
<1>1. TxnInv' /\ SessionsOK' /\ CodesOK' /\ StampsOK'
  BY SameTxns, SameSessions, SameCodes, SameStamps DEF LoginInv
<1>2. req' \in [Requests -> AnyRequest] /\ RequestInv'
  BY SameRequests DEF LoginInv, FactorInv
<1>3. LoginType'
  BY <1>2 DEF LoginInv, LoginType, Grows
<1>4. QED
  BY <1>1, <1>2, <1>3 DEF LoginInv

LEMMA SuspendOK == ASSUME LoginInv, NEW u \in Users, Suspend(u) PROVE LoginInv'
<1>1. Grows
  BY QuietGrows DEF LoginInv, Suspend
<1>2. FactorInv' /\ active' \subseteq Users
  BY SameFactors DEF LoginInv, Suspend, LoginType
<1>3. QED
  BY <1>1, <1>2, RestOK DEF Suspend

-----------------------------------------------------------------------------
(* The steps of the second factors.                                        *)

\* A step of a request inside a verification or the issue of a code.
LEMMA FactorMove ==
    ASSUME LoginInv, FactorInv', NEW r \in Requests, NEW n \in AnyRequest, RequestOK(n),
           req' = [req EXCEPT ![r] = n], \A u \in Users : generated[u] <= generated'[u],
           UNCHANGED <<totpOf, passkeyOf>>, UNCHANGED loginVars
    PROVE  LoginInv'
<1>1. Grows
  BY DEF Grows, loginVars, FactorInv, FactorType
<1>2. TxnInv' /\ SessionsOK' /\ CodesOK' /\ StampsOK'
  BY <1>1, SameTxns, SameSessions, SameCodes, SameStamps DEF LoginInv, loginVars
<1>3. req' \in [Requests -> AnyRequest] /\ RequestInv'
  BY <1>1, BecameOK DEF LoginInv, FactorInv, Became
<1>4. LoginType'
  BY <1>3 DEF LoginInv, LoginType, loginVars
<1>5. QED
  BY <1>2, <1>3, <1>4 DEF LoginInv

\* The end of a verification keeps whom and what it is about.
LEMMA VerdictOK ==
    ASSUME NEW q, RequestOK(q), Holds(q), q.pc \in Verifying, NEW n \in AnyRequest,
           n.pc \in {"proved", "refuted"}, n.id = q.id, n.txn = q.txn, n.method = q.method,
           n.user = q.user \/ q.user = None
    PROVE  RequestOK(n)
<1>1. q.txn.sub # None => n.user = q.txn.sub
  BY DEF RequestOK
<1>2. q.txn.sub = None => q.method = "passkey"
  BY DEF RequestOK
<1>3. q.method \in Methods
  BY DEF RequestOK
<1>4. QED
  BY <1>1, <1>2, <1>3 DEF RequestOK, Holds, Verifying, Mailing

\* A request on its way through the issue of a code.
LEMMA IssuingOK ==
    ASSUME NEW q, RequestOK(q), Holds(q), NEW n \in AnyRequest, q.user \in Users,
           n.pc \in {"limited", "existing", "issue", "count", "issued"},
           n.id = q.id, n.txn = q.txn, n.user = q.user
    PROVE  RequestOK(n)
BY DEF RequestOK, Holds, Verifying, Mailing

LEMMA TotpOK ==
    ASSUME LoginInv, NEW r \in Requests, verifyLoginTotp(r), UNCHANGED loginVars PROVE LoginInv'
<1>0. PICK q : q = req[r]
  OBVIOUS
<1>1. /\ q \in AnyRequest /\ RequestOK(q) /\ Holds(q) /\ q.pc = "totp"
      /\ UNCHANGED <<totpOf, passkeyOf, clock, otp, generated, limit, spent>>
  BY <1>0, HoldsOK DEF verifyLoginTotp
<1>2. FactorType /\ StepInv /\ CodeInv
  BY DEF LoginInv, FactorInv
<1>3. ASSUME NEW label \in {"proved", "refuted"}, Goto(r, label), FactorInv' PROVE LoginInv'
  <2> DEFINE n == [q EXCEPT !.pc = label]
  <2>1. /\ n \in AnyRequest /\ n.pc = label /\ n.id = q.id /\ n.txn = q.txn /\ n.user = q.user
        /\ n.method = q.method
    BY <1>1 DEF AnyRequest, Labels
  <2>2. req' = [req EXCEPT ![r] = n]
    BY <1>0, <1>3 DEF Goto
  <2> HIDE DEF n
  <2>3. RequestOK(n)
    BY <1>1, <2>1, VerdictOK DEF Verifying
  <2>4. \A u \in Users : generated[u] <= generated'[u]
    BY <1>1, <1>2 DEF FactorType
  <2>5. QED
    BY <1>1, <1>3, <2>1, <2>2, <2>3, <2>4, FactorMove
<1>4. ASSUME NEW a \in Authenticators, NEW s \in (clock - 1)..(clock + 1), MayClaim(a, s),
             stepOf' = [stepOf EXCEPT ![a] = s], accepted' = [accepted EXCEPT ![a][s] = @ + 1]
      PROVE  FactorInv'
  <2>1. s \in Steps
    BY <1>2, FactorsAssumption DEF FactorType, Steps
  <2>2. PICK b \in [Steps -> Nat] : b = accepted[a]
    BY <1>2 DEF FactorType
  <2>3. accepted' = [accepted EXCEPT ![a] = [b EXCEPT ![s] = b[s] + 1]]
    BY <1>2, <1>4, <2>2 DEF FactorType
  <2>4. [b EXCEPT ![s] = b[s] + 1] \in [Steps -> Nat]
    BY <2>1, <2>2
  <2>5. stepOf' \in [Authenticators -> Steps] /\ accepted' \in [Authenticators -> [Steps -> Nat]]
    BY <1>2, <1>4, <2>1, <2>3, <2>4 DEF FactorType
  <2>6. Steps \subseteq Nat /\ stepOf[a] \in Steps /\ s > stepOf[a]
    BY <1>2, <1>4 DEF Steps, FactorType, MayClaim
  <2>7. b[s] = 0
    BY <1>2, <2>1, <2>2, <2>6 DEF StepInv
  <2>8. StepInv'
    <3>1. ASSUME NEW c \in Authenticators, NEW w \in Steps
          PROVE  accepted'[c][w] <= 1 /\ (w > stepOf'[c] => accepted'[c][w] = 0)
      <4>1. CASE c # a
        BY <1>2, <1>4, <2>3, <4>1 DEF StepInv, FactorType
      <4>2. CASE c = a
        <5>1. stepOf'[c] = s /\ accepted'[c] = [b EXCEPT ![s] = b[s] + 1]
          BY <1>2, <1>4, <2>3, <4>2 DEF FactorType
        <5>2. b[w] <= 1 /\ (w > stepOf[a] => b[w] = 0)
          BY <1>2, <2>2 DEF StepInv
        <5>3. QED
          BY <2>1, <2>2, <2>6, <2>7, <5>1, <5>2
      <4>3. QED
        BY <4>1, <4>2
    <3>2. QED
      BY <3>1 DEF StepInv
  <2>9. FactorType' /\ CodeInv'
    BY <1>1, <1>2, <2>5 DEF FactorType, CodeInv
  <2>10. QED
    BY <2>8, <2>9 DEF FactorInv
<1>5. ASSUME UNCHANGED <<stepOf, accepted>> PROVE FactorInv'
  BY <1>1, <1>2, <1>5 DEF FactorInv, FactorType, StepInv, CodeInv
<1>6. QED
  BY <1>3, <1>4, <1>5 DEF verifyLoginTotp

LEMMA AssertionOK ==
    ASSUME LoginInv, NEW r \in Requests, verifyLoginAssertion(r), UNCHANGED loginVars PROVE LoginInv'
<1>0. PICK q : q = req[r]
  OBVIOUS
<1>1. q \in AnyRequest /\ RequestOK(q) /\ Holds(q) /\ q.pc = "assertion" /\ UNCHANGED factorVars
  BY <1>0, HoldsOK DEF verifyLoginAssertion
<1>2. PICK n \in AnyRequest :
        /\ n.pc \in {"proved", "refuted"} /\ n.id = q.id /\ n.txn = q.txn /\ n.method = q.method
        /\ n.user = q.user \/ q.user = None
        /\ req' = [req EXCEPT ![r] = n]
  <2>1. CASE Goto(r, "refuted")
    <3> DEFINE n == [q EXCEPT !.pc = "refuted"]
    <3>1. n \in AnyRequest /\ n.pc = "refuted" /\ n.id = q.id /\ n.txn = q.txn /\ n.method = q.method /\ n.user = q.user
      BY <1>1 DEF AnyRequest, Labels
    <3>2. req' = [req EXCEPT ![r] = n]
      BY <1>0, <2>1 DEF Goto
    <3> HIDE DEF n
    <3>3. QED
      BY <3>1, <3>2
  <2>2. ASSUME NEW p \in Passkeys, AssertionBy(r, p),
               req' = [req EXCEPT ![r].pc = "proved", ![r].user = passkeyOf[p]]
        PROVE  \E n \in AnyRequest :
                 /\ n.pc \in {"proved", "refuted"} /\ n.id = q.id /\ n.txn = q.txn /\ n.method = q.method
                 /\ n.user = q.user \/ q.user = None
                 /\ req' = [req EXCEPT ![r] = n]
    <3>1. PICK w \in Users \cup {None} : w = passkeyOf[p] /\ (q.user = None \/ q.user = w)
      BY <1>0, <2>2 DEF LoginInv, LoginType, AssertionBy
    <3> DEFINE n == [q EXCEPT !.pc = "proved", !.user = w]
    <3>2. n \in AnyRequest /\ n.pc = "proved" /\ n.id = q.id /\ n.txn = q.txn /\ n.method = q.method /\ n.user = w
      BY <1>1, <3>1 DEF AnyRequest, Labels
    <3>3. req' = [req EXCEPT ![r] = n]
      <4>1. req \in [Requests -> AnyRequest]
        BY DEF LoginInv, LoginType
      <4>2. QED
        BY <1>0, <2>2, <3>1, <4>1 DEF AnyRequest
    <3> HIDE DEF n
    <3>4. QED
      BY <3>1, <3>2, <3>3
  <2>3. QED
    BY <2>1, <2>2 DEF verifyLoginAssertion
<1>3. RequestOK(n)
  BY <1>1, <1>2, VerdictOK DEF Verifying
<1>4. FactorInv' /\ UNCHANGED <<totpOf, passkeyOf>> /\ \A u \in Users : generated[u] <= generated'[u]
  BY <1>1, SameFactors DEF LoginInv, FactorInv, FactorType, factorVars
<1>5. QED
  BY <1>2, <1>3, <1>4, FactorMove

LEMMA IssueOK ==
    ASSUME LoginInv, NEW r \in Requests, issueEmailOtp(r), UNCHANGED loginVars PROVE LoginInv'
<1>0. PICK q : q = req[r]
  OBVIOUS
<1>1. q.pc \in {"limits", "existing", "issue", "count"} /\ UNCHANGED <<totpOf, passkeyOf, clock, stepOf, accepted, spent>>
  BY <1>0 DEF issueEmailOtp, checkLimits, readExisting, issueCode, countSending, factorVars
<1>2. q \in AnyRequest /\ RequestOK(q) /\ Holds(q) /\ q.user \in Users
  BY <1>0, <1>1, HoldsOK DEF RequestOK, Mailing
<1>3. PICK u \in Users : u = q.user
  BY <1>2
<1>4. FactorType /\ StepInv /\ CodeInv
  BY DEF LoginInv, FactorInv
<1>5. ASSUME NEW label \in {"limited", "existing", "count", "issued"}, Goto(r, label), FactorInv',
             \A v \in Users : generated[v] <= generated'[v]
      PROVE  LoginInv'
  <2> DEFINE n == [q EXCEPT !.pc = label]
  <2>1. n \in AnyRequest /\ n.pc = label /\ n.id = q.id /\ n.txn = q.txn /\ n.user = q.user
    BY <1>2 DEF AnyRequest, Labels
  <2>2. req' = [req EXCEPT ![r] = n]
    BY <1>0, <1>5 DEF Goto
  <2> HIDE DEF n
  <2>3. RequestOK(n)
    BY <1>2, <2>1, IssuingOK
  <2>4. QED
    BY <1>1, <1>5, <2>1, <2>2, <2>3, FactorMove
<1>6. CASE checkLimits(r)
  <2>1. Goto(r, "limited") \/ Goto(r, "existing")
    BY <1>6 DEF checkLimits
  <2>2. FactorInv' /\ \A v \in Users : generated[v] <= generated'[v]
    BY <1>4, <1>6, SameFactors DEF checkLimits, LoginInv, factorVars, FactorType
  <2>3. QED
    BY <1>5, <2>1, <2>2
<1>7. CASE readExisting(r)
  <2>1. PICK w \in AnyRow : w = otp[u]
    BY <1>4 DEF FactorType
  <2> DEFINE n == [q EXCEPT !.pc = "issue", !.row = w]
  <2>2. n \in AnyRequest /\ n.pc = "issue" /\ n.id = q.id /\ n.txn = q.txn /\ n.user = q.user
    BY <1>2 DEF AnyRequest, Labels
  <2>3. req' = [req EXCEPT ![r] = n]
    <3>1. req' = [req EXCEPT ![r].pc = "issue", ![r].row = w] /\ req \in [Requests -> AnyRequest]
      BY <1>0, <1>3, <1>7, <2>1 DEF readExisting, LoginInv, LoginType
    <3>2. QED
      BY <1>0, <1>2, <3>1 DEF AnyRequest
  <2> HIDE DEF n
  <2>4. RequestOK(n)
    BY <1>2, <2>2, IssuingOK
  <2>5. FactorInv' /\ \A v \in Users : generated[v] <= generated'[v]
    BY <1>4, <1>7, SameFactors DEF readExisting, LoginInv, factorVars, FactorType
  <2>6. QED
    BY <1>1, <2>2, <2>3, <2>4, <2>5, FactorMove
<1>8. CASE issueCode(r)
  <2>0. Goto(r, "count")
    BY <1>8 DEF issueCode
  <2>1. CASE otp' = [otp EXCEPT ![u].live = otp[u].code # 0] /\ UNCHANGED generated
    <3>1. PICK w \in AnyRow : w = otp[u]
      BY <1>4 DEF FactorType
    <3>2. PICK b \in BOOLEAN : b = (w.code # 0)
      OBVIOUS
    <3> DEFINE z == [w EXCEPT !.live = b]
    <3>3. z \in AnyRow /\ z.code = w.code /\ z.live = b
      BY DEF AnyRow
    <3>4. otp' = [otp EXCEPT ![u] = z]
      BY <1>4, <2>1, <3>1, <3>2 DEF FactorType
    <3> HIDE DEF z
    <3>5. FactorType'
      BY <1>1, <1>4, <2>1, <3>3, <3>4 DEF FactorType
    <3>6. CodeInv'
      BY <1>1, <1>4, <2>1, <3>1, <3>2, <3>3, <3>4 DEF FactorType, CodeInv
    <3>7. StepInv'
      BY <1>1, <1>4 DEF StepInv
    <3>8. \A v \in Users : generated[v] <= generated'[v]
      BY <1>4, <2>1 DEF FactorType
    <3>9. QED
      BY <1>5, <2>0, <3>5, <3>6, <3>7, <3>8 DEF FactorInv
  <2>2. CASE /\ generated' = [generated EXCEPT ![u] = @ + 1]
             /\ otp' = [otp EXCEPT ![u] = [code |-> generated[u] + 1, attempts |-> 0,
                                          fresh |-> TRUE, live |-> TRUE]]
    <3>1. PICK g \in Nat : g = generated[u]
      BY <1>4 DEF FactorType
    <3> DEFINE z == [code |-> g + 1, attempts |-> 0, fresh |-> TRUE, live |-> TRUE]
    <3>2. z \in AnyRow /\ z.code = g + 1 /\ g + 1 # 0
      BY DEF AnyRow
    <3>3. otp' = [otp EXCEPT ![u] = z] /\ generated' = [generated EXCEPT ![u] = g + 1]
      BY <1>4, <2>2, <3>1 DEF FactorType
    <3> HIDE DEF z
    <3>4. FactorType'
      BY <1>1, <1>4, <3>2, <3>3 DEF FactorType
    <3>5. CodeInv'
      <4>1. ASSUME NEW v \in Users
            PROVE  /\ otp'[v].code <= generated'[v]
                   /\ otp'[v].live => otp'[v].code # 0
                   /\ otp'[v].code \notin spent'[v]
                   /\ 0 \notin spent'[v]
                   /\ \A c \in spent'[v] : c <= generated'[v]
        <5>1. CASE v # u
          BY <1>1, <1>4, <3>3, <5>1 DEF FactorType, CodeInv
        <5>2. CASE v = u
          <6>1. otp'[v] = z /\ generated'[v] = g + 1 /\ spent'[v] = spent[u]
            BY <1>1, <1>4, <3>3, <5>2 DEF FactorType
          <6>2. spent[u] \in SUBSET Nat /\ 0 \notin spent[u] /\ \A c \in spent[u] : c <= g
            BY <1>4, <3>1 DEF FactorType, CodeInv
          <6>3. QED
            BY <3>2, <6>1, <6>2
        <5>3. QED
          BY <5>1, <5>2
      <4>2. QED
        BY <4>1 DEF CodeInv
    <3>6. StepInv'
      BY <1>1, <1>4 DEF StepInv
    <3>7. \A v \in Users : generated[v] <= generated'[v]
      BY <1>4, <3>1, <3>3 DEF FactorType
    <3>8. QED
      BY <1>5, <2>0, <3>4, <3>5, <3>6, <3>7 DEF FactorInv
  <2>3. QED
    BY <1>0, <1>3, <1>8, <2>1, <2>2 DEF issueCode
<1>9. CASE countSending(r)
  <2>1. Goto(r, "issued")
    BY <1>9 DEF countSending
  <2>2. FactorInv' /\ \A v \in Users : generated[v] <= generated'[v]
    BY <1>4, <1>9 DEF countSending, FactorInv, FactorType, StepInv, CodeInv
  <2>3. QED
    BY <1>5, <2>1, <2>2
<1>10. QED
  BY <1>6, <1>7, <1>8, <1>9 DEF issueEmailOtp

LEMMA VerifyOK ==
    ASSUME LoginInv, NEW r \in Requests, verifyEmailOtp(r), UNCHANGED loginVars PROVE LoginInv'
<1>0. PICK q : q = req[r]
  OBVIOUS
<1>1. q.pc \in {"email", "match", "miss"} /\ UNCHANGED <<totpOf, passkeyOf, clock, stepOf, accepted, generated>>
  BY <1>0 DEF verifyEmailOtp, readOtp, matchOtp, missOtp, factorVars
<1>2. q \in AnyRequest /\ RequestOK(q) /\ Holds(q) /\ q.user \in Users /\ q.pc \in Verifying
  BY <1>0, <1>1, HoldsOK DEF RequestOK, Mailing, Verifying
<1>3. PICK u \in Users : u = q.user
  BY <1>2
<1>4. FactorType /\ StepInv /\ CodeInv /\ req \in [Requests -> AnyRequest]
  BY DEF LoginInv, FactorInv, LoginType
<1>5. \A v \in Users : generated[v] <= generated'[v]
  BY <1>1, <1>4 DEF FactorType
<1>6. PICK w \in AnyRow : w = otp[u]
  BY <1>4 DEF FactorType
<1>7. CASE readOtp(r)
  <2>1. FactorInv'
    BY <1>7, SameFactors DEF readOtp, LoginInv
  <2>2. CASE Goto(r, "refuted")
    <3> DEFINE n == [q EXCEPT !.pc = "refuted"]
    <3>1. /\ n \in AnyRequest /\ n.pc = "refuted" /\ n.id = q.id /\ n.txn = q.txn /\ n.user = q.user
          /\ n.method = q.method
      BY <1>2 DEF AnyRequest, Labels
    <3>2. req' = [req EXCEPT ![r] = n]
      BY <1>0, <2>2 DEF Goto
    <3> HIDE DEF n
    <3>3. RequestOK(n)
      BY <1>2, <3>1, VerdictOK
    <3>4. QED
      BY <1>1, <1>5, <2>1, <3>1, <3>2, <3>3, FactorMove
  <2>3. ASSUME NEW label \in {"match", "miss"}, w.live,
               req' = [req EXCEPT ![r].pc = label, ![r].row = w]
        PROVE  LoginInv'
    <3> DEFINE n == [q EXCEPT !.pc = label, !.row = w]
    <3>1. /\ n \in AnyRequest /\ n.pc = label /\ n.id = q.id /\ n.txn = q.txn /\ n.user = q.user
          /\ n.method = q.method /\ n.row = w
      BY <1>2 DEF AnyRequest, Labels
    <3>2. req' = [req EXCEPT ![r] = n]
      BY <1>0, <1>2, <1>4, <2>3 DEF AnyRequest
    <3> HIDE DEF n
    <3>3. w.code # 0 /\ w.code <= generated[u]
      BY <1>4, <1>6, <2>3 DEF CodeInv
    <3>4. q.pc = "email" /\ q.method \in Methods /\ q.txn.sub # None /\ q.user = q.txn.sub
      BY <1>0, <1>2, <1>7 DEF readOtp, RequestOK, Verifying
    <3>5. RequestOK(n)
      BY <1>2, <1>3, <3>1, <3>3, <3>4 DEF RequestOK, Holds, Verifying, Mailing
    <3>6. QED
      BY <1>1, <1>5, <2>1, <3>1, <3>2, <3>5, FactorMove
  <2>4. QED
    BY <1>0, <1>3, <1>6, <1>7, <2>2, <2>3 DEF readOtp
<1>8. ASSUME NEW label \in {"proved", "refuted"}, FactorInv',
             req' = [req EXCEPT ![r].pc = label, ![r].row = NoRow]
      PROVE  LoginInv'
  <2> DEFINE n == [q EXCEPT !.pc = label, !.row = NoRow]
  <2>1. /\ n \in AnyRequest /\ n.pc = label /\ n.id = q.id /\ n.txn = q.txn /\ n.user = q.user
        /\ n.method = q.method
    BY <1>2, IdleOK DEF AnyRequest, Labels
  <2>2. req' = [req EXCEPT ![r] = n]
    BY <1>0, <1>2, <1>4, <1>8 DEF AnyRequest
  <2> HIDE DEF n
  <2>3. RequestOK(n)
    BY <1>2, <2>1, VerdictOK
  <2>4. QED
    BY <1>1, <1>5, <1>8, <2>1, <2>2, <2>3, FactorMove
<1>9. CASE matchOtp(r)
  <2>1. PICK k \in Nat : k = q.row.code /\ k # 0 /\ k <= generated[u]
    BY <1>0, <1>2, <1>3, <1>9 DEF matchOtp, RequestOK, AnyRequest, AnyRow
  <2>2. otp' = [otp EXCEPT ![u] = NoRow] /\ spent' = [spent EXCEPT ![u] = @ \cup {k}]
    BY <1>0, <1>3, <1>9, <2>1 DEF matchOtp, RowAfterMatch
  <2>3. NoRow \in AnyRow /\ NoRow.code = 0 /\ ~NoRow.live
    BY DEF NoRow, AnyRow
  <2>4. FactorType'
    BY <1>1, <1>4, <2>1, <2>2, <2>3 DEF FactorType
  <2>5. CodeInv'
    <3>1. ASSUME NEW v \in Users
          PROVE  /\ otp'[v].code <= generated'[v]
                 /\ otp'[v].live => otp'[v].code # 0
                 /\ otp'[v].code \notin spent'[v]
                 /\ 0 \notin spent'[v]
                 /\ \A c \in spent'[v] : c <= generated'[v]
      <4>1. CASE v # u
        BY <1>1, <1>4, <2>2, <4>1 DEF FactorType, CodeInv
      <4>2. CASE v = u
        <5>1. otp'[v] = NoRow /\ generated'[v] = generated[u] /\ spent'[v] = spent[u] \cup {k} /\ generated[u] \in Nat
          BY <1>1, <1>4, <2>2, <4>2 DEF FactorType
        <5>2. spent[u] \in SUBSET Nat /\ 0 \notin spent[u] /\ \A c \in spent[u] : c <= generated[u]
          BY <1>4 DEF FactorType, CodeInv
        <5>3. QED
          BY <2>1, <2>3, <5>1, <5>2
      <4>3. QED
        BY <4>1, <4>2
    <3>2. QED
      BY <3>1 DEF CodeInv
  <2>6. StepInv'
    BY <1>1, <1>4 DEF StepInv
  <2>7. QED
    BY <1>8, <1>9, <2>4, <2>5, <2>6 DEF matchOtp, FactorInv
<1>10. CASE missOtp(r)
  <2>1. PICK k \in Nat : otp' = [otp EXCEPT ![u].attempts = k]
    <3>1. (IF otp[u].code = 0 THEN 0 ELSE q.row.attempts + 1) \in Nat
      BY <1>2 DEF AnyRequest, AnyRow
    <3>2. QED
      BY <1>0, <1>3, <1>10, <3>1 DEF missOtp
  <2> DEFINE z == [w EXCEPT !.attempts = k]
  <2>2. z \in AnyRow /\ z.code = w.code /\ z.live = w.live
    BY DEF AnyRow
  <2>3. otp' = [otp EXCEPT ![u] = z] /\ UNCHANGED spent
    BY <1>4, <1>6, <1>10, <2>1 DEF missOtp, FactorType
  <2> HIDE DEF z
  <2>4. FactorType' /\ StepInv'
    BY <1>1, <1>4, <2>2, <2>3 DEF FactorType, StepInv
  <2>5. CodeInv'
    BY <1>1, <1>4, <1>6, <2>2, <2>3 DEF FactorType, CodeInv
  <2>6. QED
    BY <1>8, <1>10, <2>4, <2>5 DEF missOtp, FactorInv
<1>11. QED
  BY <1>7, <1>9, <1>10 DEF verifyEmailOtp

LEMMA TimeOK == ASSUME LoginInv, TimePasses, UNCHANGED loginVars PROVE LoginInv'
<1>1. FactorType /\ StepInv /\ CodeInv /\ active \subseteq Users
  BY DEF LoginInv, FactorInv, LoginType
<1>2. UNCHANGED <<req, totpOf, passkeyOf, stepOf, accepted, generated, spent>>
  BY DEF TimePasses, Tick, OtpAges, LimitAges
<1>3. CASE UNCHANGED <<otp>> /\ clock' \in 1..MaxStep
  <2>1. FactorInv' /\ Grows
    BY <1>1, <1>2, <1>3 DEF FactorInv, FactorType, StepInv, CodeInv, Grows, loginVars
  <2>2. QED
    BY <1>1, <1>2, <2>1, RestOK DEF loginVars
<1>4. ASSUME NEW u \in Users, OtpAges(u) PROVE LoginInv'
  <2>1. PICK w \in AnyRow : w = otp[u]
    BY <1>1 DEF FactorType
  <2>2. PICK b \in BOOLEAN : b = (w.live /\ w.fresh)
    BY DEF AnyRow
  <2> DEFINE z == [w EXCEPT !.fresh = FALSE, !.live = b]
  <2>3. z \in AnyRow /\ z.code = w.code /\ (z.live => w.live)
    BY <2>2 DEF AnyRow
  <2>4. otp' = [otp EXCEPT ![u] = z] /\ UNCHANGED clock
    BY <1>1, <1>4, <2>1, <2>2 DEF OtpAges, FactorType
  <2> HIDE DEF z
  <2>5. FactorType' /\ StepInv' /\ CodeInv'
    BY <1>1, <1>2, <2>1, <2>3, <2>4 DEF FactorType, StepInv, CodeInv
  <2>6. Grows
    BY <1>1, <1>2 DEF FactorType, Grows, loginVars
  <2>7. QED
    BY <1>1, <1>2, <2>5, <2>6, RestOK DEF loginVars, FactorInv
<1>5. CASE Tick
  BY <1>1, <1>3, <1>5, FactorsAssumption DEF Tick, FactorType
<1>6. ASSUME NEW u \in Users, LimitAges(u) PROVE LoginInv'
  BY <1>1, <1>3, <1>6 DEF LimitAges, FactorType
<1>7. QED
  BY <1>4, <1>5, <1>6 DEF TimePasses

-----------------------------------------------------------------------------
LEMMA LoginStart == Init => LoginInv
<1> SUFFICES ASSUME Init PROVE LoginInv
  OBVIOUS
<1>1. PICK u \in Users : sessions = <<[sub |-> u, amr |-> {"pwd"}, id |-> None, persistent |-> FALSE]>>
  BY DEF Init
<1>2. [sub |-> u, amr |-> {"pwd"}, id |-> None, persistent |-> FALSE] \in AnySession
  BY DEF AnySession
<1>3. sessions \in Seq(AnySession)
  BY <1>1, <1>2
<1>4. LoginType
  BY <1>3, IdleOK DEF Init, LoginType
<1>5. FactorInv
  <2>1. FactorType
    BY IdleOK, FactorsAssumption DEF Init, FactorInit, FactorType, Steps
  <2>2. StepInv
    BY DEF Init, FactorInit, StepInv
  <2>3. CodeInv
    BY DEF Init, FactorInit, CodeInv, NoRow
  <2>4. QED
    BY <2>1, <2>2, <2>3 DEF FactorInv
<1>6. TxnInv /\ RequestInv /\ CodesOK /\ StampsOK
  BY IdleOK, GoneOK DEF Init, TxnInv, RequestInv, CodesOK, StampsOK
<1>7. SessionsOK
  <2>1. \A i \in DOMAIN sessions : sessions[i].id = None
    BY <1>1
  <2>2. QED
    BY <2>1 DEF SessionsOK, SessionOK
<1>8. QED
  BY <1>4, <1>5, <1>6, <1>7 DEF LoginInv

LEMMA LoginStep == ASSUME LoginInv, [Next]_vars PROVE LoginInv'
<1>1. ASSUME NEW r \in Requests, NEW t \in Txns,
             \/ authorize(r, t) \/ adminDoor(r, t) \/ login(r, t) \/ postLogin(r, t)
             \/ postChallenge(r, t) \/ stay(r, t) \/ sendEmail(r, t)
      PROVE  LoginInv'
  BY <1>1, AuthorizeOK, AdminDoorOK, LoginPageOK, PostLoginOK, PostChallengeOK, StayOK, SendEmailOK
<1>2. ASSUME NEW r \in Requests,
             \/ checkPassword(r) \/ factorProved(r) \/ factorRefuted(r) \/ finishLogin(r)
             \/ checkAccess(r) \/ mint(r) \/ stampStepup(r) \/ emailSent(r) \/ updateTxn(r)
             \/ consumeTxn(r)
      PROVE  LoginInv'
  BY <1>2, CheckPasswordOK, FactorProvedOK, FactorRefutedOK, FinishLoginOK, CheckAccessOK, MintOK,
     StampStepupOK, EmailSentOK, UpdateTxnOK, ConsumeTxnOK
<1>3. ASSUME NEW r \in Requests, FactorStep(r), UNCHANGED loginVars PROVE LoginInv'
  BY <1>3, TotpOK, AssertionOK, IssueOK, VerifyOK DEF FactorStep
<1>4. CASE UNCHANGED vars
  <2>1. Grows /\ FactorInv' /\ active' \subseteq Users
    BY <1>4, QuietGrows, SameFactors DEF LoginInv, LoginType, vars, loginVars
  <2>2. QED
    BY <1>4, <2>1, RestOK DEF vars, loginVars
<1>5. QED
  BY <1>1, <1>2, <1>3, <1>4, TimeOK, TxnExpiresOK, SuspendOK DEF Next

LEMMA LoginInvariant == Spec => []LoginInv
BY LoginStart, LoginStep, PTL DEF Spec

(* Whatever the requests of a transaction do to each other's copies, a     *)
(* session, a step-up code and a stamp rest on factors that their own user *)
(* proved, and a session on as many as the account asks for (authorize.ts  *)
(* finishLogin and succeed, transactions.ts).                              *)
THEOREM FactorsAlwaysProven == Spec => []FactorProven
<1>1. LoginInv => FactorProven
  <2> SUFFICES ASSUME LoginInv PROVE FactorProven
    OBVIOUS
  <2>1. \A i \in DOMAIN sessions : SessionOK(sessions[i])
    BY DEF LoginInv, SessionsOK
  <2>2. \A c \in codes : CodeOK(c)
    BY DEF LoginInv, CodesOK
  <2>3. \A x \in stamps : StampOK(x)
    BY DEF LoginInv, StampsOK
  <2>4. QED
    BY <2>1, <2>2, <2>3 DEF FactorProven, SessionOK, CodeOK, StampOK
<1>2. QED
  BY <1>1, LoginInvariant, PTL

(* A one-time code of an authenticator is accepted once, however many      *)
(* requests present it at the same time (mfa.ts claimTotpStep).            *)
THEOREM TotpAlwaysOnce == Spec => []TotpOnce
<1>1. LoginInv => TotpOnce
  BY DEF LoginInv, FactorInv, StepInv, TotpOnce
<1>2. QED
  BY <1>1, LoginInvariant, PTL

(* An emailed code that was accepted is never in the table again           *)
(* (emailOtp.ts verifyEmailOtp and issueEmailOtp).                         *)
THEOREM SpentAlwaysSpent == Spec => []SpentStaysSpent
<1>1. LoginInv => SpentStaysSpent
  BY DEF LoginInv, FactorInv, CodeInv, SpentStaysSpent
<1>2. QED
  BY <1>1, LoginInvariant, PTL
=============================================================================
