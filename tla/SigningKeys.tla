---------------------------- MODULE SigningKeys -----------------------------
(***************************************************************************)
(* Rotation of the SSO's token-signing key (src/signingKeyRotation.ts,     *)
(* src/keys.ts) together with everything that caches the published key     *)
(* set: each SSO process for OriginAge, HTTP caches for EdgeAge, and the   *)
(* relying parties, which refetch on an unknown key ID but not within      *)
(* Cooldown of their last fetch.                                           *)
(*                                                                         *)
(* Time is discrete.  A database transaction is one step, its commit: they *)
(* all run under one advisory lock.  The clock a transaction writes was    *)
(* read before it committed, possibly long before.  A process may stop     *)
(* between its transactions, and what it decided on may be stale when it   *)
(* acts.                                                                   *)
(* A value that may be missing is a set with at most one element.          *)
(***************************************************************************)
EXTENDS Integers

CONSTANTS
    Processes,     \* SSO processes
    Origins,       \* the ones of them that answer /jwks
    Verifiers,     \* relying parties and other holders of a fetched key set
    None,          \* no key
    MaxKid,        \* bound: keys ever generated
    MaxTime,       \* bound: ticks
    Window,        \* SIGNING_KEY_PREPUBLICATION_SECONDS
    Retain,        \* RETIRED_JWKS_WINDOW
    OriginAge,     \* JWKS_CACHE_MS
    ReadMax,       \* the longest database read getJwks accepts
    EdgeAge,       \* max-age of the /jwks response
    Cooldown,      \* unknown-key cooldown of the relying parties' resolver
    TokenLife,     \* the longest lifetime of a signed token
    SignLag,       \* bound: from selecting the signer to signing
    CommitLag      \* bound: from an activation's clock to its commit

Kids == 1..MaxKid

(* 60 + 120 + 30 s fit into the five minutes, and a 15 minute token into   *)
(* the 24 hours.  An entry of age n is last served at its tick n - 1, which *)
(* is what the window may be shorter than the sum; it is longer than the   *)
(* two ages alone.  A read is given up (5 s) before its result would be    *)
(* stale (60 s).                                                           *)
ASSUME TimingAssumption ==
    /\ MaxKid \in Nat
    /\ MaxTime \in Nat
    /\ Window \in Nat
    /\ Retain \in Nat
    /\ OriginAge \in Nat
    /\ ReadMax \in Nat
    /\ EdgeAge \in Nat
    /\ Cooldown \in Nat
    /\ TokenLife \in Nat
    /\ SignLag \in Nat
    /\ CommitLag \in Nat
    /\ Origins \subseteq Processes
    /\ OriginAge > 0
    /\ EdgeAge > 0
    /\ ReadMax < OriginAge
    /\ OriginAge - 1 + EdgeAge - 1 < Window
    /\ OriginAge - 1 + EdgeAge - 1 + Cooldown <= Window
    /\ CommitLag + SignLag + TokenLife < Retain
    /\ None \notin Kids

VARIABLES
    now,
    \* --- table signing_keys
    kids,          \* number of rows
    status,        \* "none", "next", "current" or "retired"
    publishedAt,   \* the marker that arms the window, or {}
    retiredAt,
    \* --- each SSO process
    pc,            \* where it is in current() or schedule()
    target,        \* the pending key it read
    signer,        \* the key it selected ...
    since,         \* ... and when it read either
    reading,       \* a read of the key set under way: its start and result
    cache,         \* jwksCache, while it may be served
    \* --- outside
    edge,          \* the /jwks response an HTTP cache may serve
    fetched,       \* the key set each verifier holds
    signed         \* when each key last signed a token that has not expired

tableVars == <<kids, status, publishedAt, retiredAt>>
signerVars == <<pc, target, signer, since>>
vars == <<now, tableVars, signerVars, reading, cache, edge, fetched, signed>>

\* A key set and the time its age counts from.
KeySets == [keys : SUBSET Kids, at : 0..now]

TypeOK ==
    /\ now \in Nat
    /\ kids \in 0..MaxKid
    /\ status \in [Kids -> {"none", "next", "current", "retired"}]
    /\ publishedAt \in [Kids -> SUBSET (0..now)]
    /\ retiredAt \in [Kids -> 0..now]
    /\ pc \in [Processes -> {"idle", "arm", "maintain", "reread", "selected"}]
    /\ target \in [Processes -> Kids \cup {None}]
    /\ signer \in [Processes -> Kids \cup {None}]
    /\ since \in [Processes -> 0..now]
    /\ reading \in [Origins -> SUBSET KeySets]
    /\ cache \in [Origins -> SUBSET KeySets]
    /\ edge \in SUBSET KeySets
    /\ fetched \in [Verifiers -> SUBSET KeySets]
    /\ signed \in [Kids -> SUBSET (0..now)]

Init ==
    /\ now = 0
    /\ kids = 0
    /\ status = [k \in Kids |-> "none"]
    /\ publishedAt = [k \in Kids |-> {}]
    /\ retiredAt = [k \in Kids |-> 0]
    /\ pc = [p \in Processes |-> "idle"]
    /\ target = [p \in Processes |-> None]
    /\ signer = [p \in Processes |-> None]
    /\ since = [p \in Processes |-> 0]
    /\ reading = [p \in Origins |-> {}]
    /\ cache = [p \in Origins |-> {}]
    /\ edge = {}
    /\ fetched = [v \in Verifiers |-> {}]
    /\ signed = [k \in Kids |-> {}]

-----------------------------------------------------------------------------
With(s) == {k \in Kids : status[k] = s}

\* What the query of getJwks returns.
Published ==
    {k \in Kids : \/ status[k] \in {"current", "next"}
                  \/ status[k] = "retired" /\ now < retiredAt[k] + Retain}

\* A set of at most one key set that may still be served at time t.
Fresh(held, age, t) == {s \in held : t < s.at + age}

\* invalidateJwksCache, in the process that changed the table; the others
\* keep what they have.
Changed(p) == cache' = [q \in Origins |-> IF q = p THEN {} ELSE cache[q]]

-----------------------------------------------------------------------------
(* Rotation.                                                               *)

\* bootstrap: an empty table gets its first key, current at once.
bootstrap(p) ==
    /\ pc[p] = "idle"
    /\ kids = 0
    /\ MaxKid >= 1
    /\ kids' = 1
    /\ status' = [status EXCEPT ![1] = "current"]
    /\ Changed(p)
    /\ UNCHANGED <<now, publishedAt, retiredAt, signerVars, reading, edge,
                   fetched, signed>>

NoPendingKey == With("next") = {}

\* The transaction of schedule(): a pending key is returned as it is, else a
\* new key is published, after the first one if the table was empty.  The
\* window is not armed yet.
publish(p) ==
    /\ NoPendingKey
    /\ LET k == IF kids = 0 THEN 2 ELSE kids + 1
       IN  /\ k <= MaxKid
           /\ kids' = k
           /\ status' = [c \in Kids |-> IF c = k THEN "next"
                                        ELSE IF kids = 0 /\ c = 1 THEN "current"
                                        ELSE status[c]]
           /\ target' = [target EXCEPT ![p] = k]

schedule(p) ==
    /\ pc[p] = "idle"
    /\ pc' = [pc EXCEPT ![p] = "arm"]
    /\ since' = [since EXCEPT ![p] = now]
    /\ \/ publish(p)
       \/ /\ \E k \in With("next") : target' = [target EXCEPT ![p] = k]
          /\ UNCHANGED <<kids, status>>
    /\ Changed(p)
    /\ UNCHANGED <<now, publishedAt, retiredAt, signer, reading, edge, fetched,
                   signed>>

\* The read at the start of current(): a pending key that is not armed or
\* whose window is over is maintained first, else the current key is selected.
WindowOver(k, at) == \A t \in publishedAt[k] : t + Window <= at

NeedsMaintenance(k) ==
    status[k] = "next" /\ (publishedAt[k] = {} \/ WindowOver(k, now))

select(p) ==
    \E k \in With("current") :
        /\ signer' = [signer EXCEPT ![p] = k]
        /\ since' = [since EXCEPT ![p] = now]
        /\ pc' = [pc EXCEPT ![p] = "selected"]
        /\ UNCHANGED target

current(p) ==
    /\ pc[p] = "idle"
    /\ With("current") # {}
    /\ \/ \E k \in Kids : /\ NeedsMaintenance(k)
                          /\ target' = [target EXCEPT ![p] = k]
                          /\ pc' = [pc EXCEPT ![p] = "maintain"]
                          /\ since' = [since EXCEPT ![p] = now]
                          /\ UNCHANGED signer
       \/ (\A k \in Kids : ~NeedsMaintenance(k)) /\ select(p)
    /\ UNCHANGED <<now, tableVars, reading, cache, edge, fetched, signed>>

\* After maintenance, done or failed, the table is read again.
reread(p) ==
    /\ pc[p] = "reread"
    /\ select(p)
    /\ UNCHANGED <<now, tableVars, reading, cache, edge, fetched, signed>>

AfterReconcile(p) ==
    /\ pc' = [pc EXCEPT ![p] = IF pc[p] = "arm" THEN "idle" ELSE "reread"]
    /\ target' = [target EXCEPT ![p] = None]
    /\ since' = [since EXCEPT ![p] = 0]

\* reconcile(kid): the transaction looks again; the key may meanwhile be
\* armed or active, or its window not be over.  Its clock is read at some
\* time after the process learned of the key.
arm(p) ==
    LET k == target[p]
    IN  /\ pc[p] \in {"arm", "maintain"}
        /\ status[k] = "next"
        /\ publishedAt[k] = {}
        /\ \E t \in since[p]..now :
             publishedAt' = [publishedAt EXCEPT ![k] = {t}]
        /\ Changed(p)
        /\ AfterReconcile(p)
        /\ UNCHANGED <<now, kids, status, retiredAt, signer, reading, edge,
                       fetched, signed>>

MayActivate(k, at) ==
    status[k] = "next" /\ publishedAt[k] # {} /\ WindowOver(k, at)

\* The two updates of the activation: k takes the place of the current key.
Promoted_NoneRetired(k) == [status EXCEPT ![k] = "current"]
Promoted_Swapped(k) ==
    [c \in Kids |-> IF c = k THEN "current"
                    ELSE IF status[c] = "current" THEN "next" ELSE status[c]]
Promoted(k) ==
    [c \in Kids |-> IF c = k THEN "current"
                    ELSE IF status[c] = "current" THEN "retired" ELSE status[c]]

activate(p) ==
    LET k == target[p]
    IN  /\ pc[p] \in {"arm", "maintain"}
        /\ status' = Promoted(k)
        /\ \E t \in since[p]..now :
             /\ now <= t + CommitLag
             /\ MayActivate(k, t)
             /\ retiredAt' = [c \in Kids |-> IF status[c] = "current" THEN t
                                             ELSE retiredAt[c]]
        /\ Changed(p)
        /\ AfterReconcile(p)
        /\ UNCHANGED <<now, kids, publishedAt, signer, reading, edge, fetched,
                       signed>>

\* Nothing to do any more, or the transaction failed: signing goes on with
\* what the table says.
skipReconcile(p) ==
    /\ pc[p] \in {"arm", "maintain"}
    /\ AfterReconcile(p)
    /\ UNCHANGED <<now, tableVars, signer, reading, cache, edge, fetched, signed>>

Idle(p) ==
    /\ pc' = [pc EXCEPT ![p] = "idle"]
    /\ target' = [target EXCEPT ![p] = None]
    /\ signer' = [signer EXCEPT ![p] = None]
    /\ since' = [since EXCEPT ![p] = 0]

\* mintIdToken, mintAccessToken and the other users of getSigningKey.
sign(p) ==
    /\ pc[p] = "selected"
    /\ signed' = [signed EXCEPT ![signer[p]] = {now}]
    /\ Idle(p)
    /\ UNCHANGED <<now, tableVars, reading, cache, edge, fetched>>

-----------------------------------------------------------------------------
(* The published key set and its caches.                                   *)

\* getJwks without a fresh cache starts a read; the snapshot can be as old as
\* the start.
startRead(p) ==
    /\ cache[p] = {}
    /\ reading[p] = {}
    /\ reading' = [reading EXCEPT ![p] = {[keys |-> Published, at |-> now]}]
    /\ UNCHANGED <<now, tableVars, signerVars, cache, edge, fetched, signed>>

\* The age of a cached set counts from the start of the read.
CachedAt_Finish(s) == now
CachedAt_Deadline(s) == s.at + OriginAge
CachedAt(s) == s.at

\* A read that took too long, or found no key, is an error.
finishRead(p) ==
    /\ \E s \in reading[p] :
         cache' = [cache EXCEPT ![p] =
                     IF s.at + ReadMax < now \/ s.keys = {} THEN @
                     ELSE {[keys |-> s.keys, at |-> CachedAt(s)]}]
    /\ reading' = [reading EXCEPT ![p] = {}]
    /\ UNCHANGED <<now, tableVars, signerVars, edge, fetched, signed>>

\* The process stops; another one with empty memory takes its place.
crash(p) ==
    /\ Idle(p)
    /\ reading' = [q \in Origins |-> IF q = p THEN {} ELSE reading[q]]
    /\ Changed(p)
    /\ UNCHANGED <<now, tableVars, edge, fetched, signed>>

\* Two ways a /jwks response is stored: by an HTTP cache on its way ...
edgeStores(p) ==
    /\ edge = {}
    /\ \E s \in cache[p] :
         edge' = {[keys |-> s.keys, at |-> now]}
    /\ UNCHANGED <<now, tableVars, signerVars, reading, cache, fetched, signed>>

\* ... and by a verifier, from a process or from an HTTP cache, unless it
\* fetched within the cooldown.
MayFetch(v) == \A s \in fetched[v] : s.at + Cooldown <= now

Responses == edge \cup UNION {cache[p] : p \in Origins}

fetch(v) ==
    /\ MayFetch(v)
    /\ \E s \in Responses :
         fetched' = [fetched EXCEPT ![v] = {[keys |-> s.keys, at |-> now]}]
    /\ UNCHANGED <<now, tableVars, signerVars, reading, cache, edge, signed>>

\* Time passes: entries that may not be served any more, and tokens that
\* have expired, count for nothing from now on.  A process that has selected
\* its signer signs within SignLag.
Tick ==
    /\ now < MaxTime
    /\ \A p \in Processes : pc[p] = "selected" => now < since[p] + SignLag
    /\ now' = now + 1
    /\ cache' = [p \in Origins |-> Fresh(cache[p], OriginAge, now + 1)]
    /\ edge' = Fresh(edge, EdgeAge, now + 1)
    /\ signed' = [k \in Kids |-> {t \in signed[k] : now + 1 <= t + TokenLife}]
    /\ UNCHANGED <<tableVars, signerVars, reading, fetched>>

-----------------------------------------------------------------------------
Rotate(p) ==
    \/ bootstrap(p) \/ schedule(p) \/ current(p) \/ reread(p) \/ arm(p)
    \/ activate(p) \/ skipReconcile(p) \/ sign(p) \/ crash(p)

Serve(p) == startRead(p) \/ finishRead(p) \/ edgeStores(p)

Next ==
    \/ \E p \in Processes : Rotate(p)
    \/ \E p \in Origins : Serve(p)
    \/ \E v \in Verifiers : fetch(v)
    \/ Tick

Spec == Init /\ [][Next]_vars

-----------------------------------------------------------------------------
(* Properties.                                                             *)

\* Some token signed with k is still valid.
Live(k) == signed[k] # {}

(* Every token that is still valid can be verified by everybody: its key   *)
(* is in whatever a process or an HTTP cache may serve at this moment, and *)
(* a relying party either has it or may fetch it now.  The five-minute     *)
(* window, armed after publication, has outlived every cache when the key  *)
(* starts to sign; the 24 hours outlive the last token.                    *)
TokensVerify ==
    \A k \in Kids : Live(k) =>
        /\ k \in Published
        /\ \A s \in Responses : k \in s.keys
        /\ \A v \in Verifiers : \A s \in fetched[v] : k \in s.keys \/ MayFetch(v)

(* Processes that rotate, arm and activate at the same time never leave    *)
(* the table without exactly one signer, and never with two pending keys.  *)
OneSigner ==
    /\ kids > 0 => \E k \in Kids : With("current") = {k}
    /\ \A j, k \in With("next") : j = k

(* A key only moves forward: published, current, retired.  A pending key   *)
(* is not dropped or replaced by a repeated schedule(), a retired one does *)
(* not come back.                                                          *)
KeysMoveForward ==
    [][\A k \in Kids :
         /\ status[k] = "next" => status'[k] \in {"next", "current"}
         /\ status[k] = "current" => status'[k] \in {"current", "retired"}
         /\ status[k] = "retired" => status'[k] = "retired"]_vars
=============================================================================
