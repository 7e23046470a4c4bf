----------------------------- MODULE PortalKey -----------------------------
(***************************************************************************)
(* Rotation of the account portal's client key: the state file and its     *)
(* flock'd writer process (account/server/src/client-key-state.ts,         *)
(* client-key-worker.ts), the routes that start it, the published key set  *)
(* as HTTP caches hold it, and the SSO's resolver that verifies the        *)
(* portal's assertions (src/src/clientKeys.ts).                            *)
(*                                                                         *)
(* Time is in ticks.  A rename of the state file is one step; the writer   *)
(* may be killed before it, and the clock it writes was read earlier.  A   *)
(* file of the old format has no retirement times: every read stamps them  *)
(* anew until the first write.                                             *)
(***************************************************************************)
EXTENDS Integers, FiniteSets

CONSTANTS
    MaxKey,       \* bound: keys ever generated
    MaxRetired,   \* MAX_RETIRED
    Propagation,  \* CLIENT_KEY_PROPAGATION_MS
    Retention,    \* CLIENT_KEY_RETENTION_MS
    EdgeTtl,      \* max-age of the key set response
    Transport,    \* CLIENT_JWKS_TIMEOUT_MS: the longest fetch
    FreshFor,     \* 600 s: a cached set is used without a fetch
    Cooling,      \* 30 s: an unknown key ID causes no fetch
    AssertionTtl  \* lifetime of an assertion

(* 120 + 3 + 30 s fit into the five minutes; a copy of age n is last served *)
(* at its tick n - 1.                                                      *)
ASSUME PortalKeyAssumption ==
    /\ EdgeTtl > 0 /\ Cooling > 0
    /\ \A n \in {MaxKey, MaxRetired, Propagation, Retention, EdgeTtl, Transport,
                 FreshFor, Cooling, AssertionTtl} : n \in Nat
    /\ EdgeTtl - 1 + Transport + Cooling <= Propagation
    /\ AssertionTtl < Retention

VARIABLES
    file,      \* the state file
    temp,      \* temporary files next to it
    worker,    \* the process that holds the lock
    tracked,   \* workers has an entry for it
    ask,       \* a rotation request that waits for its answer
    cooled,    \* signingCooldown has passed
    sealed,    \* stoppingWorkers
    keyEdge,   \* the HTTP caches' copy of the key set
    flight,    \* the resolver's fetch in progress
    sso,       \* the resolver's copy
    sent,      \* an assertion on its way to the SSO
    refused    \* a verification found no key for the assertion

keyVars == <<file, temp, worker, tracked, ask, cooled, sealed, keyEdge, flight, sso, sent, refused>>
writerVars == <<temp, worker, tracked, ask, cooled, sealed>>
cacheVars == <<keyEdge, flight, sso, sent, refused>>

NoKey == 0
Unarmed == -1
IdleWorker == [op |-> "none", pc |-> "idle", written |-> FALSE, wait |-> Unarmed]
NoAsk == [state |-> "none", cur |-> NoKey, pending |-> FALSE, shared |-> FALSE]
Never == [keys |-> {}, age |-> FreshFor]

(* What a file says of the keys it holds; keys[0] is the signer.           *)
KeyFile == [cur : 1..MaxKey, pend : 0..MaxKey, wait : Unarmed..Propagation,
            retired : UNION {[S -> 0..Retention] : S \in SUBSET (1..MaxKey)}, old : BOOLEAN]

(* decode: a file that breaks one of these rules is client_key_state_invalid *)
(* for every reader from then on.                                          *)
decode(f) ==
    /\ Cardinality(DOMAIN f.retired) <= MaxRetired
    /\ f.cur \notin DOMAIN f.retired /\ f.pend # f.cur /\ f.pend \notin DOMAIN f.retired
    /\ f.pend = NoKey => f.wait = Unarmed

projection(f) ==
    ({f.cur, f.pend} \ {NoKey}) \cup {k \in DOMAIN f.retired : f.retired[k] > 0}

unexpired(f) ==
    LET keep == {k \in DOMAIN f.retired : f.retired[k] > 0} IN [k \in keep |-> f.retired[k]]

Newest(f) == CHOOSE k \in {f.cur, f.pend} : k >= f.cur /\ k >= f.pend

(* The public status document, and the reader the administration relays it *)
(* through, which accepts nothing else.                                    *)
statusDoc(f) ==
    [kid |-> f.cur, state |-> IF f.pend = NoKey THEN "active" ELSE "pending",
     rotation |-> f.pend, armed |-> f.wait # Unarmed]

readClientKeyStatus(s) ==
    /\ s.kid # NoKey
    /\ s.state = "active" => s.rotation = NoKey /\ ~s.armed
    /\ s.state = "pending" => s.rotation \notin {NoKey, s.kid}

PortalKeyInit(f) ==
    /\ file = f /\ temp = 0 /\ worker = IdleWorker /\ tracked = FALSE /\ ask = NoAsk
    /\ cooled = TRUE /\ sealed = FALSE
    /\ keyEdge = Never /\ flight = Never /\ sso = Never
    /\ sent = [key |-> NoKey, left |-> 0] /\ refused = FALSE

---------------------------------------------------------------------------
(* The writer.  It samples what it will write, puts it into a temporary    *)
(* file and renames that over the state file.                              *)

due(f) == f.pend # NoKey /\ f.wait \in {Unarmed, 0}

(* What the writer does next to the file it has just read.                 *)
NextPhase(op, f) ==
    CASE op = "schedule" /\ f.pend = NoKey -> "stage"
      [] f.pend # NoKey /\ f.wait = Unarmed -> "arm"
      [] f.pend # NoKey /\ f.wait = 0 -> "activate"
      [] OTHER -> "done"

Full(f) == Cardinality(DOMAIN unexpired(f)) >= MaxRetired

Staged(f) ==
    [f EXCEPT !.pend = Newest(f) + 1, !.retired = unexpired(f), !.old = FALSE]

Armed_AtOnce(f, wait) == [f EXCEPT !.wait = 0, !.old = FALSE]
Armed(f, wait) == [f EXCEPT !.wait = wait, !.old = FALSE]

Activated_Forget(f) ==
    [f EXCEPT !.cur = f.pend, !.pend = NoKey, !.wait = Unarmed, !.old = FALSE,
              !.retired = unexpired(f)]

Activated(f) ==
    [f EXCEPT !.cur = f.pend, !.pend = NoKey, !.wait = Unarmed, !.old = FALSE,
              !.retired = [k \in DOMAIN unexpired(f) \cup {f.cur} |->
                             IF k = f.cur THEN Retention ELSE f.retired[k]]]

(* The lock is taken, the file read and the orphans of killed writers      *)
(* removed; a file that does not decode ends the writer.                   *)
Enter ==
    /\ worker.pc = "start"
    /\ temp' = 0
    /\ worker' = [worker EXCEPT !.pc = IF decode(file) THEN NextPhase(worker.op, file) ELSE "failed"]
    /\ UNCHANGED <<file, tracked, ask, cooled, sealed, cacheVars>>

(* Before its clock is read, the writer refuses a rotation whose retired   *)
(* keys would fill the file.                                               *)
WriteTemp ==
    /\ worker.pc \in {"stage", "arm", "activate"} /\ ~worker.written
    /\ IF worker.pc = "stage" /\ Full(file)
       THEN worker' = [worker EXCEPT !.pc = "failed"] /\ UNCHANGED temp
       ELSE /\ worker.pc = "stage" => Newest(file) < MaxKey
            /\ worker' = [worker EXCEPT !.written = TRUE, !.wait = Propagation]
            /\ temp' = temp + 1
    /\ UNCHANGED <<file, tracked, ask, cooled, sealed, cacheVars>>

(* publish: the rename, and the file read again for the next phase.  After *)
(* a stage the arm follows, never in the same write.                       *)
Rename(phase, f) ==
    /\ worker.pc = phase /\ worker.written
    /\ file' = f
    /\ temp' = temp - 1
    /\ worker' = [worker EXCEPT !.pc = NextPhase("reconcile", f), !.written = FALSE, !.wait = Unarmed]
    /\ UNCHANGED <<tracked, ask, cooled, sealed, cacheVars>>

applyClientKeyOperationLocked ==
    \/ Enter
    \/ WriteTemp
    \/ Rename("stage", Staged(file))
    \/ Rename("arm", Armed(file, worker.wait))
    \/ Rename("activate", Activated(file))

(* The twelve-second timeout, killClientKeyWorkers, or a failing disk.     *)
Killed ==
    /\ worker.pc \notin {"idle", "done", "failed"}
    /\ worker' = [worker EXCEPT !.pc = "failed", !.written = FALSE]
    /\ UNCHANGED <<file, temp, tracked, ask, cooled, sealed, cacheVars>>

---------------------------------------------------------------------------
(* The portal's side of it.                                                *)

Spawn(op) == worker' = [op |-> op, pc |-> "start", written |-> FALSE, wait |-> Unarmed] /\ tracked' = TRUE

(* mutate: one writer per file; whoever finds one running waits for it.  A *)
(* rotation that finds a reconcile without a pending key must run again.   *)
mutate(op) ==
    /\ ~sealed
    /\ IF tracked THEN UNCHANGED <<worker, tracked>> ELSE worker.pc = "idle" /\ Spawn(op)

scheduleClientKeyRotation ==
    /\ ask.state = "none" /\ decode(file)
    /\ mutate("schedule")
    /\ ask' = [state |-> IF tracked THEN "joined" ELSE "waiting", cur |-> file.cur,
               pending |-> file.pend # NoKey, shared |-> tracked /\ worker.op = "schedule"]
    /\ UNCHANGED <<file, temp, cooled, sealed, cacheVars>>

getClientKeyStatus ==
    /\ ~tracked /\ decode(file)
    /\ mutate("reconcile")
    /\ UNCHANGED <<file, temp, ask, cooled, sealed, cacheVars>>

(* /internal/rotate-client-key, for a token not seen before; everything    *)
(* else is answered without a change.                                      *)
createClientKeyRouter(method) ==
    \/ method = "POST" /\ scheduleClientKeyRotation
    \/ method = "GET" /\ getClientKeyStatus

(* The administration's two requests to it; the second is a poll.          *)
rotateRelay == createClientKeyRouter("POST")
statusRelay == createClientKeyRouter("GET")

(* A caller that joined a running reconcile although no key was pending    *)
(* runs mutate again, and is then the one that waits.                      *)
Rerun_Not == FALSE
Rerun == ask.state = "joined" /\ worker.op = "reconcile" /\ ~ask.pending

(* The writer's exit.  A success answers whoever waited for it.            *)
Close ==
    /\ worker.pc \in {"done", "failed"}
    /\ LET ok == worker.pc = "done"
           again == ok /\ tracked /\ Rerun
       IN /\ cooled' = (cooled /\ (ok \/ worker.op = "schedule"))
          /\ IF again /\ ~sealed
             THEN Spawn("schedule") /\ ask' = [ask EXCEPT !.state = "waiting"]
             ELSE /\ worker' = IdleWorker /\ tracked' = FALSE
                  /\ ask' = IF tracked /\ ask.state \in {"waiting", "joined"}
                            THEN IF ok /\ ~again THEN [ask EXCEPT !.state = "answered"] ELSE NoAsk
                            ELSE ask
    /\ UNCHANGED <<file, temp, sealed, cacheVars>>

(* The answer has left; so has a caller whose relay gave up after 5 s.     *)
Answered ==
    /\ ask.state # "none"
    /\ ask' = NoAsk
    /\ UNCHANGED <<file, temp, worker, tracked, cooled, sealed, cacheVars>>

(* Signing never waits: it uses the durable signer and starts a due        *)
(* reconcile behind its back.                                              *)
selectClientSigningKey ==
    /\ sent.key = NoKey /\ decode(file)
    /\ sent' = [key |-> file.cur, left |-> AssertionTtl]
    /\ IF due(file) /\ cooled /\ ~sealed /\ ~tracked /\ worker.pc = "idle"
       THEN Spawn("reconcile")
       ELSE UNCHANGED <<worker, tracked>>
    /\ UNCHANGED <<file, temp, ask, cooled, sealed, keyEdge, flight, sso, refused>>

stopClientKeyWorkers ==
    /\ ~sealed
    /\ sealed' = TRUE
    /\ UNCHANGED <<file, temp, worker, tracked, ask, cooled, cacheVars>>

(* A portal that stopped without waiting leaves its writer running.        *)
PortalRestart ==
    /\ tracked' = FALSE /\ sealed' = FALSE /\ ask' = NoAsk /\ cooled' = TRUE
    /\ UNCHANGED <<file, temp, worker, cacheVars>>

---------------------------------------------------------------------------
(* The published key set on its way to the SSO.                            *)

PortalDown == ~decode(file)

(* getClientPublicJwks behind the HTTP caches: a copy that is still valid, *)
(* or the projection of the file as it is now.                             *)
ServeSet(set) ==
    \/ set = keyEdge /\ keyEdge # Never /\ UNCHANGED keyEdge
    \/ ~PortalDown /\ set = [keys |-> projection(file), age |-> 0] /\ keyEdge' = set

(* reload starts: verifications that come meanwhile share this fetch.      *)
fetchClientJwks ==
    /\ flight = Never /\ sso.age > 0
    /\ \E set \in {keyEdge, [keys |-> projection(file), age |-> 0]} :
         ServeSet(set) /\ flight' = [keys |-> set.keys, age |-> 0]
    /\ UNCHANGED <<file, writerVars, sso, sent, refused>>

(* reload ends.  A failed fetch leaves the saved set as it was.            *)
reload(ok) ==
    /\ flight # Never
    /\ sso' = IF ok THEN [keys |-> flight.keys, age |-> 0] ELSE sso
    /\ flight' = Never

FetchFailed == reload(FALSE) /\ UNCHANGED <<file, writerVars, keyEdge, sent, refused>>
FetchedAlone == reload(TRUE) /\ UNCHANGED <<file, writerVars, keyEdge, sent, refused>>

fresh == sso.age < FreshFor
coolingDown == sso.age < Cooling

(* The cached set while it is fresh; an unknown key ID causes one *)
(* more fetch unless the set is very young.  After a failed fetch the      *)
(* answer is that keys are unavailable; stale keys are never used.         *)
resolve(kid) ==
    \/ /\ fresh /\ (kid \in sso.keys \/ coolingDown)
       /\ refused' = (kid \notin sso.keys)
       /\ UNCHANGED <<flight, sso>>
    \/ /\ ~fresh \/ (kid \notin sso.keys /\ ~coolingDown)
       /\ \/ reload(FALSE) /\ refused' = FALSE
          \/ reload(TRUE) /\ refused' = (kid \notin sso'.keys)

assertedClient ==
    /\ sent.key # NoKey
    /\ resolve(sent.key)
    /\ sent' = [key |-> NoKey, left |-> 0]
    /\ UNCHANGED <<file, writerVars, keyEdge>>

---------------------------------------------------------------------------
Older(n, max) == IF n < max THEN n + 1 ELSE max
Sooner(n) == IF n > 0 THEN n - 1 ELSE n
Aged(c) == IF c.age >= FreshFor - 1 THEN Never ELSE [c EXCEPT !.age = c.age + 1]

(* A tick: every deadline comes nearer.  Nothing waits for the clock but a *)
(* fetch, which ends within its timeout.                                   *)
KeyTick ==
    /\ flight # Never => flight.age < Transport
    /\ file' = [file EXCEPT !.wait = Sooner(file.wait),
                            !.retired = IF file.old THEN file.retired
                                        ELSE [k \in DOMAIN file.retired |-> Sooner(file.retired[k])]]
    /\ worker' = [worker EXCEPT !.wait = Sooner(worker.wait)]
    /\ keyEdge' = IF keyEdge = Never \/ keyEdge.age + 1 >= EdgeTtl THEN Never
                  ELSE [keyEdge EXCEPT !.age = keyEdge.age + 1]
    /\ flight' = IF flight = Never THEN Never ELSE [flight EXCEPT !.age = flight.age + 1]
    /\ sso' = Aged(sso)
    /\ sent' = IF sent.left = 0 THEN [key |-> NoKey, left |-> 0]
               ELSE [sent EXCEPT !.left = sent.left - 1]
    /\ cooled' = TRUE
    /\ UNCHANGED <<temp, tracked, ask, sealed, refused>>

PortalKeyNext ==
    \/ applyClientKeyOperationLocked \/ Killed \/ Close \/ Answered
    \/ rotateRelay \/ statusRelay \/ selectClientSigningKey
    \/ stopClientKeyWorkers \/ PortalRestart
    \/ fetchClientJwks \/ FetchFailed \/ FetchedAlone \/ assertedClient
    \/ KeyTick

(* A file as writers leave it: keys are numbered as they are generated, and *)
(* a key is staged only where the signer still has room to retire.         *)
WrittenBefore(f) ==
    /\ decode(f)
    /\ \A k \in DOMAIN f.retired : k < f.cur
    /\ f.pend # NoKey => f.cur < f.pend /\ ~Full(f)

PortalKeySpec ==
    /\ \E f \in KeyFile : WrittenBefore(f) /\ PortalKeyInit(f)
    /\ [][PortalKeyNext]_keyVars

---------------------------------------------------------------------------
(* One temporary file at most is left behind by killed writers, and the    *)
(* file every reader depends on still decodes and reports its state.       *)
PortalKeyTypeOK ==
    /\ file \in KeyFile /\ decode(file) /\ readClientKeyStatus(statusDoc(file))
    /\ temp \in 0..1
    /\ sso.age \in 0..FreshFor /\ flight.age \in 0..FreshFor /\ keyEdge.age \in 0..FreshFor
    /\ refused \in BOOLEAN

(* Whatever was killed, cached or delayed: an assertion the portal signed  *)
(* with its durable key is never refused for an unknown key                *)
(* (clientKeys.ts resolve, client-key-state.ts arm).  And a rotation       *)
(* request that is answered has led to a rotation: a key is pending, or    *)
(* the signer is no longer the one the caller saw (mutate).  One that      *)
(* joined another request's writer is answered with it, and that writer    *)
(* may have activated its key before.                                      *)
RotationSafe ==
    /\ ~refused
    /\ ask.state = "answered" /\ ~ask.shared => file.pend # NoKey \/ file.cur # ask.cur
=============================================================================
