------------------------- MODULE SigningKeysProofs --------------------------
(***************************************************************************)
(* Proofs about SigningKeys, for any number of processes, verifiers and    *)
(* keys and for every choice of the ages and windows that satisfies        *)
(* TimingAssumption.                                                       *)
(***************************************************************************)
EXTENDS SigningKeys, TLAPS

USE TimingAssumption

LEMMA NowForward == ASSUME [Next]_vars, now \in Nat
                    PROVE  now' \in Nat /\ now <= now' /\ 0..now \subseteq 0..now'
<1>1. now' \in Nat /\ now <= now'
  BY DEF Next, vars, Rotate, Serve, bootstrap, schedule, current, reread, arm, activate,
         skipReconcile, sign, crash, startRead, finishRead, edgeStores, fetch, Tick
<1>2. QED
  BY <1>1

-----------------------------------------------------------------------------
(* Types.                                                                  *)

LEMMA InitTyped == Init => TypeOK
BY DEF Init, TypeOK, KeySets, Kids

\* Whatever Published contains is a key: what a read snapshots is a key set.
LEMMA PublishedIsKeys == Published \subseteq Kids
BY DEF Published

LEMMA RotateTyped == ASSUME TypeOK, NEW p \in Processes, Rotate(p)
                     PROVE  TypeOK'
<1>1. CASE UNCHANGED now
  <2>0. KeySets' = KeySets
    BY <1>1 DEF KeySets
  <2>c. ASSUME Changed(p) PROVE cache' \in [Origins -> SUBSET KeySets]
    BY <2>c DEF Changed, TypeOK
  <2>1. CASE bootstrap(p)
    BY <2>0, <2>1, <2>c DEF bootstrap, TypeOK, Kids, signerVars
  <2>2. CASE schedule(p)
    <3>1. kids' \in 0..MaxKid /\ status' \in [Kids -> {"none", "next", "current", "retired"}]
          /\ target' \in [Processes -> Kids \cup {None}]
      <4>1. CASE publish(p)
        <5>1. PICK k \in Int : k = IF kids = 0 THEN 2 ELSE kids + 1
          BY DEF TypeOK
        <5>2. k <= MaxKid /\ k \in Kids
          BY <4>1, <5>1 DEF publish, TypeOK, Kids
        <5>3. QED
          BY <4>1, <5>1, <5>2 DEF publish, TypeOK
      <4>2. CASE (\E k \in With("next") : target' = [target EXCEPT ![p] = k])
                 /\ UNCHANGED <<kids, status>>
        BY <4>2 DEF TypeOK, With
      <4>3. QED
        BY <2>2, <4>1, <4>2 DEF schedule
    <3>2. since' \in [Processes -> 0..now] /\ pc' \in [Processes -> {"idle", "arm", "maintain", "reread", "selected"}]
      BY <2>2 DEF schedule, TypeOK
    <3>3. cache' \in [Origins -> SUBSET KeySets]
      BY <2>2, <2>c DEF schedule
    <3>4. QED
      BY <2>0, <2>2, <3>1, <3>2, <3>3 DEF schedule, TypeOK
  <2>3. CASE current(p)
    BY <2>0, <2>3 DEF current, select, With, TypeOK, tableVars
  <2>4. CASE reread(p)
    BY <2>0, <2>4 DEF reread, select, With, TypeOK, tableVars
  <2>5. CASE arm(p)
    <3>1. publishedAt' \in [Kids -> SUBSET (0..now)]
      <4>1. PICK t \in since[p]..now : publishedAt' = [publishedAt EXCEPT ![target[p]] = {t}]
        BY <2>5 DEF arm
      <4>2. {t} \in SUBSET (0..now)
        BY DEF TypeOK
      <4>3. QED
        BY <4>1, <4>2 DEF TypeOK
    <3>2. cache' \in [Origins -> SUBSET KeySets]
      BY <2>5, <2>c DEF arm
    <3>3. QED
      BY <2>0, <2>5, <3>1, <3>2 DEF arm, AfterReconcile, TypeOK
  <2>6. CASE activate(p)
    BY <2>0, <2>6, <2>c DEF activate, Promoted, AfterReconcile, TypeOK
  <2>7. CASE skipReconcile(p)
    BY <2>0, <2>7 DEF skipReconcile, AfterReconcile, TypeOK, tableVars
  <2>8. CASE sign(p)
    <3>1. signed' \in [Kids -> SUBSET (0..now)]
      <4>1. {now} \in SUBSET (0..now)
        BY DEF TypeOK
      <4>2. QED
        BY <2>8, <4>1 DEF sign, TypeOK
    <3>2. QED
      BY <2>0, <2>8, <3>1 DEF sign, Idle, TypeOK, tableVars
  <2>9. CASE crash(p)
    BY <2>0, <2>9, <2>c DEF crash, Idle, TypeOK, tableVars
  <2>10. QED
    BY <2>1, <2>2, <2>3, <2>4, <2>5, <2>6, <2>7, <2>8, <2>9 DEF Rotate
<1>2. QED
  BY <1>1 DEF Rotate, bootstrap, schedule, current, reread, arm, activate, skipReconcile,
              sign, crash

LEMMA ServeTyped == ASSUME TypeOK, NEW p \in Origins, Serve(p)
                    PROVE  TypeOK'
<1>1. UNCHANGED now
  BY DEF Serve, startRead, finishRead, edgeStores
<1>2. KeySets' = KeySets
  BY <1>1 DEF KeySets
<1>3. CASE startRead(p)
  <2>1. [keys |-> Published, at |-> now] \in KeySets
    BY PublishedIsKeys DEF KeySets, TypeOK
  <2>2. QED
    BY <1>1, <1>2, <1>3, <2>1 DEF startRead, TypeOK, tableVars, signerVars
<1>4. CASE finishRead(p)
  <2>1. cache' \in [Origins -> SUBSET KeySets]
    BY <1>4 DEF finishRead, TypeOK, KeySets, CachedAt
  <2>2. QED
    BY <1>1, <1>2, <1>4, <2>1 DEF finishRead, TypeOK, tableVars, signerVars
<1>5. CASE edgeStores(p)
  <2>1. edge' \in SUBSET KeySets
    BY <1>5 DEF edgeStores, TypeOK, KeySets
  <2>2. QED
    BY <1>1, <1>2, <1>5, <2>1 DEF edgeStores, TypeOK, tableVars, signerVars
<1>6. QED
  BY <1>3, <1>4, <1>5 DEF Serve

LEMMA FetchTyped == ASSUME TypeOK, NEW v \in Verifiers, fetch(v)
                    PROVE  TypeOK'
<1>1. KeySets' = KeySets
  BY DEF KeySets, fetch
<1>2. fetched' \in [Verifiers -> SUBSET KeySets]
  BY DEF fetch, Responses, TypeOK, KeySets
<1>3. QED
  BY <1>1, <1>2 DEF fetch, TypeOK, tableVars, signerVars

LEMMA TickTyped == ASSUME TypeOK, Tick
                   PROVE  TypeOK'
<1>1. now' \in Nat /\ 0..now \subseteq 0..now' /\ KeySets \subseteq KeySets'
  BY DEF Tick, TypeOK, KeySets
<1>2. /\ publishedAt' \in [Kids -> SUBSET (0..now')]
      /\ retiredAt' \in [Kids -> 0..now']
      /\ since' \in [Processes -> 0..now']
      /\ signed' \in [Kids -> SUBSET (0..now')]
  BY <1>1 DEF Tick, TypeOK, tableVars, signerVars
<1>3. /\ reading' \in [Origins -> SUBSET KeySets']
      /\ cache' \in [Origins -> SUBSET KeySets']
      /\ edge' \in SUBSET KeySets'
      /\ fetched' \in [Verifiers -> SUBSET KeySets']
  BY <1>1 DEF Tick, Fresh, TypeOK
<1>4. QED
  BY <1>1, <1>2, <1>3 DEF Tick, TypeOK, tableVars, signerVars

LEMMA NextTyped == TypeOK /\ [Next]_vars => TypeOK'
<1> SUFFICES ASSUME TypeOK, [Next]_vars PROVE TypeOK'
  OBVIOUS
<1>1. CASE UNCHANGED vars
  BY <1>1 DEF vars, tableVars, signerVars, TypeOK, KeySets
<1>2. QED
  BY <1>1, RotateTyped, ServeTyped, FetchTyped, TickTyped DEF Next

(* The tables, the processes and the caches hold what they are declared to *)
(* hold, key sets never dated in the future.                               *)
THEOREM TypeCorrect == Spec => []TypeOK
BY InitTyped, NextTyped, PTL DEF Spec

-----------------------------------------------------------------------------
(* The table: one signer, at most one pending key, keys numbered as they   *)
(* are made, and none that signs before its window is over.                *)

Signing(k) == status[k] \in {"current", "retired"}

TableInv ==
    /\ \A k \in Kids : status[k] = "none" <=> k > kids
    /\ \A k \in Kids : status[k] = "none" => publishedAt[k] = {}
    /\ \A k \in Kids : Signing(k) => \A a \in publishedAt[k] : a + Window <= now
    /\ OneSigner

\* A process maintains a key of the table, and signs soon with one that was
\* current when it looked.
ProcessInv ==
    \A p \in Processes :
        /\ pc[p] \in {"arm", "maintain"} => target[p] \in Kids /\ status[target[p]] # "none"
        /\ pc[p] = "selected" =>
             /\ signer[p] \in Kids
             /\ Signing(signer[p])
             /\ now <= since[p] + SignLag
             /\ status[signer[p]] = "retired" => since[p] <= retiredAt[signer[p]] + CommitLag

\* A token that is still valid was signed by a key that was current not long
\* before.
TokenInv ==
    \A k \in Kids : \A t \in signed[k] :
        /\ Signing(k)
        /\ now <= t + TokenLife
        /\ status[k] = "retired" => t <= retiredAt[k] + CommitLag + SignLag

LEMMA TableStep == ASSUME TypeOK, TypeOK', TableInv, ProcessInv, [Next]_vars
                   PROVE  TableInv'
<1>u. CASE UNCHANGED <<kids, status, publishedAt>> /\ now' \in Nat /\ now <= now'
  <2>1. OneSigner'
    BY <1>u DEF TableInv, OneSigner, With
  <2>2. \A k \in Kids : Signing(k)' => \A a \in publishedAt'[k] : a + Window <= now'
    <3> SUFFICES ASSUME NEW k \in Kids, Signing(k)', NEW a \in publishedAt[k]
                 PROVE  a + Window <= now'
      BY <1>u
    <3>1. a \in Nat /\ a + Window <= now
      BY <1>u DEF TableInv, Signing, TypeOK
    <3>2. QED
      BY <1>u, <3>1 DEF TypeOK
  <2>3. QED
    BY <1>u, <2>1, <2>2 DEF TableInv
<1>1. ASSUME NEW p \in Processes, bootstrap(p) PROVE TableInv'
  <2>1. /\ 1 \in Kids /\ kids = 0 /\ kids' = 1 /\ now' = now
        /\ status' = [status EXCEPT ![1] = "current"] /\ publishedAt' = publishedAt
    BY <1>1 DEF bootstrap, Kids
  <2>2. \A k \in Kids : status[k] = "none" /\ publishedAt[k] = {}
    BY <2>1 DEF TableInv, Kids
  <2>3. OneSigner'
    <3>1. \A k \in Kids : status'[k] = IF k = 1 THEN "current" ELSE "none"
      BY <2>1, <2>2 DEF TypeOK
    <3>2. With("current")' = {1} /\ With("next")' = {}
      BY <2>1, <3>1 DEF With
    <3> QED BY <2>1, <3>2 DEF OneSigner
  <2>4. QED
    BY <2>1, <2>2, <2>3 DEF TableInv, TypeOK, Signing, Kids
<1>2. ASSUME NEW p \in Processes, schedule(p), publish(p) PROVE TableInv'
  <2>1. PICK n \in Int : n = IF kids = 0 THEN 2 ELSE kids + 1
    BY DEF TypeOK
  <2>2. /\ n \in Kids /\ kids' = n /\ publishedAt' = publishedAt /\ now' = now
        /\ status' = [c \in Kids |-> IF c = n THEN "next"
                                     ELSE IF kids = 0 /\ c = 1 THEN "current" ELSE status[c]]
        /\ With("next") = {}
    BY <1>2, <2>1 DEF schedule, publish, NoPendingKey, TypeOK, Kids
  <2>3. status[n] = "none" /\ publishedAt[n] = {} /\ n # 1
    BY <2>1, <2>2 DEF TableInv, TypeOK, Kids
  <2>4. kids = 0 => 1 \in Kids /\ \A k \in Kids : status[k] = "none" /\ publishedAt[k] = {}
    BY <2>1, <2>2 DEF TableInv, TypeOK, Kids
  <2>5. OneSigner'
    <3>1. CASE kids = 0
      BY <2>1, <2>2, <2>3, <2>4, <3>1 DEF OneSigner, With
    <3>2. CASE kids # 0
      <4>1. With("current")' = With("current")
        BY <2>2, <2>3, <3>2 DEF With
      <4>2. \A j, k \in With("next")' : j = k
        BY <2>2, <3>2 DEF With
      <4>3. QED
        BY <3>2, <4>1, <4>2 DEF OneSigner, TableInv, TypeOK
    <3>3. QED
      BY <3>1, <3>2
  <2>6. \A k \in Kids : status'[k] = "none" <=> k > kids'
    BY <2>1, <2>2, <2>3, <2>4 DEF TableInv, TypeOK, Kids
  <2>7. \A k \in Kids : status'[k] = "none" => publishedAt'[k] = {}
    BY <2>2, <2>3 DEF TableInv
  <2>8. \A k \in Kids : Signing(k)' => \A a \in publishedAt'[k] : a + Window <= now'
    BY <2>2, <2>3, <2>4 DEF TableInv, Signing
  <2>9. QED
    BY <2>5, <2>6, <2>7, <2>8 DEF TableInv
<1>3. ASSUME NEW p \in Processes, arm(p) PROVE TableInv'
  BY <1>3 DEF arm, TableInv, ProcessInv, OneSigner, With, Signing, TypeOK
<1>4. ASSUME NEW p \in Processes, activate(p) PROVE TableInv'
  <2>1. PICK t \in since[p]..now : MayActivate(target[p], t)
    BY <1>4 DEF activate
  <2>2. target[p] \in Kids /\ status[target[p]] = "next"
    BY <1>4, <2>1 DEF activate, ProcessInv, MayActivate
  <2>3. UNCHANGED <<now, kids, publishedAt>> /\ status' = Promoted(target[p])
    BY <1>4 DEF activate
  <2>4. OneSigner'
    <3>1. With("current")' = {target[p]}
      BY <2>2, <2>3 DEF With, Promoted
    <3>2. With("next")' \subseteq With("next")
      BY <2>2, <2>3 DEF With, Promoted
    <3>3. QED
      BY <2>2, <3>1, <3>2 DEF OneSigner, TableInv
  <2>5. \A k \in Kids : Signing(k)' => Signing(k) \/ k = target[p]
    BY <2>2, <2>3 DEF Signing, Promoted
  <2>6. \A a \in publishedAt[target[p]] : a + Window <= now
    BY <2>1, <2>2 DEF MayActivate, WindowOver, TypeOK
  <2>7. QED
    BY <2>2, <2>3, <2>4, <2>5, <2>6 DEF TableInv, Promoted
<1>5. QED
  BY <1>u, <1>1, <1>2, <1>3, <1>4
  DEF Next, vars, Rotate, Serve, schedule, current, reread, skipReconcile, sign, crash,
      startRead, finishRead, edgeStores, fetch, Tick, tableVars, TypeOK

\* The table only moves forward, except for the moment and the key at which
\* a current key retires.
LEMMA StatusForward == ASSUME TypeOK, ProcessInv, TableInv, [Next]_vars, NEW k \in Kids
                       PROVE  /\ status[k] = "next" => status'[k] \in {"next", "current"}
                              /\ status[k] = "current" => status'[k] \in {"current", "retired"}
                              /\ status[k] = "retired" =>
                                   status'[k] = "retired" /\ retiredAt'[k] = retiredAt[k]
                              /\ status[k] = "current" /\ status'[k] = "retired" =>
                                   now <= retiredAt'[k] + CommitLag /\ now' = now
<1>u. CASE UNCHANGED <<status, retiredAt>>
  BY <1>u DEF TypeOK
<1>1. ASSUME NEW p \in Processes, bootstrap(p) PROVE UNCHANGED retiredAt /\ kids = 0
                                      /\ status' = [status EXCEPT ![1] = "current"]
  BY <1>1 DEF bootstrap
<1>2. ASSUME NEW p \in Processes, schedule(p), publish(p)
      PROVE  UNCHANGED retiredAt /\ \A c \in Kids : status[c] # "none" => status'[c] = status[c]
  BY <1>2 DEF schedule, publish, TypeOK, TableInv, Kids
<1>4. ASSUME NEW p \in Processes, activate(p)
      PROVE /\ target[p] \in Kids /\ status[target[p]] = "next"
            /\ status' = Promoted(target[p]) /\ now' = now
            /\ \E t \in since[p]..now :
                 /\ now <= t + CommitLag
                 /\ retiredAt' = [c \in Kids |-> IF status[c] = "current" THEN t ELSE retiredAt[c]]
  BY <1>4 DEF activate, MayActivate, ProcessInv
<1>5. \/ UNCHANGED <<status, retiredAt>>
      \/ \E p \in Processes : bootstrap(p) \/ (schedule(p) /\ publish(p)) \/ activate(p)
  BY DEF Next, vars, Rotate, Serve, schedule, current, reread, arm, skipReconcile, sign, crash,
         startRead, finishRead, edgeStores, fetch, Tick, tableVars
<1>6. CASE \E p \in Processes : bootstrap(p)
  BY <1>1, <1>6 DEF TableInv, TypeOK, Kids
<1>7. CASE \E p \in Processes : schedule(p) /\ publish(p)
  BY <1>2, <1>7
<1>8. CASE \E p \in Processes : activate(p)
  BY <1>4, <1>8 DEF Promoted
<1>9. QED
  BY <1>u, <1>5, <1>6, <1>7, <1>8

\* A key that signs goes on being one that signs.
LEMMA SigningForward == ASSUME TypeOK, ProcessInv, TableInv, [Next]_vars, NEW k \in Kids
                        PROVE  /\ Signing(k) => Signing(k)'
                               /\ status[k] # "none" => status'[k] # "none"
BY StatusForward DEF Signing, TypeOK

LEMMA ProcessStep == ASSUME TypeOK, TypeOK', TableInv, ProcessInv, [Next]_vars
                     PROVE  ProcessInv'
<1> SUFFICES ASSUME NEW p \in Processes
             PROVE  /\ pc'[p] \in {"arm", "maintain"} =>
                         target'[p] \in Kids /\ status'[target'[p]] # "none"
                    /\ pc'[p] = "selected" =>
                         /\ signer'[p] \in Kids
                         /\ Signing(signer[p])'
                         /\ now' <= since'[p] + SignLag
                         /\ status'[signer'[p]] = "retired" =>
                              since'[p] <= retiredAt'[signer'[p]] + CommitLag
  BY DEF ProcessInv
\* What another process, a cache or the clock does leaves p where it was.
<1>1. CASE /\ pc'[p] = pc[p] /\ target'[p] = target[p] /\ signer'[p] = signer[p]
           /\ since'[p] = since[p]
           /\ now' = now \/ Tick
  <2>1. CASE pc[p] \in {"arm", "maintain"}
    BY <1>1, <2>1, SigningForward DEF ProcessInv
  <2>2. CASE pc[p] = "selected"
    <3>0. PICK k \in Kids : k = signer[p]
      BY <2>2 DEF ProcessInv
    <3>1. signer[p] \in Kids /\ Signing(k)' /\ since[p] \in Nat
          /\ since[p] <= now /\ now <= since[p] + SignLag
      BY <2>2, <3>0, SigningForward DEF ProcessInv, TypeOK
    <3>2. now' <= since[p] + SignLag
      BY <1>1, <2>2, <3>1 DEF Tick, TypeOK
    <3>3. status'[signer[p]] = "retired" => since[p] <= retiredAt'[signer[p]] + CommitLag
      <4>1. CASE status[signer[p]] = "retired"
        BY <2>2, <3>1, <4>1, StatusForward DEF ProcessInv
      <4>2. CASE status[signer[p]] = "current"
        <5> SUFFICES ASSUME status'[signer[p]] = "retired"
                     PROVE  since[p] <= retiredAt'[signer[p]] + CommitLag
          OBVIOUS
        <5>1. now <= retiredAt'[signer[p]] + CommitLag
          BY <3>1, <4>2, StatusForward
        <5>2. retiredAt'[signer[p]] \in Nat /\ now \in Nat
          BY <3>1 DEF TypeOK
        <5>3. QED
          BY <3>1, <5>1, <5>2
      <4>3. QED
        BY <2>2, <4>1, <4>2 DEF ProcessInv, Signing
    <3>4. QED
      BY <1>1, <2>2, <3>0, <3>1, <3>2, <3>3 DEF Signing
  <2>3. QED
    BY <1>1, <2>1, <2>2
<1>2. CASE pc'[p] \in {"idle", "reread"}
  BY <1>2
<1>3. CASE schedule(p)
  <2>1. pc'[p] = "arm" /\ target'[p] \in Kids /\ status'[target'[p]] = "next"
    <3>1. CASE publish(p)
      <4>1. PICK n \in Int : n = IF kids = 0 THEN 2 ELSE kids + 1
        BY DEF TypeOK
      <4>2. n \in Kids /\ target' = [target EXCEPT ![p] = n] /\ status'[n] = "next"
        BY <3>1, <4>1 DEF publish, TypeOK, Kids
      <4>3. QED
        BY <1>3, <4>2 DEF schedule, TypeOK
    <3>2. CASE (\E k \in With("next") : target' = [target EXCEPT ![p] = k])
               /\ UNCHANGED <<kids, status>>
      BY <1>3, <3>2 DEF schedule, With, TypeOK
    <3>3. QED
      BY <1>3, <3>1, <3>2 DEF schedule
  <2>2. QED
    BY <2>1
<1>4. CASE current(p) \/ reread(p)
  <2>1. CASE select(p)
    <3>1. PICK k \in Kids : status[k] = "current" /\ signer' = [signer EXCEPT ![p] = k]
                            /\ since' = [since EXCEPT ![p] = now]
                            /\ pc' = [pc EXCEPT ![p] = "selected"]
      BY <2>1 DEF select, With
    <3>2. status' = status /\ now' = now
      BY <1>4 DEF current, reread, tableVars
    <3>3. QED
      BY <3>1, <3>2 DEF Signing, TypeOK
  <2>2. CASE ~select(p)
    BY <1>4, <2>2 DEF current, reread, NeedsMaintenance, tableVars, TypeOK
  <2>3. QED
    BY <2>1, <2>2
<1>5. \/ schedule(p) \/ current(p) \/ reread(p)
      \/ pc'[p] \in {"idle", "reread"}
      \/ /\ pc'[p] = pc[p] /\ target'[p] = target[p] /\ signer'[p] = signer[p]
         /\ since'[p] = since[p]
         /\ now' = now \/ Tick
  <2>1. ASSUME NEW q \in Processes, q # p, Rotate(q)
        PROVE  /\ pc'[p] = pc[p] /\ target'[p] = target[p] /\ signer'[p] = signer[p]
               /\ since'[p] = since[p] /\ now' = now
    BY <2>1 DEF Rotate, bootstrap, schedule, publish, current, reread, select, arm, activate,
                skipReconcile, sign, crash, AfterReconcile, Idle, signerVars, TypeOK
  <2>2. CASE Rotate(p)
    BY <2>2 DEF Rotate, bootstrap, arm, activate, skipReconcile, sign, crash, AfterReconcile,
                Idle, signerVars, TypeOK
  <2>3. CASE UNCHANGED signerVars
    BY <2>3, NowForward DEF signerVars, Next, vars, Rotate, Serve, bootstrap, schedule, current,
         reread, arm, activate, skipReconcile, sign, crash, startRead, finishRead, edgeStores,
         fetch
  <2>4. QED
    BY <2>1, <2>2, <2>3 DEF Next, vars, Serve, startRead, finishRead, edgeStores, fetch, Tick
<1>6. QED
  BY <1>1, <1>2, <1>3, <1>4, <1>5

LEMMA TokenStep == ASSUME TypeOK, TypeOK', TableInv, ProcessInv, TokenInv, [Next]_vars
                   PROVE  TokenInv'
<1> SUFFICES ASSUME NEW k \in Kids, NEW t \in signed'[k]
             PROVE  /\ Signing(k)'
                    /\ now' <= t + TokenLife
                    /\ status'[k] = "retired" => t <= retiredAt'[k] + CommitLag + SignLag
  BY DEF TokenInv
<1>0. t \in Nat /\ now \in Nat /\ now' \in Nat /\ retiredAt[k] \in Nat /\ retiredAt'[k] \in Nat
  BY DEF TypeOK
\* A token signed earlier.
<1>1. CASE t \in signed[k] /\ now' <= t + TokenLife
  <2>1. Signing(k) /\ Signing(k)'
    BY <1>1, SigningForward DEF TokenInv
  <2>2. CASE status[k] = "retired"
    BY <1>1, <2>1, <2>2, StatusForward DEF TokenInv
  <2>3. CASE status[k] = "current"
    <3>1. t <= now
      BY <1>1 DEF TypeOK
    <3>2. status'[k] = "retired" => now <= retiredAt'[k] + CommitLag
      BY <2>3, StatusForward
    <3>3. QED
      BY <1>0, <1>1, <2>1, <3>1, <3>2
  <2>4. QED
    BY <2>1, <2>2, <2>3 DEF Signing
\* A token signed by this step.
<1>2. ASSUME NEW p \in Processes, sign(p), k = signer[p]
      PROVE  t = now /\ pc[p] = "selected" /\ UNCHANGED <<now, status, retiredAt>>
  BY <1>2 DEF sign, TypeOK, tableVars
<1>3. ASSUME NEW p \in Processes, sign(p), k = signer[p]
      PROVE  /\ Signing(k)'
             /\ now' <= t + TokenLife
             /\ status'[k] = "retired" => t <= retiredAt'[k] + CommitLag + SignLag
  <2>1. since[p] \in Nat
    BY DEF TypeOK
  <2>2. QED
    BY <1>0, <1>2, <1>3, <2>1 DEF ProcessInv, Signing
<1>4. \/ t \in signed[k] /\ now' <= t + TokenLife
      \/ \E p \in Processes : sign(p) /\ k = signer[p]
  <2>1. CASE Tick
    BY <2>1 DEF Tick
  <2>2. ASSUME UNCHANGED signed, UNCHANGED now PROVE t \in signed[k] /\ now' <= t + TokenLife
    BY <2>2 DEF TokenInv
  <2>3. ASSUME NEW p \in Processes, sign(p) PROVE <1>4!1 \/ k = signer[p]
    BY <2>3 DEF sign, TokenInv, TypeOK
  <2>4. QED
    BY <2>1, <2>2, <2>3
    DEF Next, vars, Rotate, Serve, bootstrap, schedule, current, reread, arm, activate,
        skipReconcile, crash, startRead, finishRead, edgeStores, fetch
<1>5. QED
  BY <1>1, <1>3, <1>4

-----------------------------------------------------------------------------
(* The caches.  Every copy of the key set that is served is young, and a   *)
(* copy without a key is older than the marker of that key by no more than *)
(* what the copy's way through the caches explains.                        *)

CacheInv ==
    /\ \A p \in Origins : \A s \in cache[p] : now < s.at + OriginAge
    /\ \A s \in edge : now < s.at + EdgeAge
    /\ \A v \in Verifiers : \A s, c \in fetched[v] : s = c
    /\ kids = 0 => /\ \A p \in Origins : cache[p] = {} /\ \A s \in reading[p] : s.keys = {}
                   /\ edge = {}
                   /\ \A v \in Verifiers : fetched[v] = {}

\* Every copy taken after time a contains k.
SeenAfter(k, a) ==
    /\ \A p \in Origins : \A s \in reading[p] \cup cache[p] : s.at > a => k \in s.keys
    /\ \A s \in edge : s.at > a + OriginAge - 1 => k \in s.keys
    /\ \A v \in Verifiers : \A s \in fetched[v] :
         s.at > a + OriginAge - 1 + EdgeAge - 1 => k \in s.keys

\* Every copy contains k: the first key, which needs no window.
SeenAlways(k) ==
    /\ \A p \in Origins : \A s \in reading[p] : s.keys = {} \/ k \in s.keys
    /\ \A p \in Origins : \A s \in cache[p] : k \in s.keys
    /\ \A s \in edge : k \in s.keys
    /\ \A v \in Verifiers : \A s \in fetched[v] : k \in s.keys

\* The keys whose tokens, now or later, must verify.
Announced(k) ==
    \/ status[k] = "current"
    \/ status[k] = "next" /\ publishedAt[k] # {}
    \/ status[k] = "retired" /\ now < retiredAt[k] + Retain

SeenInv ==
    /\ \A k \in Kids : Announced(k) =>
         /\ publishedAt[k] = {} => SeenAlways(k)
         /\ \A a \in publishedAt[k] : SeenAfter(k, a)
    /\ \A p \in Processes :
         pc[p] \in {"arm", "maintain"} /\ status[target[p]] = "next" =>
             SeenAfter(target[p], since[p])

\* Where a copy comes from.
LEMMA Flow == ASSUME TypeOK, [Next]_vars
              PROVE  /\ \A p \in Origins : \A s \in reading'[p] :
                          s \in reading[p] \/ (s = [keys |-> Published, at |-> now] /\ now' = now)
                     /\ \A p \in Origins : \A s \in cache'[p] :
                          \/ s \in cache[p] /\ (now' = now \/ now' < s.at + OriginAge)
                          \/ s \in reading[p] /\ s.keys # {} /\ now <= s.at + ReadMax /\ now' = now
                     /\ \A s \in edge' :
                          \/ s \in edge /\ (now' = now \/ now' < s.at + EdgeAge)
                          \/ /\ now' = now
                             /\ \E p \in Origins : \E c \in cache[p] :
                                  s = [keys |-> c.keys, at |-> now]
                     /\ \A v \in Verifiers :
                          \/ fetched'[v] = fetched[v]
                          \/ /\ now' = now
                             /\ \E c \in Responses : fetched'[v] = {[keys |-> c.keys, at |-> now]}
<1>u. CASE UNCHANGED <<now, reading, cache, edge, fetched>>
  BY <1>u
<1>1. ASSUME NEW p \in Processes, Rotate(p)
      PROVE  /\ now' = now /\ edge' = edge /\ fetched' = fetched
             /\ \A q \in Origins : reading'[q] \in {reading[q], {}} /\ cache'[q] \in {cache[q], {}}
  BY <1>1 DEF Rotate, bootstrap, schedule, current, reread, arm, activate, skipReconcile, sign,
              crash, Changed, TypeOK
<1>2. ASSUME NEW p \in Origins, startRead(p)
      PROVE  /\ now' = now /\ edge' = edge /\ fetched' = fetched /\ cache' = cache
             /\ \A q \in Origins : \A s \in reading'[q] :
                  s \in reading[q] \/ s = [keys |-> Published, at |-> now]
  BY <1>2 DEF startRead, TypeOK
<1>3. ASSUME NEW p \in Origins, finishRead(p)
      PROVE  /\ now' = now /\ edge' = edge /\ fetched' = fetched
             /\ \A q \in Origins : \A s \in reading'[q] : s \in reading[q]
             /\ \A q \in Origins : \A s \in cache'[q] :
                  \/ s \in cache[q]
                  \/ s \in reading[q] /\ s.keys # {} /\ now <= s.at + ReadMax
  <2>1. PICK r \in reading[p] :
          cache' = [cache EXCEPT ![p] = IF r.at + ReadMax < now \/ r.keys = {} THEN @
                                        ELSE {[keys |-> r.keys, at |-> r.at]}]
    BY <1>3 DEF finishRead, CachedAt
  <2>2. r = [keys |-> r.keys, at |-> r.at] /\ r.at \in Nat
    BY DEF TypeOK, KeySets
  <2>3. QED
    BY <1>3, <2>1, <2>2 DEF finishRead, TypeOK
<1>4. ASSUME NEW p \in Origins, edgeStores(p)
      PROVE  /\ now' = now /\ fetched' = fetched /\ cache' = cache /\ reading' = reading
             /\ \E c \in cache[p] : edge' = {[keys |-> c.keys, at |-> now]}
  BY <1>4 DEF edgeStores
<1>5. ASSUME NEW v \in Verifiers, fetch(v)
      PROVE  /\ now' = now /\ edge' = edge /\ cache' = cache /\ reading' = reading
             /\ \E c \in Responses : fetched' = [fetched EXCEPT ![v] = {[keys |-> c.keys, at |-> now]}]
  BY <1>5 DEF fetch
<1>6. CASE Tick
  BY <1>6 DEF Tick, Fresh, TypeOK
<1>7. CASE \E p \in Processes : Rotate(p)
  BY <1>1, <1>7
<1>8. CASE \E p \in Origins : Serve(p)
  BY <1>2, <1>3, <1>4, <1>8 DEF Serve
<1>9. CASE \E v \in Verifiers : fetch(v)
  BY <1>5, <1>9 DEF TypeOK
<1>10. QED
  BY <1>u, <1>6, <1>7, <1>8, <1>9 DEF Next, vars

LEMMA CacheStep == ASSUME TypeOK, TypeOK', TableInv, ProcessInv, CacheInv, [Next]_vars
                   PROVE  CacheInv'
<1>0. now \in Nat /\ now' \in Nat
  BY DEF TypeOK
<1>1. \A p \in Origins : \A s \in cache'[p] : now' < s.at + OriginAge
  <2> SUFFICES ASSUME NEW p \in Origins, NEW s \in cache'[p]
               PROVE  now' < s.at + OriginAge
    OBVIOUS
  <2>1. s.at \in Nat
    BY DEF TypeOK, KeySets
  <2>2. QED
    BY <1>0, <2>1, Flow DEF CacheInv
<1>2. \A s \in edge' : now' < s.at + EdgeAge
  BY <1>0, Flow DEF CacheInv
<1>3. \A v \in Verifiers : \A s, c \in fetched'[v] : s = c
  BY Flow DEF CacheInv
<1>4. ASSUME kids' = 0
      PROVE  /\ \A p \in Origins : cache'[p] = {} /\ \A s \in reading'[p] : s.keys = {}
             /\ edge' = {}
             /\ \A v \in Verifiers : fetched'[v] = {}
  <2>1. kids = 0
    BY <1>4 DEF Next, vars, Rotate, Serve, bootstrap, schedule, publish, current, reread, arm,
                activate, skipReconcile, sign, crash, startRead, finishRead, edgeStores, fetch,
                Tick, tableVars, TypeOK
  <2>2. Published = {}
    BY <2>1 DEF Published, TableInv, Kids
  <2>3. Responses = {}
    BY <2>1 DEF Responses, CacheInv
  <2>4. QED
    BY <2>1, <2>2, <2>3, Flow DEF CacheInv
<1>5. QED
  BY <1>1, <1>2, <1>3, <1>4 DEF CacheInv

LEMMA SeenAfterKept == ASSUME TypeOK, CacheInv, [Next]_vars, NEW k \in Published, NEW a \in Nat,
                              SeenAfter(k, a)
                       PROVE  SeenAfter(k, a)'
<1>0. now \in Nat /\ \A p \in Origins : \A s \in reading[p] \cup cache[p] : s.at \in Nat
  BY DEF TypeOK, KeySets
<1>1. \A p \in Origins : \A s \in reading'[p] \cup cache'[p] : s.at > a => k \in s.keys
  BY Flow DEF SeenAfter
\* An entry that may be served is younger than OriginAge: if it lacks k, the
\* response made of it now is not much later than a.
<1>2. \A p \in Origins : \A c \in cache[p] : now > a + OriginAge - 1 => k \in c.keys
  BY <1>0 DEF SeenAfter, CacheInv
<1>3. \A s \in edge' : s.at > a + OriginAge - 1 => k \in s.keys
  BY <1>2, Flow DEF SeenAfter
<1>4. \A c \in Responses : now > a + OriginAge - 1 + EdgeAge - 1 => k \in c.keys
  <2>1. \A s \in edge : s.at \in Nat
    BY DEF TypeOK, KeySets
  <2>2. \A s \in edge : now > a + OriginAge - 1 + EdgeAge - 1 => k \in s.keys
    BY <1>0, <2>1 DEF SeenAfter, CacheInv
  <2>3. QED
    BY <1>0, <1>2, <2>2 DEF Responses
<1>5. \A v \in Verifiers : \A s \in fetched'[v] :
         s.at > a + OriginAge - 1 + EdgeAge - 1 => k \in s.keys
  BY <1>4, Flow DEF SeenAfter
<1>6. QED
  BY <1>1, <1>3, <1>5 DEF SeenAfter

LEMMA SeenAlwaysKept == ASSUME TypeOK, CacheInv, [Next]_vars, NEW k \in Published, SeenAlways(k)
                        PROVE  SeenAlways(k)'
<1>1. \A c \in Responses : k \in c.keys
  BY DEF SeenAlways, Responses
<1>2. /\ \A p \in Origins : \A s \in reading'[p] : s.keys = {} \/ k \in s.keys
      /\ \A p \in Origins : \A s \in cache'[p] : k \in s.keys
  BY Flow DEF SeenAlways
<1>3. /\ \A s \in edge' : k \in s.keys
      /\ \A v \in Verifiers : \A s \in fetched'[v] : k \in s.keys
  BY <1>1, Flow DEF SeenAlways
<1>4. QED
  BY <1>2, <1>3 DEF SeenAlways

LEMMA SeenLater == ASSUME TypeOK, NEW k \in Kids, NEW a \in Nat, NEW b \in Nat, a <= b,
                          SeenAfter(k, a)
                   PROVE  SeenAfter(k, b)
<1>1. /\ \A p \in Origins : \A s \in reading[p] \cup cache[p] : s.at \in Nat
      /\ \A s \in edge : s.at \in Nat
      /\ \A v \in Verifiers : \A s \in fetched[v] : s.at \in Nat
  BY DEF TypeOK, KeySets
<1>2. QED
  BY <1>1 DEF SeenAfter

LEMMA AnnouncedIsPublished == ASSUME NEW k \in Kids, Announced(k) PROVE k \in Published
BY DEF Announced, Published

\* How a key comes to be announced: it was before, it is the first one, or a
\* process arms its window.
LEMMA Announcing ==
    ASSUME TypeOK, TypeOK', TableInv, ProcessInv, [Next]_vars, NEW k \in Kids, Announced(k)'
    PROVE  \/ Announced(k) /\ publishedAt'[k] = publishedAt[k]
           \/ kids = 0 /\ publishedAt'[k] = {}
           \/ \E p \in Processes : arm(p) /\ target[p] = k
<1>0. /\ now \in Nat /\ now' \in Nat /\ now <= now'
      /\ retiredAt[k] \in Nat /\ retiredAt'[k] \in Nat
  BY NowForward DEF TypeOK
<1>u. CASE UNCHANGED tableVars
  BY <1>0, <1>u DEF tableVars, Announced
<1>1. ASSUME NEW p \in Processes, bootstrap(p) PROVE kids = 0 /\ publishedAt'[k] = {}
  BY <1>1 DEF bootstrap, TableInv, Kids
<1>2. ASSUME NEW p \in Processes, schedule(p), publish(p)
      PROVE  \/ kids = 0 /\ publishedAt'[k] = {}
             \/ Announced(k) /\ publishedAt'[k] = publishedAt[k]
  <2>0. /\ publishedAt' = publishedAt /\ retiredAt' = retiredAt /\ now' = now
    BY <1>2 DEF schedule
  <2>1. CASE kids = 0
    BY <2>0, <2>1 DEF TableInv, Kids
  <2>2. CASE kids # 0
    <3>1. /\ kids + 1 \in Kids /\ status[kids + 1] = "none" /\ publishedAt[kids + 1] = {}
          /\ status' = [c \in Kids |-> IF c = kids + 1 THEN "next" ELSE status[c]]
      BY <1>2, <2>2 DEF publish, TableInv, TypeOK, Kids
    <3>2. QED
      BY <2>0, <3>1 DEF Announced
  <2>3. QED
    BY <2>1, <2>2
<1>3. ASSUME NEW p \in Processes, arm(p), target[p] # k
      PROVE  Announced(k) /\ publishedAt'[k] = publishedAt[k]
  BY <1>3 DEF arm, Announced, TypeOK, ProcessInv
<1>4. ASSUME NEW p \in Processes, activate(p)
      PROVE  Announced(k) /\ publishedAt'[k] = publishedAt[k]
  <2>1. PICK t \in since[p]..now :
          /\ MayActivate(target[p], t)
          /\ retiredAt' = [c \in Kids |-> IF status[c] = "current" THEN t ELSE retiredAt[c]]
    BY <1>4 DEF activate
  <2>2. status' = Promoted(target[p]) /\ publishedAt' = publishedAt /\ now' = now
    BY <1>4 DEF activate
  <2>3. QED
    BY <2>1, <2>2 DEF MayActivate, Promoted, Announced
<1>5. \/ UNCHANGED tableVars
      \/ \E p \in Processes :
           bootstrap(p) \/ (schedule(p) /\ publish(p)) \/ arm(p) \/ activate(p)
  BY DEF Next, vars, Rotate, Serve, schedule, current, reread, skipReconcile, sign, crash,
         startRead, finishRead, edgeStores, fetch, Tick, tableVars
<1>6. QED
  BY <1>u, <1>1, <1>2, <1>3, <1>4, <1>5

\* How a process comes to maintain a key: it did before, or it just looked.
LEMMA Learning ==
    ASSUME TypeOK, TypeOK', ProcessInv, [Next]_vars, NEW p \in Processes,
           pc'[p] \in {"arm", "maintain"}
    PROVE  \/ pc[p] \in {"arm", "maintain"} /\ target'[p] = target[p] /\ since'[p] = since[p]
           \/ since'[p] = now /\ now' = now
<1>1. ASSUME NEW q \in Processes, q # p, Rotate(q)
      PROVE  pc'[p] = pc[p] /\ target'[p] = target[p] /\ since'[p] = since[p]
  BY <1>1 DEF Rotate, bootstrap, schedule, publish, current, reread, select, arm, activate,
              skipReconcile, sign, crash, AfterReconcile, Idle, signerVars, TypeOK
<1>2. CASE Rotate(p)
  BY <1>2 DEF Rotate, bootstrap, schedule, publish, current, reread, select, arm, activate,
              skipReconcile, sign, crash, AfterReconcile, Idle, signerVars, TypeOK
<1>3. CASE UNCHANGED signerVars
  BY <1>3 DEF signerVars
<1>4. QED
  BY <1>1, <1>2, <1>3 DEF Next, vars, Serve, startRead, finishRead, edgeStores, fetch, Tick

LEMMA SeenStep == ASSUME TypeOK, TypeOK', TableInv, ProcessInv, CacheInv, SeenInv, [Next]_vars
                  PROVE  SeenInv'
<1>1. ASSUME NEW k \in Kids, Announced(k)'
      PROVE  /\ publishedAt'[k] = {} => SeenAlways(k)'
             /\ \A a \in publishedAt'[k] : SeenAfter(k, a)'
  <2>1. CASE Announced(k) /\ publishedAt'[k] = publishedAt[k]
    <3>1. k \in Published /\ \A a \in publishedAt[k] : a \in Nat
      BY <2>1, AnnouncedIsPublished DEF TypeOK
    <3>2. QED
      BY <2>1, <3>1, SeenAfterKept, SeenAlwaysKept DEF SeenInv
  <2>2. CASE kids = 0 /\ publishedAt'[k] = {}
    <3>1. Published = {} /\ Responses = {}
      BY <2>2 DEF Published, Responses, TableInv, CacheInv, Kids
    <3>2. SeenAlways(k)'
      BY <2>2, <3>1, Flow DEF CacheInv, SeenAlways
    <3>3. QED
      BY <2>2, <3>2
  <2>3. ASSUME NEW p \in Processes, arm(p), target[p] = k
        PROVE  publishedAt'[k] # {} /\ \A a \in publishedAt'[k] : SeenAfter(k, a)'
    <3>1. PICK t \in since[p]..now : publishedAt' = [publishedAt EXCEPT ![k] = {t}]
      BY <2>3 DEF arm
    <3>2. since[p] \in Nat /\ t \in Nat /\ since[p] <= t /\ publishedAt'[k] = {t}
      BY <3>1 DEF TypeOK
    <3>3. SeenAfter(k, since[p]) /\ k \in Published
      BY <2>3 DEF arm, SeenInv, Published
    <3>4. SeenAfter(k, t)
      BY <3>2, <3>3, SeenLater
    <3>5. SeenAfter(k, t)'
      BY <3>2, <3>3, <3>4, SeenAfterKept
    <3>6. QED
      BY <3>2, <3>5
  <2>4. QED
    BY <1>1, <2>1, <2>2, <2>3, Announcing
<1>2. ASSUME NEW p \in Processes, pc'[p] \in {"arm", "maintain"}, status'[target'[p]] = "next"
      PROVE  SeenAfter(target[p], since[p])'
  <2>1. CASE pc[p] \in {"arm", "maintain"} /\ target'[p] = target[p] /\ since'[p] = since[p]
    <3>1. PICK k \in Kids, a \in Nat : k = target[p] /\ a = since[p]
      BY <2>1 DEF ProcessInv, TypeOK
    <3>2. status[k] = "next"
      BY <1>2, <2>1, <3>1, StatusForward DEF ProcessInv, TypeOK
    <3>3. SeenAfter(k, a)'
      BY <2>1, <3>1, <3>2, SeenAfterKept DEF SeenInv, Published
    <3>4. QED
      BY <2>1, <3>1, <3>3 DEF SeenAfter
  <2>2. CASE since'[p] = now /\ now' = now
    <3>1. /\ \A q \in Origins : \A s \in reading'[q] \cup cache'[q] : s.at \in Nat /\ s.at <= now
          /\ \A s \in edge' : s.at \in Nat /\ s.at <= now
          /\ \A v \in Verifiers : \A s \in fetched'[v] : s.at \in Nat /\ s.at <= now
      BY <2>2 DEF TypeOK, KeySets
    <3>2. now \in Nat
      BY DEF TypeOK
    <3>3. QED
      BY <2>2, <3>1, <3>2 DEF SeenAfter
  <2>3. QED
    BY <1>2, <2>1, <2>2, Learning
<1>3. QED
  BY <1>1, <1>2 DEF SeenInv

-----------------------------------------------------------------------------
(* The theorems.                                                           *)

IInv == TypeOK /\ TableInv /\ ProcessInv /\ TokenInv /\ CacheInv /\ SeenInv

LEMMA InitIInv == Init => IInv
<1> SUFFICES ASSUME Init PROVE IInv
  OBVIOUS
<1>1. TypeOK
  BY InitTyped
<1>2. TableInv /\ ProcessInv /\ TokenInv
  BY DEF Init, TableInv, ProcessInv, TokenInv, OneSigner, With, Signing, Kids
<1>3. CacheInv /\ SeenInv
  BY DEF Init, CacheInv, SeenInv, Announced
<1>4. QED
  BY <1>1, <1>2, <1>3 DEF IInv

LEMMA NextIInv == IInv /\ [Next]_vars => IInv'
BY NextTyped, TableStep, ProcessStep, TokenStep, CacheStep, SeenStep DEF IInv

LEMMA Invariance == Spec => []IInv
BY InitIInv, NextIInv, PTL DEF Spec

\* A key with a valid token has not left the published set: the retention
\* outlives the lag of the activation, the lag of signing and the token.
LEMMA LiveIsAnnounced == ASSUME IInv, NEW k \in Kids, Live(k)
                         PROVE  Announced(k) /\ Signing(k)
<1>1. PICK t \in signed[k] : TRUE
  BY DEF Live
<1>2. t \in Nat /\ now \in Nat /\ retiredAt[k] \in Nat
  BY <1>1 DEF IInv, TypeOK
<1>3. /\ Signing(k) /\ now <= t + TokenLife
      /\ status[k] = "retired" => t <= retiredAt[k] + CommitLag + SignLag
  BY <1>1 DEF IInv, TokenInv
<1>4. QED
  BY <1>2, <1>3 DEF Announced, Signing

LEMMA Verifying == IInv => TokensVerify
<1> SUFFICES ASSUME IInv, NEW k \in Kids, Live(k)
             PROVE  /\ k \in Published
                    /\ \A s \in Responses : k \in s.keys
                    /\ \A v \in Verifiers : \A s \in fetched[v] : k \in s.keys \/ MayFetch(v)
  BY DEF TokensVerify
<1>1. Announced(k) /\ Signing(k) /\ k \in Published
  BY LiveIsAnnounced, AnnouncedIsPublished
<1>2. CASE publishedAt[k] = {}
  BY <1>1, <1>2 DEF IInv, SeenInv, SeenAlways, Responses
<1>3. CASE publishedAt[k] # {}
  <2>1. PICK a \in publishedAt[k] : TRUE
    BY <1>3
  <2>2. a \in Nat /\ now \in Nat /\ a + Window <= now
    BY <1>1, <2>1 DEF IInv, TypeOK, TableInv
  <2>3. SeenAfter(k, a)
    BY <1>1, <2>1 DEF IInv, SeenInv
  <2>4. ASSUME NEW p \in Origins, NEW s \in cache[p] PROVE k \in s.keys
    <3>1. s.at \in Nat /\ now < s.at + OriginAge
      BY DEF IInv, TypeOK, KeySets, CacheInv
    <3>2. s.at > a
      BY <2>2, <3>1
    <3>3. QED
      BY <2>3, <3>2 DEF SeenAfter
  <2>5. ASSUME NEW s \in edge PROVE k \in s.keys
    <3>1. s.at \in Nat /\ now < s.at + EdgeAge
      BY DEF IInv, TypeOK, KeySets, CacheInv
    <3>2. s.at > a + OriginAge - 1
      BY <2>2, <3>1
    <3>3. QED
      BY <2>3, <3>2 DEF SeenAfter
  <2>6. ASSUME NEW v \in Verifiers, NEW s \in fetched[v], ~MayFetch(v) PROVE k \in s.keys
    <3>1. s.at \in Nat /\ now < s.at + Cooldown
      BY <2>2, <2>6 DEF IInv, TypeOK, KeySets, CacheInv, MayFetch
    <3>2. s.at > a + OriginAge - 1 + EdgeAge - 1
      BY <2>2, <3>1
    <3>3. QED
      BY <2>3, <3>2 DEF SeenAfter
  <2>7. QED
    BY <1>1, <2>4, <2>5, <2>6 DEF Responses
<1>4. QED
  BY <1>2, <1>3

(* Every valid token can be verified by everybody, however many processes  *)
(* rotate, crash and serve stale copies: the window armed after the        *)
(* publication has outlived every copy without the key when the key signs, *)
(* and the retention outlives its last token (keys.ts, signingKeyRotation).*)
THEOREM TokensAlwaysVerify == Spec => []TokensVerify
BY Invariance, Verifying, PTL

(* Exactly one key signs once there is one, and at most one waits, whatever*)
(* rotations, armings and activations run at the same time.                *)
THEOREM AlwaysOneSigner == Spec => []OneSigner
<1>1. IInv => OneSigner
  BY DEF IInv, TableInv
<1>2. QED
  BY <1>1, Invariance, PTL

(* No step drops a pending key, takes a current one anywhere but out of    *)
(* service, or brings a retired one back.                                  *)
THEOREM KeysOnlyMoveForward == Spec => KeysMoveForward
<1> DEFINE Forward ==
      \A k \in Kids :
         /\ status[k] = "next" => status'[k] \in {"next", "current"}
         /\ status[k] = "current" => status'[k] \in {"current", "retired"}
         /\ status[k] = "retired" => status'[k] = "retired"
<1>1. IInv /\ [Next]_vars => [Forward]_vars
  BY StatusForward DEF IInv
<1>2. Spec => [][Forward]_vars
  BY <1>1, Invariance, PTL DEF Spec
<1>3. QED
  BY <1>2 DEF KeysMoveForward
=============================================================================
