------------------------- MODULE EventOutboxProofs --------------------------
(***************************************************************************)
(* Proofs about EventOutbox, for any number of producers, workers, rows,   *)
(* attempts and faults: order of delivery, no false "delivered", isolation *)
(* of a poisoned event, and the refinement of OrderedMailbox.              *)
(***************************************************************************)
EXTENDS EventOutbox, FiniteSetTheorems, TLAPS

-----------------------------------------------------------------------------
(* The inductive invariant.                                                *)

Visible == {r \in Rows : status[r] # "none"}

Base(r) == IF r \in Legacy THEN LegacyAttempts ELSE 0

\* A row that will never be owed to the application any more: given up, or
\* drawn by a transaction that rolled back.
Gone(q) ==
    \/ status[q] = "dead"
    \/ status[q] = "none" /\ q <= lastRow /\ \A p \in Producers : q \notin held[p]

\* Sequence numbers follow the order in which transactions commit.
AllocationInv ==
    /\ \A r \in Visible : r <= lastRow
    /\ \A p \in Producers : \A r \in held[p] :
         /\ r <= lastRow
         /\ status[r] = "none"
         /\ \A q \in Visible : q < r
    /\ \A p1, p2 \in Producers : held[p1] # {} /\ held[p2] # {} => p1 = p2

\* Whatever precedes a row of S has been processed, is in S, or is gone.
Closed(S) ==
    \A r \in S : /\ status[r] # "none"
                 /\ \A q \in Rows : q < r => q \in S \cup accepted \/ Gone(q)

\* Every batch that is out, waited for or not, is closed.
RequestInv ==
    /\ \A w \in Workers : pc[w] # "idle" => Closed(batch[w])
    /\ \A rows \in stray : Closed(rows)
    /\ Closed(accepted)

\* The owner of the lease, expired or not, works on the oldest pending rows.
LeaseInv ==
    \A w \in Workers :
        leaseOwner = w /\ pc[w] # "idle" => Prefix(batch[w], Pending)

AckInv ==
    /\ \A w \in Workers : outcome[w] = "delivered" => batch[w] \subseteq accepted
    /\ DeliveredWasAccepted

\* An attempt was used by a row only together with, or after, all its
\* predecessors; the owner's batch is the head row or has used none.
AttemptInv ==
    /\ \A r \in Rows : status[r] = "none" => attempts[r] = 0
    /\ \A r \in Pending : attempts[r] >= Base(r)
    /\ \A q, r \in Pending : q < r /\ attempts[r] > Base(r) => attempts[q] > Base(q)
    /\ \A w \in Workers :
         leaseOwner = w /\ pc[w] # "idle" =>
             \/ batch[w] \subseteq HeadOf(status)
             \/ \A r \in Pending : attempts[r] = Base(r)
    /\ \A r \in Pending \ HeadOf(status) : attempts[r] <= 1 + Base(r)

IInv ==
    /\ TypeOK
    /\ AllocationInv
    /\ RequestInv
    /\ LeaseInv
    /\ AckInv
    /\ AttemptInv
-----------------------------------------------------------------------------
(* Facts about batches.                                                    *)

(* Row numbers are natural numbers.                                        *)
LEMMA RowsNat == \A r \in Rows : r \in Nat
BY ConstantsAssumption DEF Rows

(* The rows a claim reads are the oldest pending ones.                     *)
LEMMA ClaimedRowsPrefix == Prefix(ClaimedRows, Pending)
<1>1. IsFiniteSet(Pending) /\ Pending \subseteq Rows
  <2>1. IsFiniteSet(Rows)
    BY FS_Interval, ConstantsAssumption DEF Rows
  <2>2. Pending \in SUBSET Rows
    BY DEF Pending
  <2> QED
    BY <2>1, <2>2, FS_Subset
<1>2. SUFFICES ASSUME NEW r \in ClaimedRows, NEW q \in Pending, q < r
               PROVE  q \in ClaimedRows
  BY DEF Prefix, ClaimedRows
<1>3. r \in Nat /\ q \in Nat /\ \A x \in Pending : x \in Nat
  BY <1>1, RowsNat DEF ClaimedRows
<1>4. UpTo(Pending, q) \in SUBSET UpTo(Pending, r)
  <2>1. SUFFICES ASSUME NEW x \in UpTo(Pending, q)
                 PROVE  x \in UpTo(Pending, r)
    OBVIOUS
  <2> QED
    BY <1>2, <1>3, <2>1 DEF UpTo
<1>5. UpTo(Pending, r) \in SUBSET Pending
  BY DEF UpTo
<1>6. IsFiniteSet(UpTo(Pending, r))
  BY <1>1, <1>5, FS_Subset
<1>7. Cardinality(UpTo(Pending, q)) <= Cardinality(UpTo(Pending, r))
  BY <1>4, <1>6, FS_Subset
<1>8. IsFiniteSet(UpTo(Pending, q))
  BY <1>4, <1>6, FS_Subset
<1>9. Cardinality(UpTo(Pending, q)) \in Nat /\ Cardinality(UpTo(Pending, r)) \in Nat
  BY <1>6, <1>8, FS_CardinalityType
<1> QED
  BY <1>2, <1>7, <1>9, ConstantsAssumption DEF ClaimedRows

(* So is the batch that boundedBatch cuts off, and it is the head row      *)
(* alone when that row has failed before.                                  *)
LEMMA BoundedBatchPrefix ==
    /\ Prefix(boundedBatch(ClaimedRows), Pending)
    /\ (\E h \in HeadOf(status) : attempts[h] > 0)
         => boundedBatch(ClaimedRows) \subseteq HeadOf(status)
<1> DEFINE rows == ClaimedRows
           head == HeadOf(status)
           candidates == IF \E h \in head : attempts[h] > 0 THEN rows \cap head
                                                            ELSE rows
<1>1. boundedBatch(rows) =
        {r \in candidates :
           \A q \in UpTo(candidates, r) : due[q] /\ Fits(UpTo(candidates, q))}
  BY DEF boundedBatch
<1>2. Prefix(candidates, Pending)
  <2>1. CASE \E h \in head : attempts[h] > 0
    BY <2>1, ClaimedRowsPrefix DEF Prefix, HeadOf, Pending, Rows
  <2>2. CASE ~ \E h \in head : attempts[h] > 0
    BY <2>2, ClaimedRowsPrefix
  <2> QED
    BY <2>1, <2>2
<1>3. \A r, q \in candidates : q < r => UpTo(candidates, q) \subseteq UpTo(candidates, r)
  BY <1>2 DEF UpTo, Prefix, Pending, Rows
<1>4. Prefix(boundedBatch(rows), Pending)
  <2> HIDE DEF candidates
  <2> QED
    BY <1>1, <1>2, <1>3 DEF Prefix
<1> QED
  BY <1>1, <1>4

-----------------------------------------------------------------------------
(* Types.                                                                  *)

(* Every step of the outbox keeps its variables in their types.            *)
LEMMA TypeStep == TypeOK /\ [Next]_vars => TypeOK'
<1> SUFFICES ASSUME TypeOK, [Next]_vars PROVE TypeOK'
  OBVIOUS
<1> USE ConstantsAssumption
<1>1. ASSUME NEW p \in Producers, insertEvents(p) PROVE TypeOK'
  <2>1. PICK n \in 1..TxRows :
          /\ lastRow + n <= MaxRow
          /\ lastRow' = lastRow + n
          /\ held' = [held EXCEPT ![p] = (lastRow + 1)..(lastRow + n)]
    BY <1>1 DEF insertEvents
  <2>2. lastRow' \in 0..MaxRow /\ (lastRow + 1)..(lastRow + n) \subseteq Rows
    BY <2>1 DEF TypeOK, Rows
  <2> QED
    BY <1>1, <2>1, <2>2 DEF insertEvents, TypeOK, outboxVars, destinationVars,
       workerVars, appVars
<1>2. ASSUME NEW p \in Producers, Commit(p) PROVE TypeOK'
  <2>1. status' \in [Rows -> Statuses] /\ attempts' \in [Rows -> Nat]
    BY <1>2 DEF Commit, TypeOK, Statuses
  <2>2. due' \in [Rows -> BOOLEAN]
    BY <1>2 DEF Commit, TypeOK
  <2>3. held' \in [Producers -> SUBSET Rows]
    BY <1>2 DEF Commit, TypeOK
  <2> QED
    BY <1>2, <2>1, <2>2, <2>3 DEF Commit, TypeOK, destinationVars, workerVars,
       appVars
<1>3. ASSUME NEW p \in Producers, Rollback(p) PROVE TypeOK'
  BY <1>3 DEF Rollback, TypeOK, outboxVars, destinationVars, workerVars, appVars
<1>4. ASSUME NEW r \in Rows, BackoffElapses(r) PROVE TypeOK'
  BY <1>4 DEF BackoffElapses, TypeOK, destinationVars, producerVars, workerVars,
     appVars
<1>5. ASSUME NEW r \in Rows, cleanupArchive(r) PROVE TypeOK'
  BY <1>5 DEF cleanupArchive, TypeOK, Statuses, destinationVars, producerVars,
     workerVars, appVars
<1>6. ASSUME LeaseExpires PROVE TypeOK'
  <2>1. faults' \in 0..MaxFaults
    <3>1. CASE leaseOwner \in Workers /\ pc[leaseOwner] # "idle"
      BY <1>6, <3>1 DEF LeaseExpires, TypeOK
    <3>2. CASE ~(leaseOwner \in Workers /\ pc[leaseOwner] # "idle")
      BY <1>6, <3>2 DEF LeaseExpires, TypeOK
    <3> QED
      BY <3>1, <3>2
  <2> QED
    BY <1>6, <2>1 DEF LeaseExpires, TypeOK, outboxVars, producerVars, workerVars,
       appVars
<1>7. ASSUME ChangeEndpoint PROVE TypeOK'
  BY <1>7 DEF ChangeEndpoint, TypeOK, outboxVars, destinationVars, producerVars,
     workerVars, appVars
<1>8. ASSUME NEW w \in Workers, claim(w) PROVE TypeOK'
  <2>1. HeadOf(status) \subseteq Rows /\ boundedBatch(ClaimedRows) \subseteq Rows
    BY BoundedBatchPrefix DEF HeadOf, Prefix, Pending
  <2>2. CASE \A h \in HeadOf(status) : ~due[h]
    <3>1. /\ leaseOwner' = None /\ leaseLive' = FALSE
          /\ wait' = None \/ wait' \in HeadOf(status)
      BY <1>8, <2>2 DEF claim, release
    <3>2. UNCHANGED <<outboxVars, endpoint, producerVars, workerVars, appVars, faults>>
      BY <1>8, <2>2 DEF claim
    <3> QED
      BY <2>1, <3>1, <3>2 DEF TypeOK, outboxVars, workerVars, producerVars, appVars
  <2>3. CASE ~ \A h \in HeadOf(status) : ~due[h]
    BY <1>8, <2>1, <2>3 DEF claim, TypeOK, Outcomes, outboxVars, producerVars,
       appVars
  <2> QED
    BY <2>2, <2>3
<1>9. ASSUME NEW w \in Workers, signFails(w) PROVE TypeOK'
  BY <1>9 DEF signFails, TypeOK, Outcomes, outboxVars, destinationVars,
     producerVars, appVars
<1>10. ASSUME NEW w \in Workers, renew(w) PROVE TypeOK'
  BY <1>10 DEF renew, Idle, TypeOK, Outcomes, outboxVars, destinationVars,
     producerVars, appVars
<1>11. ASSUME NEW w \in Workers, send(w) PROVE TypeOK'
  BY <1>11 DEF send, TypeOK, Outcomes, outboxVars, destinationVars,
     producerVars
<1>12. ASSUME NEW w \in Workers, sendTimesOut(w) PROVE TypeOK'
  BY <1>12 DEF sendTimesOut, TypeOK, Outcomes, outboxVars, destinationVars,
     producerVars
<1>13. ASSUME NEW rows \in stray, StrayArrives(rows) PROVE TypeOK'
  BY <1>13 DEF StrayArrives, TypeOK, outboxVars, destinationVars, producerVars,
     workerVars
<1>14. ASSUME NEW w \in Workers, settle(w) PROVE TypeOK'
  <2>1. CASE OwnsLease(w)
    <3>1. status' \in [Rows -> Statuses]
      BY <1>14, <2>1 DEF settle, settledStatus, TypeOK, Statuses
    <3>2. attempts' \in [Rows -> Nat]
      BY <1>14, <2>1 DEF settle, TypeOK
    <3>4. due' \in [Rows -> BOOLEAN]
      BY <1>14, <2>1, Zenon DEF settle, TypeOK
    <3>3. leaseOwner' = None /\ leaseLive' = FALSE /\ wait' \in Rows \cup {None}
      BY <1>14, <2>1 DEF settle, release, HeadOf
    <3> QED
      BY <1>14, <2>1, <3>1, <3>2, <3>3, <3>4 DEF settle, Idle, TypeOK, Outcomes,
         producerVars, appVars
  <2>2. CASE ~OwnsLease(w)
    BY <1>14, <2>2 DEF settle, Idle, TypeOK, Outcomes, outboxVars,
       destinationVars, producerVars, appVars
  <2> QED
    BY <2>1, <2>2
<1>15. ASSUME NEW w \in Workers, Crash(w) PROVE TypeOK'
  BY <1>15 DEF Crash, Idle, TypeOK, Outcomes, outboxVars, destinationVars,
     producerVars
<1>16. ASSUME UNCHANGED vars PROVE TypeOK'
  BY <1>16 DEF TypeOK, vars, outboxVars, destinationVars, producerVars,
     workerVars, appVars
<1> QED
  BY <1>1, <1>2, <1>3, <1>4, <1>5, <1>6, <1>7, <1>8, <1>9, <1>10, <1>11,
     <1>12, <1>13, <1>14, <1>15, <1>16 DEF Next, Produce, Deliver

(* The types hold initially.                                               *)
LEMMA TypeInit == Init => TypeOK
<1> SUFFICES ASSUME Init PROVE TypeOK
  OBVIOUS
<1>1. lastRow \in 0..MaxRow /\ faults \in 0..MaxFaults
  BY ConstantsAssumption DEF Init
<1>2. attempts \in [Rows -> Nat] /\ status \in [Rows -> Statuses]
  BY DEF Init, Statuses
<1>3. due \in [Rows -> BOOLEAN]
  BY DEF Init
<1>4. /\ held \in [Producers -> SUBSET Rows]
      /\ batch \in [Workers -> SUBSET Rows]
      /\ uri \in [Workers -> Endpoints \cup {None}]
      /\ outcome \in [Workers -> Outcomes]
  BY DEF Init, Outcomes
<1> QED
  BY <1>1, <1>2, <1>3, <1>4 DEF Init, TypeOK

(* Type correctness of the outbox, its leases, workers and requests.       *)
THEOREM TypeCorrect == Safety => []TypeOK
BY TypeInit, TypeStep, PTL DEF Safety

-----------------------------------------------------------------------------
(* Sequence numbers and commit order.                                      *)

(* Only producers touch the sequence and the uncommitted rows; everybody   *)
(* else leaves the set of committed rows as it is.                         *)
LEMMA NonProducerStep ==
    ASSUME TypeOK, [Next]_vars, ~ \E p \in Producers : Produce(p)
    PROVE  /\ UNCHANGED <<lastRow, held>>
           /\ \A r \in Rows : status'[r] = "none" <=> status[r] = "none"
<1>1. UNCHANGED <<lastRow, held>>
  BY DEF Next, Deliver, claim, signFails, renew, send, sendTimesOut, settle,
     Crash, BackoffElapses, cleanupArchive, StrayArrives, LeaseExpires,
     ChangeEndpoint, vars, producerVars
<1>2. CASE UNCHANGED status
  BY <1>1, <1>2
<1>3. CASE \E r \in Rows : cleanupArchive(r)
  BY <1>1, <1>3 DEF cleanupArchive, TypeOK
<1>4. CASE \E w \in Workers : settle(w) /\ OwnsLease(w)
  <2>1. PICK w \in Workers : settle(w) /\ OwnsLease(w)
    BY <1>4
  <2>2. status' = [r \in Rows |-> IF r \in batch[w] \cap Pending
                                  THEN settledStatus(w, r) ELSE status[r]]
    BY <2>1 DEF settle
  <2>3. \A r \in Rows : settledStatus(w, r) # "none"
    BY DEF settledStatus
  <2> QED
    BY <1>1, <2>2, <2>3 DEF Pending
<1> QED
  BY <1>2, <1>3, <1>4 DEF Next, Deliver, claim, signFails, renew, send,
     sendTimesOut, settle, Crash, BackoffElapses, StrayArrives, LeaseExpires,
     ChangeEndpoint, vars, outboxVars

(* Uncommitted rows come after every committed one, and at most one        *)
(* transaction has any: the destination lock is held until it ends.        *)
LEMMA AllocationStep == TypeOK /\ AllocationInv /\ [Next]_vars => AllocationInv'
<1> SUFFICES ASSUME TypeOK, AllocationInv, [Next]_vars PROVE AllocationInv'
  OBVIOUS
<1> USE ConstantsAssumption, RowsNat
<1>1. ASSUME NEW p \in Producers, insertEvents(p) PROVE AllocationInv'
  <2>1. PICK n \in 1..TxRows :
          /\ lastRow + n <= MaxRow
          /\ lastRow' = lastRow + n
          /\ held' = [held EXCEPT ![p] = (lastRow + 1)..(lastRow + n)]
    BY <1>1 DEF insertEvents
  <2>2. UNCHANGED status /\ \A o \in Producers : held[o] = {}
    BY <1>1 DEF insertEvents, LockDestination, DestinationLocked, outboxVars
  <2>3. lastRow \in Nat /\ lastRow' \in Nat /\ n \in Nat /\ lastRow < lastRow'
    BY <2>1 DEF TypeOK
  <2>4. \A r \in held'[p] : r \in Rows /\ lastRow < r /\ r <= lastRow'
    BY <2>1, <2>3 DEF TypeOK, Rows
  <2>5. \A o \in Producers : o # p => held'[o] = {}
    BY <2>1, <2>2 DEF TypeOK
  <2>6. Visible' = Visible /\ Visible \subseteq Rows
    BY <2>2 DEF Visible
  <2>7. \A r \in held'[p] : status'[r] = "none" /\ \A q \in Visible : q < r
    BY <2>2, <2>3, <2>4, <2>6 DEF AllocationInv, Visible
  <2>8. \A r \in Visible' : r <= lastRow'
    BY <2>3, <2>6 DEF AllocationInv
  <2>9. \A o \in Producers : \A r \in held'[o] :
          r <= lastRow' /\ status'[r] = "none" /\ \A q \in Visible' : q < r
    BY <2>4, <2>5, <2>6, <2>7
  <2>10. \A o1, o2 \in Producers : held'[o1] # {} /\ held'[o2] # {} => o1 = o2
    BY <2>5
  <2> QED
    BY <2>8, <2>9, <2>10 DEF AllocationInv
<1>2. ASSUME NEW p \in Producers, Commit(p) PROVE AllocationInv'
  <2>1. \A o \in Producers : held'[o] = {}
    BY <1>2 DEF Commit, AllocationInv, TypeOK
  <2>2. Visible' = Visible \cup held[p]
    <3>1. status' = [r \in Rows |-> IF r \in held[p] THEN "pending" ELSE status[r]]
      BY <1>2 DEF Commit
    <3>2. held[p] \subseteq Rows
      BY DEF TypeOK
    <3> QED
      BY <3>1, <3>2 DEF Visible
  <2>3. lastRow' = lastRow
    BY <1>2 DEF Commit
  <2> QED
    BY <2>1, <2>2, <2>3 DEF AllocationInv
<1>3. ASSUME NEW p \in Producers, Rollback(p) PROVE AllocationInv'
  <2>1. \A o \in Producers : held'[o] = {}
    BY <1>3 DEF Rollback, AllocationInv, TypeOK
  <2> QED
    BY <1>3, <2>1 DEF Rollback, AllocationInv, Visible, outboxVars
<1>4. CASE ~ \E p \in Producers : Produce(p)
  <2>1. /\ UNCHANGED <<lastRow, held>>
        /\ \A r \in Rows : status'[r] = "none" <=> status[r] = "none"
    BY <1>4, NonProducerStep
  <2>2. Visible' = Visible
    BY <2>1 DEF Visible
  <2>3. \A p \in Producers : \A r \in held[p] : r \in Rows
    BY DEF TypeOK
  <2> QED
    BY <2>1, <2>2, <2>3 DEF AllocationInv
<1> QED
  BY <1>1, <1>2, <1>3, <1>4 DEF Produce

-----------------------------------------------------------------------------
(* Closed batches.                                                         *)

(* Once a row is gone it stays gone, a committed row stays committed, and  *)
(* what the application has processed it has processed for good.           *)
LEMMA StepFacts ==
    ASSUME TypeOK, AllocationInv, [Next]_vars
    PROVE  /\ accepted \subseteq accepted'
           /\ \A r \in Rows : status[r] # "none" => status'[r] # "none"
           /\ \A q \in Rows : Gone(q) => Gone(q)'
<1> USE ConstantsAssumption, RowsNat
<1>1. accepted \subseteq accepted'
  BY DEF Next, Produce, insertEvents, Commit, Rollback, Deliver, claim,
     signFails, renew, send, sendTimesOut, settle, Crash, BackoffElapses,
     cleanupArchive, StrayArrives, LeaseExpires, ChangeEndpoint, vars, appVars
<1>2. \A r \in Rows : status[r] # "none" => status'[r] # "none"
  <2>1. ASSUME NEW p \in Producers, Produce(p)
        PROVE  \A r \in Rows : status[r] # "none" => status'[r] # "none"
    BY <2>1 DEF Produce, insertEvents, Commit, Rollback, outboxVars
  <2> QED
    BY <2>1, NonProducerStep
<1>3. \A r \in Rows : status[r] = "dead" => status'[r] = "dead"
  <2>1. ASSUME NEW p \in Producers, Commit(p), NEW r \in Rows, status[r] = "dead"
        PROVE  status'[r] = "dead"
    BY <2>1 DEF Commit, AllocationInv
  <2>2. ASSUME NEW w \in Workers, settle(w), NEW r \in Rows, status[r] = "dead"
        PROVE  status'[r] = "dead"
    BY <2>2 DEF settle, Pending, outboxVars
  <2>3. ASSUME NEW x \in Rows, cleanupArchive(x), NEW r \in Rows, status[r] = "dead"
        PROVE  status'[r] = "dead"
    BY <2>3 DEF cleanupArchive, TypeOK
  <2> QED
    BY <2>1, <2>2, <2>3 DEF Next, Produce, insertEvents, Rollback, Deliver,
       claim, signFails, renew, send, sendTimesOut, Crash, BackoffElapses,
       StrayArrives, LeaseExpires, ChangeEndpoint, vars, outboxVars
<1>4. ASSUME NEW q \in Rows, status[q] = "none", q <= lastRow,
             \A p \in Producers : q \notin held[p]
      PROVE  /\ status'[q] = "none"
             /\ q <= lastRow'
             /\ \A p \in Producers : q \notin held'[p]
  <2>1. CASE \E p \in Producers : insertEvents(p)
    <3>1. PICK p \in Producers, n \in 1..TxRows :
            /\ lastRow' = lastRow + n
            /\ held' = [held EXCEPT ![p] = (lastRow + 1)..(lastRow + n)]
            /\ UNCHANGED status
      BY <2>1 DEF insertEvents, outboxVars
    <3>2. lastRow \in Nat /\ n \in Nat /\ q \in Nat
      BY <3>1 DEF TypeOK
    <3>3. q \notin (lastRow + 1)..(lastRow + n) /\ q <= lastRow'
      BY <1>4, <3>1, <3>2
    <3> QED
      BY <1>4, <3>1, <3>3 DEF TypeOK
  <2>2. ASSUME NEW p \in Producers, Commit(p) \/ Rollback(p)
        PROVE  /\ status'[q] = "none"
               /\ q <= lastRow'
               /\ \A o \in Producers : q \notin held'[o]
    <3>1. held' = [held EXCEPT ![p] = {}] /\ lastRow' = lastRow
      BY <2>2 DEF Commit, Rollback
    <3>2. status'[q] = "none"
      BY <1>4, <2>2 DEF Commit, Rollback, outboxVars
    <3> QED
      BY <1>4, <3>1, <3>2 DEF TypeOK
  <2>3. CASE ~ \E p \in Producers : Produce(p)
    BY <1>4, <2>3, NonProducerStep
  <2> QED
    BY <2>1, <2>2, <2>3 DEF Produce
<1> QED
  BY <1>1, <1>2, <1>3, <1>4 DEF Gone

(* Hence a closed set of rows stays closed.                                *)
LEMMA ClosedStable ==
    ASSUME TypeOK, AllocationInv, [Next]_vars, NEW S \in SUBSET Rows, Closed(S)
    PROVE  Closed(S)'
BY StepFacts DEF Closed

(* An application that works through part of a closed batch has processed  *)
(* a closed set of rows.                                                   *)
LEMMA ProcessingKeepsOrder ==
    ASSUME TypeOK, AllocationInv, [Next]_vars, NEW S \in SUBSET Rows, Closed(S),
           Closed(accepted), NEW done \in SUBSET S, Prefix(done, S),
           accepted' = accepted \cup done
    PROVE  Closed(accepted)'
BY StepFacts DEF Closed, Prefix, TypeOK

(* With the destination lock free, the oldest pending rows are closed.     *)
LEMMA PrefixClosed ==
    ASSUME TypeOK, AllocationInv, DeliveredWasAccepted, ~DestinationLocked,
           NEW S, Prefix(S, Pending)
    PROVE  Closed(S)
<1>1. SUFFICES ASSUME NEW r \in S, NEW q \in Rows, q < r
               PROVE  q \in S \cup accepted \/ Gone(q)
  BY DEF Closed, Prefix, Pending
<1>2. r \in Visible /\ r \in Rows
  BY DEF Prefix, Pending, Visible
<1>3. CASE status[q] = "pending"
  BY <1>1, <1>3 DEF Prefix, Pending
<1>4. CASE status[q] \in {"delivered", "archived"}
  BY <1>4 DEF DeliveredWasAccepted
<1>5. CASE status[q] = "dead"
  BY <1>5 DEF Gone
<1>6. CASE status[q] = "none"
  <2>1. q <= lastRow
    BY <1>1, <1>2, RowsNat DEF AllocationInv, TypeOK
  <2> QED
    BY <1>6, <2>1 DEF Gone, DestinationLocked
<1>7. status[q] \in Statuses
  BY DEF TypeOK
<1> QED
  BY <1>3, <1>4, <1>5, <1>6, <1>7 DEF Statuses

(* What a claim takes: the oldest pending rows, or nothing.                *)
LEMMA ClaimTakesPrefix ==
    ASSUME TypeOK, NEW w \in Workers, claim(w), pc'[w] # "idle"
    PROVE  /\ leaseOwner' = w
           /\ Prefix(batch'[w], Pending)
           /\ \/ batch'[w] \subseteq HeadOf(status)
              \/ \E h \in HeadOf(status) : ~(attempts[h] > 0)
<1>1. ~ \A h \in HeadOf(status) : ~due[h]
  BY DEF claim, workerVars, TypeOK
<1>2. /\ leaseOwner' = w
      /\ batch'[w] = IF boundedBatch(ClaimedRows) = {} THEN HeadOf(status)
                                                       ELSE boundedBatch(ClaimedRows)
  BY <1>1 DEF claim, TypeOK
<1>3. Prefix(HeadOf(status), Pending)
  BY RowsNat DEF Prefix, HeadOf, Pending
<1> QED
  BY <1>1, <1>2, <1>3, BoundedBatchPrefix

(* A worker gets a batch from a claim and keeps it until it is idle; a     *)
(* request nobody waits for carries a batch some worker had.               *)
LEMMA WorkerFacts ==
    ASSUME TypeOK, [Next]_vars
    PROVE  /\ \A w \in Workers : pc'[w] # "idle" =>
                \/ claim(w)
                \/ pc[w] # "idle" /\ batch'[w] = batch[w]
           /\ \A S \in stray' : \/ S \in stray
                                \/ \E w \in Workers : pc[w] # "idle" /\ S = batch[w]
<1>1. ASSUME NEW w \in Workers, pc'[w] # "idle", ~claim(w)
      PROVE  pc[w] # "idle" /\ batch'[w] = batch[w]
  <2>1. ASSUME NEW v \in Workers, claim(v) PROVE pc[w] # "idle" /\ batch'[w] = batch[w]
    <3>1. v # w
      BY <1>1, <2>1
    <3> QED
      BY <1>1, <2>1, <3>1 DEF claim, TypeOK, workerVars
  <2>2. ASSUME NEW v \in Workers, signFails(v) \/ send(v) \/ sendTimesOut(v)
        PROVE pc[w] # "idle" /\ batch'[w] = batch[w]
    BY <1>1, <2>2 DEF signFails, send, sendTimesOut, TypeOK
  <2>3. ASSUME NEW v \in Workers, renew(v) \/ settle(v) \/ Crash(v)
        PROVE pc[w] # "idle" /\ batch'[w] = batch[w]
    BY <1>1, <2>3 DEF renew, settle, Crash, Idle, TypeOK
  <2> QED
    BY <1>1, <2>1, <2>2, <2>3 DEF Next, Produce, insertEvents, Commit, Rollback,
       Deliver, BackoffElapses, cleanupArchive, StrayArrives, LeaseExpires,
       ChangeEndpoint, vars, workerVars
<1>2. ASSUME NEW S \in stray', S \notin stray
      PROVE  \E w \in Workers : pc[w] # "idle" /\ S = batch[w]
  BY <1>2 DEF Next, Produce, insertEvents, Commit, Rollback, Deliver, claim,
     signFails, renew, send, sendTimesOut, settle, Crash, BackoffElapses,
     cleanupArchive, StrayArrives, LeaseExpires, ChangeEndpoint, vars, appVars
<1> QED
  BY <1>1, <1>2

(* Every batch that is out, and the set of processed rows, stay closed.    *)
LEMMA RequestStep == IInv /\ [Next]_vars => RequestInv'
<1> SUFFICES ASSUME IInv, [Next]_vars PROVE RequestInv'
  OBVIOUS
<1> USE DEF IInv
<1>1. ASSUME NEW w \in Workers, pc'[w] # "idle" PROVE Closed(batch[w])'
  <2>1. PICK S : S = batch'[w]
    OBVIOUS
  <2>2. S \in SUBSET Rows /\ Closed(S)
    <3>1. CASE claim(w)
      <4>1. Prefix(S, Pending) /\ ~DestinationLocked
        BY <1>1, <2>1, <3>1, ClaimTakesPrefix DEF claim
      <4> QED
        BY <4>1, PrefixClosed DEF AckInv, Prefix, Pending
    <3>2. CASE ~claim(w)
      <4>1. pc[w] # "idle" /\ S = batch[w]
        BY <1>1, <2>1, <3>2, WorkerFacts
      <4> QED
        BY <4>1 DEF RequestInv, TypeOK
    <3> QED
      BY <3>1, <3>2
  <2>3. Closed(S)'
    BY <2>2, ClosedStable
  <2> QED
    BY <2>1, <2>3 DEF Closed
<1>2. ASSUME NEW S \in stray' PROVE Closed(S)'
  <2>1. S \in SUBSET Rows /\ Closed(S)
    <3>1. CASE S \in stray
      BY <3>1 DEF RequestInv, TypeOK
    <3>2. CASE S \notin stray
      <4>1. PICK w \in Workers : pc[w] # "idle" /\ S = batch[w]
        BY <3>2, WorkerFacts
      <4> QED
        BY <4>1 DEF RequestInv, TypeOK
    <3> QED
      BY <3>1, <3>2
  <2> QED
    BY <2>1, ClosedStable
<1>3. Closed(accepted)'
  <2>1. ASSUME NEW w \in Workers, send(w) PROVE Closed(accepted)'
    <3>1. PICK done \in SUBSET batch[w] :
            Prefix(done, batch[w]) /\ accepted' = accepted \cup done
      BY <2>1 DEF send, Processes
    <3>2. batch[w] \in SUBSET Rows /\ Closed(batch[w]) /\ Closed(accepted)
      BY <2>1 DEF send, RequestInv, TypeOK
    <3> QED
      BY <3>1, <3>2, StepFacts DEF Closed, Prefix, TypeOK
  <2>2. ASSUME NEW S \in stray, StrayArrives(S) PROVE Closed(accepted)'
    <3>1. PICK done \in SUBSET S : Prefix(done, S) /\ accepted' = accepted \cup done
      BY <2>2 DEF StrayArrives, Processes
    <3>2. S \in SUBSET Rows /\ Closed(S) /\ Closed(accepted)
      BY DEF RequestInv, TypeOK
    <3> QED
      BY <3>1, <3>2, ProcessingKeepsOrder
  <2>3. ASSUME UNCHANGED accepted PROVE Closed(accepted)'
    BY <2>3, StepFacts DEF RequestInv, Closed, TypeOK
  <2> QED
    BY <2>1, <2>2, <2>3 DEF Next, Produce, insertEvents, Commit, Rollback,
       Deliver, claim, signFails, renew, sendTimesOut, settle, Crash,
       BackoffElapses, cleanupArchive, LeaseExpires, ChangeEndpoint, vars,
       appVars
<1> QED
  BY <1>1, <1>2, <1>3 DEF RequestInv

-----------------------------------------------------------------------------
(* Leases, acknowledgements and attempts.                                  *)

(* How the steps of everybody but a settling lease owner change the        *)
(* pending rows: a commit adds younger ones, nothing else happens.         *)
LEMMA PendingStep ==
    ASSUME TypeOK, AllocationInv, [Next]_vars,
           ~ \E w \in Workers : settle(w) /\ OwnsLease(w)
    PROVE  /\ Pending \subseteq Pending'
           /\ \A r \in Pending' \ Pending :
                /\ status[r] = "none"
                /\ attempts'[r] = IF r \in Legacy THEN LegacyAttempts ELSE attempts[r]
                /\ \A q \in Pending : q < r
           /\ \A r \in Rows : status[r] = "pending" => attempts'[r] = attempts[r]
           /\ \A r \in Rows : status'[r] = "none" => attempts'[r] = attempts[r]
<1>1. CASE \E p \in Producers : Commit(p)
  <2>1. PICK p \in Producers : Commit(p)
    BY <1>1
  <2>2. /\ status' = [r \in Rows |-> IF r \in held[p] THEN "pending" ELSE status[r]]
        /\ attempts' = [r \in Rows |->
                          IF r \in held[p] \cap Legacy THEN LegacyAttempts
                                                       ELSE attempts[r]]
    BY <2>1 DEF Commit
  <2>3. \A r \in held[p] : r \in Rows /\ status[r] = "none" /\ \A q \in Visible : q < r
    BY DEF AllocationInv, TypeOK
  <2>4. Pending' = Pending \cup held[p] /\ Pending \subseteq Visible
    BY <2>2, <2>3 DEF Pending, Visible
  <2> QED
    BY <2>2, <2>3, <2>4 DEF Pending
<1>2. CASE \E r \in Rows : cleanupArchive(r)
  BY <1>2 DEF cleanupArchive, Pending, TypeOK
<1>3. CASE UNCHANGED <<status, attempts>>
  BY <1>3 DEF Pending
<1> QED
  BY <1>1, <1>2, <1>3 DEF Next, Produce, insertEvents, Rollback, Deliver, claim,
     signFails, renew, send, sendTimesOut, settle, Crash, BackoffElapses,
     StrayArrives, LeaseExpires, ChangeEndpoint, vars, outboxVars

(* The lease passes from one worker to another only through a claim.       *)
LEMMA OwnerStep ==
    ASSUME TypeOK, [Next]_vars, NEW w \in Workers, leaseOwner' = w,
           pc'[w] # "idle"
    PROVE  /\ ~ \E v \in Workers : settle(v) /\ OwnsLease(v)
           /\ \/ claim(w) /\ UNCHANGED <<status, attempts>>
              \/ leaseOwner = w /\ pc[w] # "idle" /\ batch'[w] = batch[w]
<1> USE ConstantsAssumption
<1>1. ASSUME NEW v \in Workers, settle(v), OwnsLease(v) PROVE FALSE
  BY <1>1 DEF settle, release
<1>2. ASSUME NEW v \in Workers, claim(v), v # w PROVE FALSE
  BY <1>2 DEF claim, release, TypeOK
<1>3. CASE claim(w)
  BY <1>1, <1>3 DEF claim, outboxVars
<1>4. CASE ~ \E v \in Workers : claim(v)
  <2>1. leaseOwner' = leaseOwner
    BY <1>1, <1>4 DEF Next, Produce, insertEvents, Commit, Rollback, Deliver,
       signFails, renew, send, sendTimesOut, settle, Crash, BackoffElapses,
       cleanupArchive, StrayArrives, LeaseExpires, ChangeEndpoint, vars,
       destinationVars
  <2> QED
    BY <1>1, <1>4, <2>1, WorkerFacts
<1> QED
  BY <1>2, <1>3, <1>4

(* The owner of the lease works on the oldest pending rows: nobody settles *)
(* them behind its back, and new rows are younger.                         *)
LEMMA LeaseStep == IInv /\ [Next]_vars => LeaseInv'
<1> SUFFICES ASSUME IInv, [Next]_vars, NEW w \in Workers, leaseOwner' = w,
                    pc'[w] # "idle"
             PROVE  Prefix(batch[w], Pending)'
  BY DEF LeaseInv
<1> USE DEF IInv
<1>1. Prefix(batch'[w], Pending)
  BY OwnerStep, ClaimTakesPrefix DEF LeaseInv
<1>2. /\ Pending \subseteq Pending'
      /\ \A r \in Pending' \ Pending : \A q \in Pending : q < r
  BY OwnerStep, PendingStep
<1>3. \A r \in Pending' : r \in Nat
  BY RowsNat DEF Pending
<1> QED
  BY <1>1, <1>2, <1>3 DEF Prefix

(* A worker that will settle "delivered" has seen its whole batch          *)
(* processed.                                                              *)
LEMMA AckStep == IInv /\ [Next]_vars => AckInv'
<1> SUFFICES ASSUME IInv, [Next]_vars PROVE AckInv'
  OBVIOUS
<1> USE DEF IInv
<1>1. ASSUME NEW w \in Workers, outcome'[w] = "delivered"
      PROVE  batch'[w] \subseteq accepted'
  <2>1. CASE outcome[w] = "delivered" /\ batch'[w] = batch[w]
    BY <2>1, StepFacts DEF AckInv
  <2>2. CASE send(w)
    BY <1>1, <2>2 DEF send, Acknowledged, TypeOK
  <2>3. ASSUME NEW v \in Workers, v # w, send(v)
        PROVE  outcome[w] = "delivered" /\ batch'[w] = batch[w]
    BY <1>1, <2>3 DEF send, TypeOK
  <2>4. ASSUME NEW v \in Workers, claim(v) \/ signFails(v) \/ sendTimesOut(v)
        PROVE  outcome[w] = "delivered" /\ batch'[w] = batch[w]
    BY <1>1, <2>4 DEF claim, signFails, sendTimesOut, TypeOK, workerVars
  <2>5. ASSUME NEW v \in Workers, renew(v) \/ settle(v) \/ Crash(v)
        PROVE  outcome[w] = "delivered" /\ batch'[w] = batch[w]
    BY <1>1, <2>5 DEF renew, settle, Crash, Idle, TypeOK
  <2> QED
    BY <1>1, <2>1, <2>2, <2>3, <2>4, <2>5 DEF Next, Produce, insertEvents,
       Commit, Rollback, Deliver, BackoffElapses, cleanupArchive, StrayArrives,
       LeaseExpires, ChangeEndpoint, vars, workerVars
<1>2. ASSUME NEW r \in Rows, status'[r] \in {"delivered", "archived"}
      PROVE  r \in accepted'
  <2>1. CASE status[r] \in {"delivered", "archived"}
    BY <2>1, StepFacts DEF AckInv, DeliveredWasAccepted
  <2>2. CASE \E w \in Workers : settle(w) /\ OwnsLease(w)
    <3>1. PICK w \in Workers : settle(w) /\ OwnsLease(w)
      BY <2>2
    <3>2. status'[r] = IF r \in batch[w] \cap Pending THEN settledStatus(w, r)
                                                      ELSE status[r]
      BY <3>1 DEF settle
    <3>3. CASE r \in batch[w] \cap Pending
      <4>1. outcome[w] = "delivered"
        BY <1>2, <3>2, <3>3 DEF settledStatus
      <4> QED
        BY <3>3, <4>1, StepFacts DEF AckInv
    <3> QED
      BY <1>2, <2>1, <3>2, <3>3
  <2>3. CASE ~ \E w \in Workers : settle(w) /\ OwnsLease(w)
    <3>1. ASSUME NEW p \in Producers, Commit(p)
          PROVE  status[r] \in {"delivered", "archived"}
      BY <1>2, <3>1 DEF Commit
    <3>2. ASSUME NEW x \in Rows, cleanupArchive(x)
          PROVE  status[r] \in {"delivered", "archived"}
      BY <1>2, <3>2 DEF cleanupArchive, TypeOK
    <3> QED
      BY <1>2, <2>1, <2>3, <3>1, <3>2 DEF Next, Produce, insertEvents, Rollback,
         Deliver, claim, signFails, renew, send, sendTimesOut, settle, Crash,
         BackoffElapses, StrayArrives, LeaseExpires, ChangeEndpoint, vars,
         outboxVars
  <2> QED
    BY <2>2, <2>3
<1> QED
  BY <1>1, <1>2 DEF AckInv, DeliveredWasAccepted

(* A row is charged together with all its predecessors, or alone as the    *)
(* head.                                                                   *)
LEMMA AttemptStep == IInv /\ [Next]_vars => AttemptInv'
<1> SUFFICES ASSUME IInv, [Next]_vars PROVE AttemptInv'
  OBVIOUS
<1> USE DEF IInv
<1>1. /\ \A r \in Rows : Base(r) \in Nat
      /\ \A r \in Rows : attempts[r] \in Nat /\ attempts'[r] \in Nat
      /\ Pending \subseteq Rows /\ Pending' \subseteq Rows
  BY TypeStep, ConstantsAssumption DEF TypeOK, Base, Pending
<1>2. CASE ~ \E w \in Workers : settle(w) /\ OwnsLease(w)
  <2>1. /\ Pending \subseteq Pending'
        /\ \A r \in Pending' \ Pending : attempts'[r] = Base(r) /\ \A q \in Pending : q < r
        /\ \A r \in Pending : attempts'[r] = attempts[r]
    BY <1>1, <1>2, PendingStep DEF Pending, AttemptInv, Base
  <2>2. HeadOf(status) \subseteq HeadOf(status')
    <3>1. SUFFICES ASSUME NEW h \in HeadOf(status), NEW q \in Pending' PROVE h <= q
      BY <2>1 DEF HeadOf, Pending
    <3>2. h \in Pending /\ h \in Nat /\ q \in Nat
      BY <1>1, RowsNat DEF HeadOf, Pending
    <3> QED
      BY <2>1, <3>2 DEF HeadOf, Pending
  <2>3. \A r \in Rows : status'[r] = "none" => attempts'[r] = 0
    BY <1>2, PendingStep, StepFacts DEF AttemptInv
  <2>4. \A r \in Pending' : attempts'[r] >= Base(r)
    BY <1>1, <2>1 DEF AttemptInv
  <2>5. ASSUME NEW q \in Pending', NEW r \in Pending', q < r, attempts'[r] > Base(r)
        PROVE  attempts'[q] > Base(q)
    <3>1. r \in Pending
      BY <1>1, <2>1, <2>5
    <3>2. q \in Pending
      BY <1>1, <2>1, <2>5, <3>1, RowsNat
    <3> QED
      BY <2>1, <2>5, <3>1, <3>2 DEF AttemptInv
  <2>6. ASSUME NEW w \in Workers, leaseOwner' = w, pc'[w] # "idle"
        PROVE  \/ batch'[w] \subseteq HeadOf(status')
               \/ \A r \in Pending' : attempts'[r] = Base(r)
    <3>1. \/ batch'[w] \subseteq HeadOf(status)
          \/ \A r \in Pending : attempts[r] = Base(r)
      <4>1. CASE leaseOwner = w /\ pc[w] # "idle" /\ batch'[w] = batch[w]
        BY <4>1 DEF AttemptInv
      <4>2. ASSUME claim(w), NEW h \in HeadOf(status), ~(attempts[h] > 0),
                   NEW r \in Pending
            PROVE  attempts[r] = Base(r)
        <5>1. h \in Pending /\ h <= r /\ h \in Nat /\ r \in Nat
          BY <1>1, RowsNat DEF HeadOf, Pending
        <5>2. attempts[h] = 0 /\ Base(h) = 0
          BY <1>1, <4>2, <5>1 DEF AttemptInv
        <5> QED
          BY <1>1, <5>1, <5>2 DEF AttemptInv
      <4> QED
        BY <2>6, <4>1, <4>2, OwnerStep, ClaimTakesPrefix
    <3> QED
      BY <2>1, <2>2, <3>1
  <2>7. \A r \in Pending' \ HeadOf(status') : attempts'[r] <= 1 + Base(r)
    BY <1>1, <2>1, <2>2 DEF AttemptInv
  <2> QED
    BY <2>3, <2>4, <2>5, <2>6, <2>7 DEF AttemptInv
<1>3. ASSUME NEW w \in Workers, settle(w), OwnsLease(w) PROVE AttemptInv'
  <2> DEFINE charged == IF outcome[w] = "retry" THEN batch[w] \cap Pending ELSE {}
  <2>1. /\ \A r \in Rows : attempts'[r] = IF r \in charged THEN attempts[r] + 1
                                                           ELSE attempts[r]
        /\ \A r \in Rows : status'[r] = IF r \in batch[w] \cap Pending
                                        THEN settledStatus(w, r) ELSE status[r]
        /\ leaseOwner' = None
    BY <1>3 DEF settle, release
  <2>2. Pending' \subseteq Pending
    BY <2>1 DEF Pending
  <2>3. \A r \in Rows : status'[r] = "none" => status[r] = "none" /\ r \notin charged
    BY <2>1, StepFacts DEF Pending
  <2>4. Prefix(batch[w], Pending)
    BY <1>3 DEF LeaseInv, settle, OwnsLease
  <2>5. HeadOf(status) \cap Pending' \subseteq HeadOf(status')
    BY <2>2 DEF HeadOf, Pending
  <2> HIDE DEF charged
  <2>6. charged = {} \/ charged = batch[w]
    BY <2>4 DEF charged, Prefix
  <2>7. /\ \A q, r \in Pending' : q < r /\ attempts'[r] > Base(r)
                                    => attempts'[q] > Base(q)
        /\ \A r \in Pending' \ HeadOf(status') : attempts'[r] <= 1 + Base(r)
    <3>1. CASE batch[w] \subseteq HeadOf(status)
      <4>1. \A q, r \in Pending : q < r => r \notin charged
        BY <1>1, <2>6, <3>1, RowsNat DEF HeadOf, Pending
      <4>2. \A r \in Pending' \ HeadOf(status') : r \notin charged
        BY <2>5, <2>6, <3>1
      <4>3. ASSUME NEW q \in Pending', NEW r \in Pending', q < r, attempts'[r] > Base(r)
            PROVE  attempts'[q] > Base(q)
        <5>1. q \in Rows /\ r \in Rows /\ q \in Pending /\ r \in Pending
          BY <1>1, <2>2
        <5>2. attempts[q] > Base(q)
          BY <2>1, <4>1, <4>3, <5>1 DEF AttemptInv
        <5> QED
          BY <1>1, <2>1, <5>1, <5>2
      <4>4. ASSUME NEW r \in Pending' \ HeadOf(status') PROVE attempts'[r] <= 1 + Base(r)
        <5>1. r \in Rows /\ r \in Pending \ HeadOf(status) /\ attempts'[r] = attempts[r]
          BY <1>1, <2>1, <2>2, <2>5, <4>2
        <5> QED
          BY <5>1 DEF AttemptInv
      <4> QED
        BY <4>3, <4>4
    <3>2. CASE \A r \in Pending : attempts[r] = Base(r)
      <4>1. ASSUME NEW q \in Pending', NEW r \in Pending', q < r, attempts'[r] > Base(r)
            PROVE  attempts'[q] > Base(q)
        <5>1. q \in Rows /\ r \in Rows /\ q \in Pending /\ r \in Pending
          BY <1>1, <2>2
        <5>2. r \in charged
          BY <1>1, <2>1, <3>2, <4>1, <5>1
        <5>3. q \in charged
          BY <2>4, <2>6, <4>1, <5>1, <5>2 DEF Prefix
        <5> QED
          BY <1>1, <2>1, <3>2, <5>1, <5>3
      <4>2. ASSUME NEW r \in Pending' \ HeadOf(status') PROVE attempts'[r] <= 1 + Base(r)
        <5>1. r \in Rows /\ attempts[r] = Base(r) /\ Base(r) \in Nat
          BY <1>1, <2>2, <3>2
        <5> QED
          BY <2>1, <5>1
      <4> QED
        BY <4>1, <4>2
    <3> QED
      BY <1>3, <3>1, <3>2 DEF AttemptInv, settle, OwnsLease
  <2>8. \A r \in Pending' : attempts'[r] >= Base(r)
    <3>1. SUFFICES ASSUME NEW r \in Pending' PROVE attempts'[r] >= Base(r)
      OBVIOUS
    <3>2. r \in Rows /\ attempts[r] >= Base(r)
      BY <1>1, <2>2 DEF AttemptInv
    <3> QED
      BY <1>1, <2>1, <3>2
  <2>9. \A r \in Rows : status'[r] = "none" => attempts'[r] = 0
    BY <2>1, <2>3 DEF AttemptInv
  <2> QED
    BY <2>1, <2>7, <2>8, <2>9, ConstantsAssumption DEF AttemptInv
<1> QED
  BY <1>2, <1>3

-----------------------------------------------------------------------------
(* The theorems.                                                           *)

(* IInv is an inductive invariant.                                         *)
THEOREM InductiveInvariant == Safety => []IInv
<1>1. Init => IInv
  <2> SUFFICES ASSUME Init PROVE IInv
    OBVIOUS
  <2>1. AllocationInv
    BY DEF Init, AllocationInv, Visible
  <2>2. RequestInv
    BY DEF Init, RequestInv, Closed
  <2>3. LeaseInv
    BY DEF Init, LeaseInv
  <2>4. AckInv
    BY DEF Init, AckInv, DeliveredWasAccepted
  <2>5. AttemptInv
    BY DEF Init, AttemptInv, Pending
  <2> QED
    BY TypeInit, <2>1, <2>2, <2>3, <2>4, <2>5 DEF IInv
<1>2. IInv /\ [Next]_vars => IInv'
  BY TypeStep, AllocationStep, RequestStep, LeaseStep, AckStep, AttemptStep DEF IInv
<1> QED
  BY <1>1, <1>2, PTL DEF Safety

(* Deliveries are in order, for any number of workers that lose leases,    *)
(* crash, or time out while their requests are under way.                  *)
THEOREM DeliveryInOrder == Safety => []InOrder
<1>1. IInv => InOrder
  BY DEF IInv, RequestInv, Closed, InOrder, Gone, TypeOK
<1> QED
  BY <1>1, InductiveInvariant, PTL

(* "delivered" is never recorded for an event the application has not      *)
(* processed.                                                              *)
THEOREM NoFalseDelivery == Safety => []DeliveredWasAccepted
<1>1. IInv => DeliveredWasAccepted
  BY DEF IInv, AckInv
<1> QED
  BY <1>1, InductiveInvariant, PTL

(* A poisoned event costs each event behind it at most one attempt.        *)
THEOREM PoisonIsolation == Safety => []PoisonIsolated
<1>1. IInv => PoisonIsolated
  BY DEF IInv, AttemptInv, PoisonIsolated, Base
<1> QED
  BY <1>1, InductiveInvariant, PTL

-----------------------------------------------------------------------------
(* Refinement of the ordered mailbox.                                      *)

(* What the mailbox still owes is what the outbox has pending.             *)
LEMMA OutstandingIsPending == TypeOK => Mailbox!Outstanding = Pending
BY DEF TypeOK, Mailbox!Outstanding, Pending, Statuses

(* A step of the outbox is a step of the mailbox or invisible to it.       *)
LEMMA MailboxStep ==
    ASSUME IInv, [Next]_vars
    PROVE  [Mailbox!Next]_(Mailbox!mailbox)
<1> USE DEF IInv
<1>1. ASSUME NEW p \in Producers, Commit(p)
      PROVE  \E S \in SUBSET Rows : Mailbox!Post(S)
  <2>1. PICK S \in SUBSET Rows : S = held[p]
    BY DEF TypeOK
  <2>2. status' = [r \in Rows |-> IF r \in S THEN "pending" ELSE status[r]]
    BY <1>1, <2>1 DEF Commit
  <2>3. \A r \in S : status[r] = "none" /\ \A q \in Visible : q < r
    BY <2>1 DEF AllocationInv
  <2>4. UNCHANGED accepted
    BY <1>1 DEF Commit, appVars
  <2>5. Mailbox!Post(S)
    BY <2>2, <2>3, <2>4 DEF Mailbox!Post, Visible
  <2> QED
    BY <2>5
<1>2. ASSUME NEW S \in SUBSET Rows, Closed(S), NEW done \in SUBSET S,
             Prefix(done, S), accepted' = accepted \cup done, UNCHANGED status
      PROVE  Mailbox!See(done)
  BY <1>2 DEF Closed, Prefix, Gone, Mailbox!See
<1>3. ASSUME NEW w \in Workers, send(w)
      PROVE  \E S \in SUBSET Rows : Mailbox!See(S)
  <2>1. PICK done \in SUBSET batch[w] :
          Prefix(done, batch[w]) /\ accepted' = accepted \cup done
    BY <1>3 DEF send, Processes
  <2>2. batch[w] \in SUBSET Rows /\ Closed(batch[w]) /\ UNCHANGED status
    BY <1>3 DEF send, RequestInv, TypeOK, outboxVars
  <2>3. done \in SUBSET Rows
    BY <2>1, <2>2
  <2> QED
    BY <1>2, <2>1, <2>2, <2>3
<1>4. ASSUME NEW rows \in stray, StrayArrives(rows)
      PROVE  \E S \in SUBSET Rows : Mailbox!See(S)
  <2>1. PICK done \in SUBSET rows :
          Prefix(done, rows) /\ accepted' = accepted \cup done
    BY <1>4 DEF StrayArrives, Processes
  <2>2. rows \in SUBSET Rows /\ Closed(rows) /\ UNCHANGED status
    BY <1>4 DEF StrayArrives, RequestInv, TypeOK, outboxVars
  <2>3. done \in SUBSET Rows
    BY <2>1, <2>2
  <2> QED
    BY <1>2, <2>1, <2>2, <2>3
<1>5. ASSUME NEW w \in Workers, settle(w), OwnsLease(w)
      PROVE  \E S \in SUBSET Rows : Mailbox!Confirm(S) \/ Mailbox!Drop(S)
  <2>1. /\ status' = [r \in Rows |-> IF r \in batch[w] \cap Pending
                                     THEN settledStatus(w, r) ELSE status[r]]
        /\ UNCHANGED accepted
    BY <1>5 DEF settle, appVars
  <2>2. Prefix(batch[w], Pending) /\ batch[w] \in SUBSET Rows
    BY <1>5 DEF LeaseInv, settle, OwnsLease, TypeOK
  <2>3. CASE outcome[w] = "delivered"
    <3>1. PICK S \in SUBSET Rows : S = batch[w]
      BY <2>2
    <3>2. \A r \in Rows : status'[r] = IF r \in S THEN "delivered" ELSE status[r]
      BY <2>1, <2>2, <2>3, <3>1 DEF settledStatus, Prefix
    <3>3. S \subseteq accepted /\ \A r \in S : status[r] = "pending"
      BY <2>2, <2>3, <3>1 DEF AckInv, Prefix, Pending
    <3>4. Mailbox!InitialSegment(S, Mailbox!Outstanding)
      BY <2>2, <3>1, OutstandingIsPending DEF Mailbox!InitialSegment, Prefix
    <3>5. Mailbox!Confirm(S)
      BY <2>1, <3>2, <3>3, <3>4 DEF Mailbox!Confirm
    <3> QED
      BY <3>5
  <2>4. CASE outcome[w] # "delivered"
    <3>1. PICK S \in SUBSET Rows :
            S = {r \in batch[w] : settledStatus(w, r) = "dead"}
      BY <2>2
    <3>2. \A r \in Rows : status'[r] = IF r \in S THEN "dead" ELSE status[r]
      <4>1. \A r \in batch[w] : status[r] = "pending"
                                /\ settledStatus(w, r) \in {"dead", "pending"}
        BY <2>2, <2>4 DEF settledStatus, Prefix, Pending
      <4> QED
        BY <2>1, <2>2, <3>1, <4>1 DEF Prefix
    <3>3. S \subseteq Pending /\ \A r \in S : status[r] = "pending"
      BY <2>2, <3>1 DEF Prefix, Pending
    <3>4. Mailbox!Drop(S)
      BY <2>1, <3>2, <3>3, OutstandingIsPending DEF Mailbox!Drop
    <3> QED
      BY <3>4
  <2> QED
    BY <2>3, <2>4
<1>6. ASSUME NEW r \in Rows, cleanupArchive(r) PROVE UNCHANGED Mailbox!mailbox
  BY <1>6 DEF cleanupArchive, Mailbox!mailbox, TypeOK, appVars
<1>7. ASSUME UNCHANGED <<status, accepted>> PROVE UNCHANGED Mailbox!mailbox
  BY <1>7 DEF Mailbox!mailbox
<1> QED
  BY <1>1, <1>3, <1>4, <1>5, <1>6, <1>7 DEF Mailbox!Next, Next, Produce,
     insertEvents, Rollback, Deliver, claim, signFails, renew, sendTimesOut,
     settle, Crash, BackoffElapses, LeaseExpires, ChangeEndpoint, vars,
     outboxVars, appVars

(* The outbox implements the ordered mailbox: to the application it is one *)
(* ordered stream, whatever the workers do.                                *)
THEOREM OutboxImplementsMailbox == Safety => ImplementsMailbox
<1>1. Init => Mailbox!Init
  BY DEF Init, Mailbox!Init
<1>2. IInv /\ [Next]_vars => [Mailbox!Next]_(Mailbox!mailbox)
  BY MailboxStep
<1> QED
  BY <1>1, <1>2, InductiveInvariant, PTL DEF Safety, ImplementsMailbox, Mailbox!Spec
=============================================================================
