---------------------------- MODULE EventOutbox -----------------------------
(***************************************************************************)
(* The durable event outbox of one destination (one registered             *)
(* application): src/events/outboxStore.ts and the pump of src/events.ts.  *)
(*                                                                         *)
(* Producers append rows in their own database transactions.  Each SSO     *)
(* process has at most one delivery of a destination under way (drainAll's *)
(* `draining' flag and one drainDestination per destination), so a worker  *)
(* is a process.  A worker claims the destination under a lease, signs and *)
(* sends a bounded batch over HTTP, and settles the rows if it still holds *)
(* the lease.                                                              *)
(*                                                                         *)
(* Time is kept as what its comparisons can tell: due[r] is                *)
(* "next_attempt_at <= now()" of a row, leaseLive is "lease_until >        *)
(* clock_timestamp()".  A claim's random lease token is represented by the *)
(* worker that drew it: a worker forgets its previous claim before it      *)
(* makes another one, so the tokens are equal exactly when the owner is    *)
(* the worker and its claim is the last one it made.                       *)
(***************************************************************************)
EXTENDS Naturals, FiniteSets, FiniteSetsExt

CONSTANTS
    Producers,        \* database transactions that append events
    Workers,          \* SSO processes that run the event pump
    Endpoints,        \* values of oauth_clients.events_uri
    None,             \* no endpoint, no lease owner, no row
    MaxRow,           \* bound: rows ever allocated for the destination
    TxRows,           \* bound: rows one transaction appends
    BatchMax,         \* BATCH_MAX
    MaxAttempts,      \* MAX_ATTEMPTS
    Size,             \* bytes of a row on the wire
    BytesMax,         \* EVENT_BYTES_MAX
    Legacy,           \* rows imported from the old Redis queue ...
    LegacyAttempts,   \* ... and the attempts they had already used there
    Poison,           \* rows the application answers with an error
    MaxFaults         \* bound: crashes, stalls and endpoint changes

Rows == 1..MaxRow

ASSUME ConstantsAssumption ==
    /\ MaxRow \in Nat
    /\ TxRows \in Nat \ {0}
    /\ BatchMax \in Nat \ {0}
    /\ MaxAttempts \in Nat \ {0}
    /\ LegacyAttempts \in Nat
    /\ MaxFaults \in Nat
    /\ Legacy \subseteq Rows
    /\ None \notin Endpoints \cup Workers \cup Rows

VARIABLES
    \* --- table event_outbox
    status,           \* "none" until committed; "archived" once cleaned up
    attempts,
    due,
    \* --- table event_destinations
    leaseOwner,       \* lease_token
    leaseLive,        \* lease_until in the future
    wait,             \* the row next_attempt_at was copied from, or None
    \* --- table oauth_clients
    endpoint,         \* events_uri, or None: not set, or the client disabled
    \* --- open producer transactions
    lastRow,          \* the sequence of event_outbox
    held,             \* rows inserted and not yet committed
    \* --- deliverDestination in each process
    pc, batch, uri, outcome,
    \* --- network and application
    stray,            \* batches of requests nobody waits for any more
    accepted,         \* rows the application has processed
    \* --- bound
    faults

outboxVars == <<status, attempts, due>>
destinationVars == <<leaseOwner, leaseLive, wait>>
producerVars == <<lastRow, held>>
workerVars == <<pc, batch, uri, outcome>>
appVars == <<stray, accepted>>
vars == <<outboxVars, destinationVars, endpoint, producerVars, workerVars,
          appVars, faults>>

Statuses == {"none", "pending", "delivered", "dead", "archived"}
Outcomes == {"none", "delivered", "retry", "dead"}

TypeOK ==
    /\ status \in [Rows -> Statuses]
    /\ attempts \in [Rows -> Nat]
    /\ due \in [Rows -> BOOLEAN]
    /\ leaseOwner \in Workers \cup {None}
    /\ leaseLive \in BOOLEAN
    /\ wait \in Rows \cup {None}
    /\ endpoint \in Endpoints \cup {None}
    /\ lastRow \in 0..MaxRow
    /\ held \in [Producers -> SUBSET Rows]
    /\ pc \in [Workers -> {"idle", "claimed", "sending", "settling"}]
    /\ batch \in [Workers -> SUBSET Rows]
    /\ uri \in [Workers -> Endpoints \cup {None}]
    /\ outcome \in [Workers -> Outcomes]
    /\ stray \in SUBSET SUBSET Rows
    /\ accepted \in SUBSET Rows
    /\ faults \in 0..MaxFaults

Init ==
    /\ status = [r \in Rows |-> "none"]
    /\ attempts = [r \in Rows |-> 0]
    /\ due = [r \in Rows |-> TRUE]
    /\ leaseOwner = None
    /\ leaseLive = FALSE
    /\ wait = None
    /\ endpoint \in Endpoints
    /\ lastRow = 0
    /\ held = [p \in Producers |-> {}]
    /\ pc = [w \in Workers |-> "idle"]
    /\ batch = [w \in Workers |-> {}]
    /\ uri = [w \in Workers |-> None]
    /\ outcome = [w \in Workers |-> "none"]
    /\ stray = {}
    /\ accepted = {}
    /\ faults = 0

-----------------------------------------------------------------------------
(* Pending rows, in sequence order.                                        *)

Pending == {r \in Rows : status[r] = "pending"}

\* The first pending row of a table whose statuses are st.
HeadOf(st) == {r \in Rows : /\ st[r] = "pending"
                          /\ \A q \in Rows : st[q] = "pending" => r <= q}

UpTo(S, r) == {q \in S : q <= r}

\* S consists of the oldest members of Q.
Prefix(S, Q) == S \subseteq Q /\ \A r \in S, q \in Q : q < r => q \in S

RowSize(r) == Size[r]
Fits(S) == MapThenSumSet(RowSize, S) <= BytesMax

-----------------------------------------------------------------------------
(* Producers.  A transaction locks the destination row and only then draws *)
(* sequence numbers; its rows become visible when it commits.              *)

\* The row lock of event_destinations, held until the transaction ends.
DestinationLocked == \E p \in Producers : held[p] # {}

LockDestination_Unlocked(p) == TRUE
LockDestination(p) == ~DestinationLocked

insertEvents(p) ==
    /\ held[p] = {}
    /\ LockDestination(p)
    /\ \E n \in 1..TxRows :
         /\ lastRow + n <= MaxRow
         /\ lastRow' = lastRow + n
         /\ held' = [held EXCEPT ![p] = (lastRow + 1)..(lastRow + n)]
    /\ UNCHANGED <<outboxVars, destinationVars, endpoint, workerVars, appVars,
                   faults>>

\* A row of the old queue keeps its attempts and may be due only later.
Commit(p) ==
    /\ held[p] # {}
    /\ status' = [r \in Rows |-> IF r \in held[p] THEN "pending" ELSE status[r]]
    /\ attempts' = [r \in Rows |->
                      IF r \in held[p] \cap Legacy THEN LegacyAttempts
                                                   ELSE attempts[r]]
    /\ \E later \in SUBSET (held[p] \cap Legacy) :
         due' = [r \in Rows |-> IF r \in later THEN FALSE ELSE due[r]]
    /\ held' = [held EXCEPT ![p] = {}]
    /\ UNCHANGED <<destinationVars, endpoint, lastRow, workerVars, appVars,
                   faults>>

\* A rolled back transaction has used up its sequence numbers.
Rollback(p) ==
    /\ held[p] # {}
    /\ held' = [held EXCEPT ![p] = {}]
    /\ UNCHANGED <<outboxVars, destinationVars, endpoint, lastRow, workerVars,
                   appVars, faults>>

-----------------------------------------------------------------------------
(* Time and administration.                                                *)

BackoffElapses(r) ==
    /\ ~due[r]
    /\ due' = [due EXCEPT ![r] = TRUE]
    /\ UNCHANGED <<status, attempts, destinationVars, endpoint, producerVars,
                   workerVars, appVars, faults>>

\* A lease outlives LEASE_MS.  That is a fault while its owner is at work:
\* signing and the 5 s request fit into the 30 s.
LeaseExpires ==
    /\ leaseLive
    /\ leaseLive' = FALSE
    /\ LET stalled == leaseOwner \in Workers /\ pc[leaseOwner] # "idle"
       IN  /\ stalled => faults < MaxFaults
           /\ faults' = IF stalled THEN faults + 1 ELSE faults
    /\ UNCHANGED <<outboxVars, leaseOwner, wait, endpoint, producerVars,
                   workerVars, appVars>>

\* An administrator changes events_uri, or disables or enables the client.
ChangeEndpoint ==
    /\ faults < MaxFaults
    /\ faults' = faults + 1
    /\ endpoint' \in (Endpoints \cup {None}) \ {endpoint}
    /\ UNCHANGED <<outboxVars, destinationVars, producerVars, workerVars,
                   appVars>>

\* Delivered rows are deleted after thirty days.
cleanupArchive(r) ==
    /\ status[r] = "delivered"
    /\ status' = [status EXCEPT ![r] = "archived"]
    /\ UNCHANGED <<attempts, due, destinationVars, endpoint, producerVars,
                   workerVars, appVars, faults>>

-----------------------------------------------------------------------------
(* deliverDestination.                                                     *)

\* next_attempt_at of the destination has come.
DestinationDue == wait # None => due[wait]

\* release: the lease is dropped and the destination waits for its head row.
release(st) ==
    /\ leaseOwner' = None
    /\ leaseLive' = FALSE
    /\ wait' \in (IF HeadOf(st) = {} THEN {None} ELSE HeadOf(st))

\* The rows a claim reads: the oldest BatchMax pending ones.
ClaimedRows == {r \in Pending : Cardinality(UpTo(Pending, r)) <= BatchMax}

\* A head that failed before goes alone; a batch stops at a row that is not
\* due and at the byte limit.
boundedBatch_SkipsDelayed(rows) ==
    {r \in rows : due[r] /\ Fits({q \in UpTo(rows, r) : due[q]})}

boundedBatch(rows) ==
    LET head == HeadOf(status)
        candidates == IF \E h \in head : attempts[h] > 0 THEN rows \cap head
                                                         ELSE rows
    IN  {r \in candidates :
           \A q \in UpTo(candidates, r) : due[q] /\ Fits(UpTo(candidates, q))}

\* Nobody holds the lease, or it has run out.
LeaseFree_OwnerOnly == leaseOwner = None
LeaseFree == ~leaseLive

\* claim, then boundedBatch and the two early settlements of
\* deliverDestination, all decided before the next database access.
claim(w) ==
    /\ pc[w] = "idle"
    /\ ~DestinationLocked
    /\ LeaseFree
    /\ DestinationDue
    /\ IF \A h \in HeadOf(status) : ~due[h]
       THEN /\ release(status)
            /\ UNCHANGED workerVars
       ELSE LET rows == boundedBatch(ClaimedRows)
            IN  /\ leaseOwner' = w
                /\ leaseLive' = TRUE
                /\ UNCHANGED wait
                /\ uri' = [uri EXCEPT ![w] = endpoint]
                /\ batch' = [batch EXCEPT ![w] = IF rows = {} THEN HeadOf(status)
                                                              ELSE rows]
                /\ LET dead == rows = {} \/ endpoint = None
                   IN  /\ pc' = [pc EXCEPT ![w] = IF dead THEN "settling"
                                                          ELSE "claimed"]
                       /\ outcome' = [outcome EXCEPT ![w] = IF dead THEN "dead"
                                                                    ELSE "none"]
    /\ UNCHANGED <<outboxVars, endpoint, producerVars, appVars, faults>>

signFails(w) ==
    /\ pc[w] = "claimed"
    /\ pc' = [pc EXCEPT ![w] = "settling"]
    /\ outcome' = [outcome EXCEPT ![w] = "retry"]
    /\ UNCHANGED <<outboxVars, destinationVars, endpoint, producerVars, batch,
                   uri, appVars, faults>>

\* The process forgets its claim: it returned, threw or died.
Idle(w) ==
    /\ pc' = [pc EXCEPT ![w] = "idle"]
    /\ batch' = [batch EXCEPT ![w] = {}]
    /\ uri' = [uri EXCEPT ![w] = None]
    /\ outcome' = [outcome EXCEPT ![w] = "none"]

\* The fence shared by renew and settle.
OwnsLease_AnyToken(w) == leaseLive
OwnsLease(w) == leaseOwner = w /\ leaseLive

\* An expired lease is not revived and a changed endpoint waits for a fresh
\* claim; otherwise the lease starts over and the request goes out.
renew(w) ==
    /\ pc[w] = "claimed"
    /\ ~DestinationLocked
    /\ IF OwnsLease(w) /\ endpoint = uri[w]
       THEN /\ pc' = [pc EXCEPT ![w] = "sending"]
            /\ UNCHANGED <<batch, uri, outcome>>
       ELSE Idle(w)
    /\ UNCHANGED <<outboxVars, destinationVars, endpoint, producerVars, appVars,
                   faults>>

\* The application works through a batch in order and may stop anywhere; it
\* never gets past a row it cannot process.
Processes(done, rows) == Prefix(done, rows) /\ done \cap Poison = {}

Acknowledged_AnyAnswer(done, rows) == TRUE
\* Only a completed batch is answered with 204.
Acknowledged(done, rows) == done = rows

\* The request arrives.  Any answer but 204, and an answer that is lost, is
\* a retry.
send(w) ==
    /\ pc[w] = "sending"
    /\ \E done \in SUBSET batch[w], answered \in BOOLEAN :
         /\ Processes(done, batch[w])
         /\ accepted' = accepted \cup done
         /\ outcome' = [outcome EXCEPT ![w] =
                          IF answered /\ Acknowledged(done, batch[w])
                          THEN "delivered" ELSE "retry"]
    /\ pc' = [pc EXCEPT ![w] = "settling"]
    /\ UNCHANGED <<outboxVars, destinationVars, endpoint, producerVars, batch,
                   uri, stray, faults>>

\* The 5 s timeout: the request may still arrive.
sendTimesOut(w) ==
    /\ pc[w] = "sending"
    /\ stray' = stray \cup {batch[w]}
    /\ outcome' = [outcome EXCEPT ![w] = "retry"]
    /\ pc' = [pc EXCEPT ![w] = "settling"]
    /\ UNCHANGED <<outboxVars, destinationVars, endpoint, producerVars, batch,
                   uri, accepted, faults>>

StrayArrives(rows) ==
    /\ \E done \in SUBSET rows : /\ Processes(done, rows)
                                 /\ accepted' = accepted \cup done
    /\ stray' = stray \ {rows}
    /\ UNCHANGED <<outboxVars, destinationVars, endpoint, producerVars,
                   workerVars, faults>>

Exhausted(r) == attempts[r] + 1 >= MaxAttempts

\* One row under an outcome: delivered, dead, or one more attempt used.
settledStatus_Outcome(w, r) == outcome[w]
settledStatus(w, r) ==
    IF outcome[w] = "delivered" THEN "delivered"
    ELSE IF outcome[w] = "dead" \/ Exhausted(r) THEN "dead" ELSE "pending"

settle(w) ==
    /\ pc[w] = "settling"
    /\ ~DestinationLocked
    /\ IF OwnsLease(w)
       THEN LET rows == batch[w] \cap Pending
                retried == IF outcome[w] = "retry" THEN rows ELSE {}
            IN  /\ status' = [r \in Rows |-> IF r \in rows
                                             THEN settledStatus(w, r)
                                             ELSE status[r]]
                /\ attempts' = [r \in Rows |-> IF r \in retried
                                               THEN attempts[r] + 1
                                               ELSE attempts[r]]
                /\ due' = [r \in Rows |-> r \notin retried /\ due[r]]
                /\ release(status')
       ELSE UNCHANGED <<outboxVars, destinationVars>>
    /\ Idle(w)
    /\ UNCHANGED <<endpoint, producerVars, appVars, faults>>

\* The process dies, or a query throws out of deliverDestination.  A request
\* that is out may still arrive.
Crash(w) ==
    /\ pc[w] # "idle"
    /\ faults < MaxFaults
    /\ faults' = faults + 1
    /\ stray' = IF pc[w] = "sending" THEN stray \cup {batch[w]} ELSE stray
    /\ Idle(w)
    /\ UNCHANGED <<outboxVars, destinationVars, endpoint, producerVars,
                   accepted>>

-----------------------------------------------------------------------------
Produce(p) == insertEvents(p) \/ Commit(p) \/ Rollback(p)

Deliver(w) ==
    \/ claim(w) \/ signFails(w) \/ renew(w) \/ send(w) \/ sendTimesOut(w)
    \/ settle(w)

Next ==
    \/ \E p \in Producers : Produce(p)
    \/ \E w \in Workers : Deliver(w) \/ Crash(w)
    \/ \E r \in Rows : BackoffElapses(r) \/ cleanupArchive(r)
    \/ \E rows \in stray : StrayArrives(rows)
    \/ LeaseExpires
    \/ ChangeEndpoint

Safety == Init /\ [][Next]_vars

(* The sweep of startEventPump calls drainAll every minute for as long as  *)
(* a process lives, and each of its awaits returns or times out; open      *)
(* transactions end, and clocks advance.                                   *)
Fairness ==
    /\ WF_vars(\E p \in Producers : Commit(p) \/ Rollback(p))
    /\ WF_vars(LeaseExpires)
    /\ \A r \in Rows : WF_vars(BackoffElapses(r))
    /\ WF_vars(\E w \in Workers : claim(w))
    /\ \A w \in Workers :
         /\ WF_vars(renew(w) \/ signFails(w))
         /\ WF_vars(send(w) \/ sendTimesOut(w))
         /\ WF_vars(settle(w))

Spec == Safety /\ Fairness

-----------------------------------------------------------------------------
(* Properties.                                                             *)

(* The application never processes an event while an earlier one of the    *)
(* same destination is still owed to it: every smaller sequence number was *)
(* processed, was given up, or belongs to a rolled back transaction.  The  *)
(* sequence is drawn under the destination lock (lockDestination), claims  *)
(* read a prefix and boundedBatch never bypasses a delayed predecessor; a  *)
(* request that arrives after its worker lost the lease must not break it. *)
InOrder ==
    \A r \in accepted, q \in Rows :
        q < r => \/ q \in accepted
                 \/ status[q] = "dead"
                 \/ status[q] = "none" /\ \A p \in Producers : q \notin held[p]

(* An event recorded as delivered has been processed by the application:   *)
(* only a 204 for the whole batch counts, whoever settles, and however     *)
(* many workers sent overlapping batches.                                  *)
DeliveredWasAccepted ==
    \A r \in Rows : status[r] \in {"delivered", "archived"} => r \in accepted

(* A rejected batch costs a neighbour of the bad event at most one         *)
(* attempt: a row that is not the oldest pending one has used at most one  *)
(* attempt here (boundedBatch retries a failed head alone), even when      *)
(* settlements of a lost lease come in late.                               *)
PoisonIsolated ==
    \A r \in Pending \ HeadOf(status) :
        attempts[r] <= 1 + (IF r \in Legacy THEN LegacyAttempts ELSE 0)

(* Every committed event is in the end delivered or given up: no claim is  *)
(* stranded by a crash, a lost lease, a changed endpoint or a poisoned     *)
(* predecessor.                                                            *)
EventuallySettled ==
    \A r \in Rows : status[r] = "pending" ~> status[r] # "pending"

(* The outbox implements the ordered mailbox.                              *)
Mailbox == INSTANCE OrderedMailbox WITH
    posted <- {r \in Rows : status[r] # "none"},
    seen <- accepted,
    confirmed <- {r \in Rows : status[r] \in {"delivered", "archived"}},
    dropped <- {r \in Rows : status[r] = "dead"}

(* Everything workers, leases and requests do is one of the mailbox's four *)
(* steps, or invisible.                                                    *)
ImplementsMailbox == Mailbox!Spec
=============================================================================
