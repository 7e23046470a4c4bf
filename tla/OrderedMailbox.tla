--------------------------- MODULE OrderedMailbox ---------------------------
(***************************************************************************)
(* What the event outbox promises to one registered application: messages  *)
(* are posted in order, the application sees each of them after every      *)
(* earlier one that has not been given up, and the oldest outstanding      *)
(* messages are the ones that get confirmed, never before the application  *)
(* has seen them.  No leases, no workers, no network.                      *)
(***************************************************************************)
EXTENDS Naturals

CONSTANT Rows                       \* message numbers, in posting order

VARIABLES posted, seen, confirmed, dropped

mailbox == <<posted, seen, confirmed, dropped>>

Outstanding == posted \ (confirmed \cup dropped)

\* S is what one gets by cutting Q after some message.
InitialSegment(S, Q) ==
    /\ S \subseteq Q
    /\ \A r \in S, q \in Q : q < r => q \in S

Init ==
    /\ posted = {}
    /\ seen = {}
    /\ confirmed = {}
    /\ dropped = {}

\* New messages are numbered after everything posted so far.
Post(S) ==
    /\ \A r \in S, q \in posted : q < r
    /\ posted' = posted \cup S
    /\ UNCHANGED <<seen, confirmed, dropped>>

\* The application sees S (again, possibly): nothing still owed to it comes
\* before a member of S without being seen too.
See(S) ==
    /\ S \subseteq posted
    /\ \A r \in S, q \in posted : q < r => q \in seen \cup S \cup dropped
    /\ seen' = seen \cup S
    /\ UNCHANGED <<posted, confirmed, dropped>>

Confirm(S) ==
    /\ S \subseteq seen
    /\ InitialSegment(S, Outstanding)
    /\ confirmed' = confirmed \cup S
    /\ UNCHANGED <<posted, seen, dropped>>

Drop(S) ==
    /\ S \subseteq Outstanding
    /\ dropped' = dropped \cup S
    /\ UNCHANGED <<posted, seen, confirmed>>

Next == \E S \in SUBSET Rows : Post(S) \/ See(S) \/ Confirm(S) \/ Drop(S)

Spec == Init /\ [][Next]_mailbox
=============================================================================
