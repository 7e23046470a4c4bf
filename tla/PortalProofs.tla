---------------------------- MODULE PortalProofs ----------------------------
(***************************************************************************)
(* Proofs about the account portal. PortalSessions, for any number of      *)
(* sessions, deliveries, API calls and faults: a logout event is worked    *)
(* on by one delivery at a time, and with one login callback at a time     *)
(* only a rewritten session survives it. OrgPane, for any number of        *)
(* entries and requests: what is saved is what was on screen, and staged   *)
(* changes are kept. Challenges, for any list of methods and any number    *)
(* of asks: what a click asked for runs once. Profile: the picture in use  *)
(* has its file, and whoever changed it told the portal's copy and the     *)
(* applications.                                                           *)
(***************************************************************************)
EXTENDS PortalSessions, OrgPane, Challenges, Profile, WellFoundedInduction, TLAPS

USE RequestsAssumption

\* The event a batch goes on with is one of the batch.
LEMMA MinOfBatch == ASSUME NEW S \in SUBSET Ssos, S # {}
                    PROVE  Min(S) \in S
<1> DEFINE Less == {ss \in Nat \X Nat : ss[1] < ss[2]}
<1>1. S \subseteq Nat
  BY DEF Ssos
<1>2. IsWellFoundedOn(Less, Nat)
  BY NatLessThanWellFounded, Zenon DEF OpToRel
<1>3. \E x \in S : \A y \in S : ~(<<y, x>> \in Less)
  <2> HIDE DEF Less
  <2> QED
    BY <1>1, <1>2, WFMin
<1>4. \E x \in S : \A y \in S : x <= y
  <2>1. PICK x \in S : \A y \in S : ~(<<y, x>> \in Less)
    BY <1>3
  <2>2. ASSUME NEW y \in S PROVE x <= y
    <3>1. x \in Nat /\ y \in Nat
      BY <1>1
    <3>2. y < x => <<y, x>> \in Less
      BY <3>1
    <3>3. QED
      BY <2>1, <3>1, <3>2
  <2>3. QED
    BY <2>2
<1>5. QED
  BY <1>4 DEF Min

-----------------------------------------------------------------------------
(* What each kind of request does, and on what.                            *)

Revoking == {"members", "delete", "unindex"}

RequestInv ==
    /\ \A d \in Deliveries :
         /\ pc[d] \in Revoking \cup {"idle", "next", "forget"}
         /\ pc[d] \in Revoking \cup {"forget"} => subject[d] \in posted
         /\ todo[d] \subseteq posted
    /\ \A l \in Logins :
         /\ pc[l] \in Revoking \cup {"idle", "create", "index"}
         /\ pc[l] # "idle" => subject[l] \in Ssos
         /\ pc[l] = "index" => \A b \in found[l] : boundTo[b] = subject[l]
    /\ \A c \in Calls : pc[c] \in {"idle", "update"} /\ (pc[c] = "update" => subject[c] \in given)

\* A session a browser has is bound to one SSO session for good.
HistoryInv ==
    /\ \A b \in given : boundTo[b] \in Ssos
    /\ \A s \in Ssos : \A b \in before[s] : b \in given /\ boundTo[b] = s
    /\ \A s \in Ssos : s \notin posted => before[s] = {}

Typed == TypeOK /\ RequestInv /\ HistoryInv

LEMMA TypedInit == Init => Typed
BY DEF Init, Typed, TypeOK, RequestInv, HistoryInv, Revoking, Requests, Ssos

LEMMA ReceiveTyped == ASSUME Typed, NEW d \in Deliveries, Receive(d) PROVE Typed'
<1> USE DEF Typed, Revoking
<1>0. d \in Requests
  BY DEF Requests
<1>1. CASE skip(d)
  BY <1>1 DEF skip, TypeOK, RequestInv, HistoryInv, redisVars, historyVars
<1>2. CASE take(d)
  <2>1. Min(todo[d]) \in todo[d] /\ Min(todo[d]) \in Ssos
    BY <1>2, MinOfBatch DEF take, TypeOK
  <2>2. TypeOK'
    BY <1>0, <1>2, <2>1 DEF take, Goto, TypeOK, historyVars
  <2>3. RequestInv' /\ HistoryInv'
    BY <1>0, <1>2, <2>1 DEF take, Goto, TypeOK, RequestInv, HistoryInv, historyVars, Requests
  <2>4. QED
    BY <2>2, <2>3
<1>3. CASE forget(d)
  <2>1. TypeOK'
    BY <1>0, <1>3 DEF forget, Fault, Return, Goto, TypeOK, historyVars
  <2>2. RequestInv' /\ HistoryInv'
    BY <1>0, <1>3 DEF forget, Return, Goto, TypeOK, RequestInv, HistoryInv, historyVars, Requests
  <2>3. QED
    BY <2>1, <2>2
<1>4. CASE answer(d)
  <2>1. TypeOK'
    BY <1>0, <1>4 DEF answer, Return, Goto, TypeOK, historyVars, redisVars
  <2>2. RequestInv' /\ HistoryInv'
    BY <1>0, <1>4 DEF answer, Return, Goto, TypeOK, RequestInv, HistoryInv, historyVars, redisVars,
                      Requests
  <2>3. QED
    BY <2>1, <2>2
<1>5. CASE members(d)
  BY <1>0, <1>5 DEF members, Goto, TypeOK, RequestInv, HistoryInv, historyVars, redisVars, Requests
<1>6. CASE delete(d)
  BY <1>0, <1>6 DEF delete, Goto, TypeOK, RequestInv, HistoryInv, historyVars, Requests
<1>7. CASE unindex(d)
  <2>1. TypeOK'
    BY <1>0, <1>7 DEF unindex, Goto, TypeOK, RequestInv
  <2>2. RequestInv' /\ HistoryInv'
    BY <1>0, <1>7 DEF unindex, Goto, TypeOK, RequestInv, HistoryInv, Requests
  <2>3. QED
    BY <2>1, <2>2
<1>8. QED
  BY <1>1, <1>2, <1>3, <1>4, <1>5, <1>6, <1>7 DEF Receive

LEMMA LoginTyped == ASSUME Typed, NEW l \in Logins, Login(l) PROVE Typed'
<1> USE DEF Typed, Revoking
<1>0. l \in Requests /\ l \notin Deliveries /\ l \notin Calls
  BY DEF Requests
<1>1. CASE callback(l)
  BY <1>0, <1>1 DEF callback, Goto, TypeOK, RequestInv, HistoryInv, historyVars, redisVars, Requests
<1>5. CASE members(l)
  BY <1>0, <1>5 DEF members, Goto, TypeOK, RequestInv, HistoryInv, historyVars, redisVars, Requests
<1>6. CASE delete(l)
  BY <1>0, <1>6 DEF delete, Goto, TypeOK, RequestInv, HistoryInv, historyVars, Requests
<1>7. CASE unindex(l)
  BY <1>0, <1>7 DEF unindex, Goto, TypeOK, RequestInv, HistoryInv, Requests
<1>8. CASE create(l)
  <2>1. PICK b \in Sids : /\ boundTo[b] = None
                          /\ sessions' = sessions \cup {b}
                          /\ boundTo' = [boundTo EXCEPT ![b] = subject[l]]
                          /\ found' = [found EXCEPT ![l] = {b}]
    BY <1>8 DEF create, Unused
  <2>2. b \notin given /\ subject[l] \in Ssos
    BY <1>8, <2>1 DEF create, HistoryInv, RequestInv
  <2>3. TypeOK'
    BY <1>0, <1>8, <2>1, <2>2 DEF create, Goto, TypeOK, historyVars
  <2>4. HistoryInv'
    BY <1>8, <2>1, <2>2 DEF create, HistoryInv, historyVars, TypeOK
  <2>5. \A m \in Logins : pc'[m] = "index" => \A c \in found'[m] : boundTo'[c] = subject'[m]
    <3> SUFFICES ASSUME NEW m \in Logins, pc'[m] = "index", NEW c \in found'[m]
                 PROVE  boundTo'[c] = subject'[m]
      OBVIOUS
    <3>1. CASE m = l
      BY <1>0, <1>8, <2>1, <3>1 DEF create, TypeOK
    <3>2. CASE m # l
      <4>1. pc[m] = "index" /\ c \in found[m] /\ m \in Requests
        BY <1>0, <1>8, <2>1, <3>2 DEF create, Goto, TypeOK, Requests
      <4>2. boundTo[c] = subject[m] /\ subject[m] \in Ssos
        BY <4>1 DEF RequestInv
      <4>3. c # b
        BY <2>1, <4>2
      <4>4. QED
        BY <1>8, <2>1, <4>2, <4>3 DEF create, TypeOK
    <3>3. QED
      BY <3>1, <3>2
  <2>6. RequestInv'
    BY <1>0, <1>8, <2>2, <2>5 DEF create, Goto, TypeOK, RequestInv, historyVars, Requests
  <2>7. QED
    BY <2>3, <2>4, <2>6
<1>9. CASE addToIndex(l)
  <2>1. TypeOK'
    BY <1>0, <1>9 DEF addToIndex, NewIndex, Return, Goto, TypeOK, RequestInv
  <2>2. RequestInv'
    BY <1>0, <1>9 DEF addToIndex, Return, Goto, TypeOK, RequestInv, Requests
  <2>3. HistoryInv'
    BY <1>0, <1>9 DEF addToIndex, RequestInv, HistoryInv, TypeOK
  <2>4. QED
    BY <2>1, <2>2, <2>3
<1>10. QED
  BY <1>1, <1>5, <1>6, <1>7, <1>8, <1>9 DEF Login

LEMMA TypedStep == Typed /\ [Next]_vars => Typed'
<1> SUFFICES ASSUME Typed, [Next]_vars PROVE Typed'
  OBVIOUS
<1> USE DEF Typed, Revoking
<1>1. ASSUME NEW s \in Ssos, Post(s) PROVE Typed'
  <2>1. s \notin posted
    BY <1>1 DEF Post, Ssos
  <2>2. QED
    BY <1>1, <2>1 DEF Post, TypeOK, RequestInv, HistoryInv, redisVars, handlerVars
<1>2. ASSUME NEW d \in Deliveries, NEW S \in SUBSET posted, deliver(d, S) PROVE Typed'
  <2>1. d \in Requests /\ d \notin Logins /\ d \notin Calls
    BY DEF Requests
  <2>2. QED
    BY <1>2, <2>1 DEF deliver, Goto, TypeOK, RequestInv, HistoryInv, redisVars, historyVars, Requests
<1>3. ASSUME NEW r \in Requests, redisFails(r) PROVE Typed'
  <2>1. TypeOK'
    BY <1>3 DEF redisFails, Fault, Return, Goto, TypeOK, redisVars, historyVars
  <2>2. RequestInv'
    BY <1>3 DEF redisFails, Return, Goto, TypeOK, RequestInv, redisVars, historyVars, Requests
  <2>3. HistoryInv'
    BY <1>3 DEF redisFails, HistoryInv, redisVars, historyVars
  <2>4. QED
    BY <2>1, <2>2, <2>3
<1>4. ASSUME NEW c \in Calls, getSession(c) PROVE Typed'
  BY <1>4 DEF getSession, Goto, TypeOK, RequestInv, HistoryInv, redisVars, historyVars, Requests
<1>5. ASSUME NEW c \in Calls, updateSession(c) PROVE Typed'
  <2>1. TypeOK'
    BY <1>5 DEF updateSession, Return, Goto, TypeOK, RequestInv, Requests
  <2>2. RequestInv' /\ HistoryInv'
    BY <1>5 DEF updateSession, Return, Goto, TypeOK, RequestInv, HistoryInv, Requests
  <2>3. QED
    BY <2>1, <2>2
<1>6. ASSUME NEW b \in Sids, destroySession(b) PROVE Typed'
  BY <1>6 DEF destroySession, TypeOK, RequestInv, HistoryInv, handlerVars, historyVars
<1>7. CASE Crash
  BY <1>7 DEF Crash, Fault, TypeOK, RequestInv, HistoryInv, redisVars, historyVars, Requests
<1>8. CASE UNCHANGED vars
  BY <1>8 DEF vars, TypeOK, RequestInv, HistoryInv, redisVars, handlerVars, historyVars
<1>9. ASSUME NEW s \in Ssos, indexExpires(s) PROVE Typed'
  BY <1>9 DEF indexExpires, TypeOK, RequestInv, HistoryInv, handlerVars, historyVars
<1>10. QED
  BY <1>1, <1>2, <1>3, <1>4, <1>5, <1>6, <1>7, <1>8, <1>9, ReceiveTyped, LoginTyped DEF Next

-----------------------------------------------------------------------------
(* One delivery at a time works on an event.                               *)

LEMMA OneHandlerStep == ASSUME Typed, Typed', OneHandler, [Next]_vars PROVE OneHandler'
<1> USE DEF OneHandler, Handling
<1>1. ASSUME NEW d \in Deliveries, take(d) PROVE OneHandler'
  BY <1>1 DEF take, AlreadySeen, Goto, Typed, TypeOK, Requests
\* The mark d takes back is the mark of what d alone works on.
<1>2. ASSUME NEW d \in Deliveries, forget(d) PROVE OneHandler'
  <2>1. subject[d] \in Ssos
    BY <1>2 DEF forget, Typed, RequestInv, TypeOK
  <2>2. \A c \in Deliveries, e \in Ssos : Handling(c, e)' => Handling(c, e) /\ c # d
    BY <1>2 DEF forget, Return, Goto, Typed, TypeOK, Requests
  <2>3. \A e \in seen : e \in seen' \/ e = subject[d]
    BY <1>2 DEF forget
  <2>4. QED
    BY <1>2, <2>1, <2>2, <2>3 DEF forget
<1>3. ASSUME seen' = seen,
             \A c \in Deliveries, e \in Ssos : Handling(c, e)' => Handling(c, e)
      PROVE  OneHandler'
  BY <1>3
<1>4. ASSUME NEW d \in Deliveries,
             skip(d) \/ answer(d) \/ members(d) \/ delete(d) \/ unindex(d)
      PROVE  OneHandler'
  BY <1>3, <1>4 DEF skip, answer, members, delete, unindex, Return, Goto, redisVars, Typed, TypeOK,
                    Requests
<1>5. ASSUME NEW r \in Requests, redisFails(r) PROVE OneHandler'
  BY <1>3, <1>5 DEF redisFails, Return, Goto, redisVars, Typed, TypeOK, RequestInv, Requests, Revoking
<1>6. ASSUME NEW l \in Logins, Login(l) PROVE OneHandler'
  <2>1. l \notin Deliveries /\ l \in Requests
    BY DEF Requests
  <2>2. seen' = seen /\ \A c \in Deliveries : pc'[c] = pc[c] /\ subject'[c] = subject[c]
    BY <1>6, <2>1 DEF Login, callback, members, delete, unindex, create, addToIndex, Return, Goto,
                      redisVars, Typed, TypeOK, Requests
  <2>3. QED
    BY <1>3, <2>2
<1>7. ASSUME NEW c \in Calls, getSession(c) \/ updateSession(c) PROVE OneHandler'
  BY <1>3, <1>7 DEF getSession, updateSession, Return, Goto, redisVars, Typed, TypeOK, Requests
<1>8. ASSUME NEW d \in Deliveries, NEW S \in SUBSET posted, deliver(d, S) PROVE OneHandler'
  BY <1>3, <1>8 DEF deliver, Goto, redisVars, Typed, TypeOK, Requests
<1>9. CASE Crash
  BY <1>3, <1>9 DEF Crash, redisVars, Requests
<1>10. CASE UNCHANGED <<seen, handlerVars>>
  BY <1>3, <1>10 DEF handlerVars
<1>11. QED
  BY <1>1, <1>2, <1>4, <1>5, <1>6, <1>7, <1>8, <1>9, <1>10
  DEF Next, Receive, Post, indexExpires, destroySession, vars, redisVars

\* Two deliveries of one event never work on it at the same time, and a
\* failing one takes back only its own mark (backchannel.ts), for any number
\* of deliveries, faults and restarts.
THEOREM AlwaysOneHandler == Spec => []OneHandler
<1>1. Init => OneHandler
  BY DEF Init, OneHandler, Handling, Requests
<1>2. Typed /\ OneHandler /\ [Next]_vars => OneHandler'
  BY OneHandlerStep, TypedStep
<1>3. QED
  BY <1>1, <1>2, TypedInit, TypedStep, PTL DEF Spec

\* The state holds what it is declared to hold (session.ts, backchannel.ts).
THEOREM TypeCorrect == Spec => []TypeOK
<1>1. Typed => TypeOK
  BY DEF Typed
<1>2. QED
  BY <1>1, TypedInit, TypedStep, PTL DEF Spec

-----------------------------------------------------------------------------
(* Sessions that survive their logout.                                     *)

\* What a logout of s has to remove: the sessions of s that browsers have,
\* or had when the event was posted, and that no call has written again.
Owed(s) ==
    {b \in given \cap sessions : /\ boundTo[b] = s
                                 /\ b \notin revived
                                 /\ s \in posted => b \in before[s]}

\* The index finds all of it, and so do the three steps of a revocation.
LogoutInv ==
    /\ \A s \in Ssos : Owed(s) \subseteq index[s]
    /\ \A r \in Deliveries \cup Logins :
         /\ pc[r] = "delete" => Owed(subject[r]) \subseteq found[r]
         /\ pc[r] = "unindex" => Owed(subject[r]) = {}
    /\ OnlyRevivedSurvive

\* Login callbacks do not overlap.
OneLogin == \A l, m \in Logins : l = m

\* Where nothing is owed that was not owed before.
LEMMA NothingOwed == ASSUME Typed, LogoutInv, NEW s \in Ssos, Owed(s)' \subseteq Owed(s)
                     PROVE  /\ Owed(s)' \subseteq index[s]
                            /\ \A r \in Deliveries \cup Logins : subject[r] = s =>
                                 /\ pc[r] = "delete" => Owed(s)' \subseteq found[r]
                                 /\ pc[r] = "unindex" => Owed(s)' = {}
BY DEF LogoutInv

LEMMA LogoutStep == ASSUME OneLogin, Typed, Typed', LogoutInv, [Next]_vars PROVE LogoutInv'
<1> DEFINE Reqs == Deliveries \cup Logins
<1>r. \A r \in Reqs : /\ r \in Requests
                      /\ pc[r] \in Revoking => subject[r] \in Ssos
  BY DEF Typed, TypeOK, Revoking, Requests
\* A step that leaves index, found and applied alone and owes nothing new.
<1>0. ASSUME index' = index, applied' = applied,
             \A s \in Ssos : Owed(s)' \subseteq Owed(s),
             \A e \in applied : before'[e] = before[e],
             sessions' \ revived' \subseteq (sessions \ revived) \cup (Sids \ given),
             \A r \in Reqs :
               /\ pc'[r] = "delete" =>
                    /\ pc[r] = "delete" /\ found'[r] = found[r] /\ subject'[r] = subject[r]
               /\ pc'[r] = "unindex" => pc[r] = "unindex" /\ subject'[r] = subject[r]
      PROVE  LogoutInv'
  <2>1. \A s \in Ssos : Owed(s)' \subseteq index'[s]
    BY <1>0, NothingOwed
  <2>2. ASSUME NEW r \in Reqs, pc'[r] = "delete" PROVE Owed(subject[r])' \subseteq found'[r]
    <3>1. PICK s \in Ssos : s = subject[r]
      BY <1>r, <1>0, <2>2 DEF Revoking
    <3>2. Owed(s)' \subseteq found'[r] /\ subject'[r] = s
      BY <1>0, <2>2, <3>1 DEF LogoutInv
    <3>3. QED
      BY <3>2 DEF Owed
  <2>3. ASSUME NEW r \in Reqs, pc'[r] = "unindex" PROVE Owed(subject[r])' = {}
    <3>1. PICK s \in Ssos : s = subject[r]
      BY <1>r, <1>0, <2>3 DEF Revoking
    <3>2. Owed(s)' = {} /\ subject'[r] = s
      BY <1>0, <2>3, <3>1 DEF LogoutInv
    <3>3. QED
      BY <3>2 DEF Owed
  <2>4. OnlyRevivedSurvive'
    <3> SUFFICES ASSUME NEW e \in applied, NEW b \in before[e], b \in sessions', b \notin revived'
                 PROVE  FALSE
      BY <1>0 DEF OnlyRevivedSurvive
    <3>1. b \in given /\ e \in Ssos
      BY DEF Typed, HistoryInv, TypeOK
    <3>2. b \in sessions /\ b \notin revived
      BY <1>0, <3>1 DEF Typed, TypeOK
    <3>3. QED
      BY <3>2 DEF LogoutInv, OnlyRevivedSurvive
  <2>5. QED
    BY <2>1, <2>2, <2>3, <2>4 DEF LogoutInv
<1>1. ASSUME NEW s \in Ssos, Post(s) PROVE LogoutInv'
  <2>1. s \notin posted
    BY <1>1 DEF Post, Ssos
  <2>2. \A t \in Ssos : Owed(t)' \subseteq Owed(t)
    BY <1>1, <2>1 DEF Post, redisVars, Owed, Typed, TypeOK
  <2>3. QED
    BY <1>0, <1>1, <2>1, <2>2 DEF Post, redisVars, handlerVars, Typed, TypeOK
<1>2. ASSUME UNCHANGED <<sessions, boundTo, index, posted, historyVars>>,
             \A r \in Reqs :
               /\ pc'[r] = "delete" =>
                    /\ pc[r] = "delete" /\ found'[r] = found[r] /\ subject'[r] = subject[r]
               /\ pc'[r] = "unindex" => pc[r] = "unindex" /\ subject'[r] = subject[r]
      PROVE  LogoutInv'
  <2>1. \A t \in Ssos : Owed(t)' \subseteq Owed(t)
    BY <1>2 DEF historyVars, Owed
  <2>2. QED
    BY <1>0, <1>2, <2>1 DEF historyVars
<1>3. ASSUME NEW d \in Deliveries, skip(d) \/ take(d) \/ forget(d) \/ answer(d) PROVE LogoutInv'
  BY <1>r, <1>2, <1>3 DEF skip, take, forget, answer, Return, Goto, redisVars, Typed, TypeOK
<1>4. ASSUME NEW d \in Deliveries, NEW S \in SUBSET posted, deliver(d, S) PROVE LogoutInv'
  BY <1>r, <1>2, <1>4 DEF deliver, Goto, redisVars, Typed, TypeOK
<1>5. ASSUME NEW r \in Reqs, members(r) PROVE LogoutInv'
  <2>1. r \in Requests /\ subject[r] \in Ssos
    BY <1>r, <1>5 DEF members, Revoking
  <2>2. \A s : Owed(s)' = Owed(s)
    BY <1>5 DEF members, redisVars, historyVars, Owed
  <2>3. UNCHANGED <<sessions, index, applied, before, revived, subject>>
    BY <1>5 DEF members, redisVars, historyVars
  <2>4. \A q \in Reqs :
          /\ pc'[q] = "delete" => IF q = r THEN found'[q] = index[subject[r]]
                                  ELSE pc[q] = "delete" /\ found'[q] = found[q]
          /\ pc'[q] = "unindex" => pc[q] = "unindex"
    <3>1. pc'[r] = "delete" /\ found'[r] = index[subject[r]]
      BY <1>5, <2>1 DEF members, Goto, Typed, TypeOK
    <3>2. \A q \in Requests : q # r => pc'[q] = pc[q] /\ found'[q] = found[q]
      BY <1>5, <2>1 DEF members, Goto, Typed, TypeOK
    <3>3. QED
      BY <1>r, <3>1, <3>2
  <2>5. \A s \in Ssos : Owed(s)' \subseteq index'[s]
    BY <2>2, <2>3 DEF LogoutInv
  <2>6. \A q \in Reqs : /\ pc'[q] = "delete" => Owed(subject[q]) \subseteq found'[q]
                        /\ pc'[q] = "unindex" => Owed(subject[q]) = {}
    BY <2>1, <2>4 DEF LogoutInv
  <2>7. OnlyRevivedSurvive'
    BY <2>3 DEF LogoutInv, OnlyRevivedSurvive
  <2>8. \A q \in Reqs : Owed(subject[q])' = Owed(subject[q])
    BY <2>2, <2>3, <1>5 DEF members, redisVars, historyVars, Owed
  <2>9. QED
    BY <2>3, <2>5, <2>6, <2>7, <2>8 DEF LogoutInv
<1>6. ASSUME NEW r \in Reqs, delete(r) PROVE LogoutInv'
  <2>1. r \in Requests /\ subject[r] \in Ssos
    BY <1>r, <1>6 DEF delete, Revoking
  <2>2. /\ UNCHANGED <<boundTo, index, subject, found, posted, historyVars>>
        /\ sessions' = sessions \ found[r]
    BY <1>6 DEF delete
  <2>3. \A s \in Ssos : Owed(s)' = Owed(s) \ found[r]
    BY <2>2 DEF Owed, historyVars
  <2>4. Owed(subject[r]) \ found[r] = {}
    BY <1>6 DEF delete, LogoutInv
  <2>5. \A q \in Reqs : /\ pc'[q] = "delete" => pc[q] = "delete" /\ found'[q] = found[q]
                        /\ pc'[q] = "unindex" => pc[q] = "unindex" \/ q = r
    BY <1>r, <1>6, <2>1, <2>2 DEF delete, Goto, Typed, TypeOK
  <2>6. \A q \in Reqs : Owed(subject[q])' = Owed(subject[q]) \ found[r]
    BY <2>2 DEF Owed, historyVars
  <2>7. OnlyRevivedSurvive'
    BY <2>2 DEF LogoutInv, OnlyRevivedSurvive, historyVars
  <2>8. \A s \in Ssos : Owed(s)' \subseteq index'[s]
    BY <2>2, <2>3 DEF LogoutInv
  <2>9. \A q \in Reqs : /\ pc'[q] = "delete" => Owed(subject[q])' \subseteq found'[q]
                        /\ pc'[q] = "unindex" => Owed(subject[q])' = {}
    BY <2>4, <2>5, <2>6 DEF LogoutInv
  <2>10. QED
    BY <2>7, <2>8, <2>9 DEF LogoutInv
<1>7. ASSUME NEW r \in Reqs, unindex(r) PROVE LogoutInv'
  <2>1. r \in Requests /\ subject[r] \in Ssos /\ Owed(subject[r]) = {}
    BY <1>r, <1>7 DEF unindex, Revoking, LogoutInv
  <2>2. /\ UNCHANGED <<sessions, boundTo, posted, given, before, revived>>
        /\ index' = [index EXCEPT ![subject[r]] = {}]
        /\ applied' \subseteq applied \cup {subject[r]}
        /\ applied' # applied => r \in Deliveries
    BY <1>7 DEF unindex
  <2>3. \A s \in Ssos : Owed(s)' = Owed(s)
    BY <2>2 DEF Owed
  <2>4. \A s \in Ssos : Owed(s)' \subseteq index'[s]
    BY <2>1, <2>2, <2>3 DEF LogoutInv, Typed, TypeOK
  <2>5. \A q \in Reqs :
          /\ pc'[q] = "delete" => pc[q] = "delete" /\ found'[q] = found[q] /\ subject'[q] = subject[q]
          /\ pc'[q] = "unindex" => pc[q] = "unindex" /\ subject'[q] = subject[q]
    BY <1>r, <1>7, <2>1 DEF unindex, Goto, Typed, TypeOK
  <2>6. \A q \in Reqs : /\ pc'[q] = "delete" => Owed(subject[q])' \subseteq found'[q]
                        /\ pc'[q] = "unindex" => Owed(subject[q])' = {}
    <3>1. \A q \in Reqs : subject'[q] = subject[q] => Owed(subject[q])' = Owed(subject[q])
      BY <2>2 DEF Owed
    <3>2. QED
      BY <2>5, <3>1 DEF LogoutInv
  \* The event was posted, so what it did not owe at that time it never owes.
  <2>7. ASSUME r \in Deliveries PROVE before[subject[r]] \cap sessions \subseteq revived
    <3>1. subject[r] \in posted
      BY <1>7, <2>7 DEF unindex, Typed, RequestInv, Revoking
    <3>2. QED
      BY <2>1, <3>1 DEF Owed, Typed, HistoryInv
  <2>8. OnlyRevivedSurvive'
    BY <2>2, <2>7 DEF LogoutInv, OnlyRevivedSurvive
  <2>9. QED
    BY <2>4, <2>6, <2>8 DEF LogoutInv
<1>8. ASSUME NEW r \in Requests, redisFails(r) PROVE LogoutInv'
  BY <1>r, <1>2, <1>8 DEF redisFails, Return, Goto, redisVars, Typed, TypeOK
<1>9. ASSUME NEW l \in Logins, callback(l) PROVE LogoutInv'
  BY <1>r, <1>2, <1>9 DEF callback, Goto, redisVars, Typed, TypeOK
<1>10. ASSUME NEW l \in Logins, create(l) PROVE LogoutInv'
  <2>1. PICK b \in Sids : /\ boundTo[b] = None
                          /\ sessions' = sessions \cup {b}
                          /\ boundTo' = [boundTo EXCEPT ![b] = subject[l]]
    BY <1>10 DEF create, Unused
  <2>2. b \notin given
    BY <2>1 DEF Typed, HistoryInv
  <2>3. \A s \in Ssos : Owed(s)' \subseteq Owed(s)
    BY <1>10, <2>1, <2>2 DEF create, Owed, historyVars, Typed, TypeOK
  <2>4. \A r \in Reqs :
          /\ pc'[r] = "delete" => pc[r] = "delete" /\ found'[r] = found[r] /\ subject'[r] = subject[r]
          /\ pc'[r] = "unindex" => pc[r] = "unindex" /\ subject'[r] = subject[r]
    BY <1>r, <1>10 DEF create, Goto, Typed, TypeOK
  <2>5. QED
    BY <1>0, <1>10, <2>1, <2>2, <2>3, <2>4 DEF create, historyVars
\* The new session is in the index at once; nobody else is half way through
\* a revocation it would owe: a delivery works on an event posted before.
<1>11. ASSUME NEW l \in Logins, addToIndex(l) PROVE LogoutInv'
  <2>1. l \in Requests /\ subject[l] \in Ssos /\ found[l] \subseteq Sids
        /\ \A b \in found[l] : boundTo[b] = subject[l]
    BY <1>11 DEF addToIndex, Typed, RequestInv, TypeOK, Requests
  <2>2. /\ UNCHANGED <<sessions, boundTo, posted, before, applied, revived>>
        /\ index' = [index EXCEPT ![subject[l]] = @ \cup found[l]]
        /\ given' = given \cup found[l]
    BY <1>11 DEF addToIndex, NewIndex
  <2>3. \A s \in Ssos : Owed(s)' \subseteq IF s = subject[l] THEN Owed(s) \cup found[l] ELSE Owed(s)
    BY <2>1, <2>2 DEF Owed
  <2>4. \A s \in Ssos : s \in posted => Owed(s)' \subseteq Owed(s)
    BY <2>2 DEF Owed, Typed, HistoryInv
  <2>5. \A s \in Ssos : Owed(s)' \subseteq index'[s]
    BY <2>1, <2>2, <2>3 DEF LogoutInv, Typed, TypeOK
  <2>6. ASSUME NEW r \in Reqs, pc'[r] \in {"delete", "unindex"}
        PROVE  /\ r \in Deliveries
               /\ pc[r] = pc'[r] /\ found'[r] = found[r] /\ subject'[r] = subject[r]
               /\ subject[r] \in posted
    <3>1. r # l
      BY <1>r, <1>11, <2>1, <2>6 DEF addToIndex, Return, Goto, Typed, TypeOK
    <3>2. r \in Deliveries
      BY <2>6, <3>1 DEF OneLogin
    <3>3. pc[r] = pc'[r] /\ found'[r] = found[r] /\ subject'[r] = subject[r]
      BY <1>r, <1>11, <2>1, <3>1 DEF addToIndex, Return, Goto, Typed, TypeOK
    <3>4. QED
      BY <2>6, <3>2, <3>3 DEF Typed, RequestInv, Revoking
  <2>7. ASSUME NEW r \in Reqs, pc'[r] \in {"delete", "unindex"}
        PROVE  Owed(subject[r])' \subseteq Owed(subject[r])
    <3>1. PICK s \in Ssos : s = subject[r] /\ s \in posted /\ s = subject'[r]
      BY <2>6, <2>7 DEF Typed, TypeOK
    <3>2. Owed(s)' \subseteq Owed(s)
      BY <2>4, <3>1
    <3>3. QED
      BY <3>1, <3>2 DEF Owed
  <2>8. \A r \in Reqs : /\ pc'[r] = "delete" => Owed(subject[r])' \subseteq found'[r]
                        /\ pc'[r] = "unindex" => Owed(subject[r])' = {}
    BY <2>6, <2>7 DEF LogoutInv
  <2>9. OnlyRevivedSurvive'
    BY <2>2 DEF LogoutInv, OnlyRevivedSurvive
  <2>10. QED
    BY <2>5, <2>8, <2>9 DEF LogoutInv
<1>12. ASSUME NEW c \in Calls, getSession(c) PROVE LogoutInv'
  BY <1>r, <1>2, <1>12 DEF getSession, Goto, redisVars, Typed, TypeOK
<1>13. ASSUME NEW c \in Calls, updateSession(c) PROVE LogoutInv'
  <2>1. \A s \in Ssos : Owed(s)' \subseteq Owed(s)
    BY <1>13 DEF updateSession, Owed
  <2>2. \A r \in Reqs :
          /\ pc'[r] = "delete" => pc[r] = "delete" /\ found'[r] = found[r] /\ subject'[r] = subject[r]
          /\ pc'[r] = "unindex" => pc[r] = "unindex" /\ subject'[r] = subject[r]
    BY <1>r, <1>13 DEF updateSession, Return, Goto, Typed, TypeOK
  <2>3. QED
    BY <1>0, <1>13, <2>1, <2>2 DEF updateSession
<1>14. ASSUME NEW b \in Sids, destroySession(b) PROVE LogoutInv'
  <2>1. \A s \in Ssos : Owed(s)' \subseteq Owed(s)
    BY <1>14 DEF destroySession, Owed, historyVars
  <2>2. QED
    BY <1>0, <1>14, <2>1 DEF destroySession, handlerVars, historyVars
<1>15. CASE Crash
  BY <1>r, <1>2, <1>15 DEF Crash, redisVars
<1>16. CASE UNCHANGED vars
  BY <1>2, <1>16 DEF vars, redisVars, handlerVars
\* What the expired index held is owed to nobody.
<1>17. ASSUME NEW s \in Ssos, indexExpires(s) PROVE LogoutInv'
  <2>1. \A t \in Ssos : Owed(t)' = Owed(t) /\ (t = s => Owed(t) = {})
    BY <1>17 DEF indexExpires, Owed, historyVars
  <2>2. UNCHANGED <<sessions, boundTo, pc, subject, found, posted, given, before, applied, revived>>
    BY <1>17 DEF indexExpires, handlerVars, historyVars
  <2>3. \A t \in Ssos : t # s => index'[t] = index[t]
    BY <1>17 DEF indexExpires, Typed, TypeOK
  <2>4. \A t \in Ssos : Owed(t)' \subseteq index'[t]
    BY <2>1, <2>3 DEF LogoutInv
  <2>5. \A q \in Reqs : Owed(subject[q])' = Owed(subject[q])
    BY <2>2 DEF Owed
  <2>6. OnlyRevivedSurvive'
    BY <2>2 DEF LogoutInv, OnlyRevivedSurvive
  <2>7. QED
    BY <2>2, <2>4, <2>5, <2>6 DEF LogoutInv
<1>18. QED
  BY <1>1, <1>3, <1>4, <1>5, <1>6, <1>7, <1>8, <1>9, <1>10, <1>11, <1>12, <1>13, <1>14, <1>15, <1>16,
     <1>17
  DEF Next, Receive, Login

\* With one login callback at a time, a session that a browser held when its
\* SSO session ended survives the applied logout only by being written again
\* (session.ts, backchannel.ts); for any number of deliveries and API calls,
\* in any order, with any faults.
THEOREM OnlyRevivedSurviveAlways ==
    ASSUME OneLogin PROVE Spec => []OnlyRevivedSurvive
<1>1. Init => LogoutInv
  BY DEF Init, LogoutInv, Owed, OnlyRevivedSurvive, Requests
<1>2. Typed /\ LogoutInv /\ [Next]_vars => LogoutInv'
  BY LogoutStep, TypedStep
<1>3. LogoutInv => OnlyRevivedSurvive
  BY DEF LogoutInv
<1>4. QED
  BY <1>1, <1>2, <1>3, TypedInit, TypedStep, PTL DEF Spec

-----------------------------------------------------------------------------
(* The organization's panes.  The shapes of requests and of the pane, and  *)
(* which entries a request can be about: a change or a detail read is of a *)
(* real one, and only the roles page deletes.                              *)
Docs == [entry : Entries, ver : Nat]
AnyEntry == Entries \cup {NoEntry}
Whats == Changes \cup {"list", "detail", "gate", "over"}
AnyOrgRequest ==
    [what : Whats, entry : AnyEntry, sel : AnyEntry, edits : SUBSET Docs, then : Changes \cup {"none"},
     inst : Nat, card : Nat, no : Nat, back : BOOLEAN, ans : {"none", "ok", "error", "stale"}, ver : Nat]
Sections == {"Profile", "Security", "Access", "Sessions"}
AnyPane ==
    [view : {"user", "roles"}, inst : Nat, card : Nat, sel : AnyEntry, shown : Docs \cup {NoDetail},
     staged : SUBSET Docs, typed : BOOLEAN, busy : BOOLEAN, sec : Sections, listed : BOOLEAN,
     failed : BOOLEAN, creating : BOOLEAN]

Proper(v) ==
    {r \in AnyOrgRequest : /\ r.what \in Changes \cup {"detail"} => r.entry \in Entries
                           /\ r.what = "delete" => v = "roles"
                           /\ \A e \in r.edits : e.entry = r.entry}
Leaving(v) == {r \in Proper(v) : ~r.back}
\* Sections, and passwords to type, are a user's.
PaneOK(p) ==
    /\ p \in AnyPane /\ p.staged \subseteq {p.shown}
    /\ p.view = "user" => p.sel \in Entries
    /\ p.view = "roles" => p.sec = "Profile" /\ ~p.typed

ServerOK ==
    /\ server.ver \in [Entries -> Nat] /\ server.gone \subseteq Entries
    /\ server = [ver |-> server.ver, gone |-> server.gone, fresh |-> server.fresh]
DeskOK == orgSent \in Nat /\ PaneOK(pane) /\ line \subseteq Proper(pane.view)
OrgInv == ServerOK /\ DeskOK

\* What leaves a pane is well formed; the answers it handled are gone.
LEMMA Sent ==
    ASSUME NEW v, NEW S \in SUBSET line, NEW rs \in Seq(Leaving(v)), orgSent \in Nat,
           line \subseteq Proper(v), Sends(S, rs)
    PROVE  /\ line' \subseteq Proper(v) /\ orgSent' \in Nat
           /\ \A r \in S : r.back => r \notin line'
<1>1. \A k \in DOMAIN rs : rs[k] \in Leaving(v) /\ k \in Nat
  OBVIOUS
<1>2. \A k \in DOMAIN rs : [rs[k] EXCEPT !.no = orgSent + k] \in Leaving(v)
  <2> SUFFICES ASSUME NEW k \in DOMAIN rs
               PROVE  [rs[k] EXCEPT !.no = orgSent + k] \in Leaving(v)
    OBVIOUS
  <2>1. rs[k] \in Leaving(v) /\ orgSent + k \in Nat
    BY <1>1
  <2> QED BY <2>1 DEF Leaving, Proper, AnyOrgRequest
<1>3. \A r \in line' : (r \in line /\ r \notin S) \/ r \in Leaving(v)
  BY <1>2 DEF Sends
<1>4. orgSent' \in Nat
  BY DEF Sends
<1> QED BY <1>3, <1>4 DEF Leaving

LEMMA FreshRequest ==
    ASSUME PaneOK(pane), NEW what \in Whats, NEW s \in AnyEntry,
           what \in Changes \cup {"detail"} => s \in Entries, what = "delete" => pane.view = "roles"
    PROVE  Request(what, s) \in Leaving(pane.view)
BY DEF PaneOK, AnyPane, Request, Leaving, Proper, AnyOrgRequest

LEMMA LaterRequest ==
    ASSUME PaneOK(pane), NEW r \in AnyOrgRequest, NEW what \in {"list", "detail"}, NEW s \in AnyEntry,
           what = "detail" => s \in Entries
    PROVE  Later(r, what, s) \in Leaving(pane.view)
<1>1. Request(what, s) \in Leaving(pane.view) /\ Request(what, s).what = what
  BY FreshRequest DEF Whats, Changes, Request
<1> QED BY <1>1 DEF Later, Leaving, Proper, AnyOrgRequest

\* What the handlers do to the pane.
LEMMA Panes ==
    ASSUME NEW p, PaneOK(p)
    PROVE  /\ PaneOK(Unmount(p)) /\ PaneOK(TearDown(p)) /\ PaneOK(Mount(p))
           /\ Unmount(p).view = p.view /\ TearDown(p).view = p.view /\ Mount(p).view = p.view
           /\ Mount(p).staged = p.staged /\ Mount(p).typed = p.typed
<1>0. /\ p \in AnyPane /\ p.staged \subseteq {p.shown} /\ (p.view = "user" => p.sel \in Entries)
      /\ p.view = "roles" => p.sec = "Profile" /\ ~p.typed
  BY DEF PaneOK
<1>1. PICK c \in Nat : c = p.card + 1
  BY <1>0 DEF AnyPane
<1>2. PICK n \in Nat : n = p.inst + 1
  BY <1>0 DEF AnyPane
<1>3. PaneOK(Unmount(p)) /\ Unmount(p).view = p.view /\ Unmount(p).inst = p.inst
  <2>1. Unmount(p) = [p EXCEPT !.card = c, !.shown = NoDetail, !.staged = {}, !.typed = FALSE, !.busy = FALSE]
    BY <1>1 DEF Unmount
  <2>2. Unmount(p) \in AnyPane
    BY <1>0, <2>1 DEF AnyPane
  <2>3. /\ Unmount(p).view = p.view /\ Unmount(p).sel = p.sel /\ Unmount(p).inst = p.inst
        /\ Unmount(p).staged = {} /\ Unmount(p).typed = FALSE /\ Unmount(p).sec = p.sec
    BY <1>0, <2>1 DEF AnyPane
  <2> QED BY <1>0, <2>2, <2>3 DEF PaneOK
<1>4. PaneOK(TearDown(p)) /\ TearDown(p).view = p.view
  <2>1. TearDown(p) = [Unmount(p) EXCEPT !.inst = n, !.creating = FALSE]
    BY <1>2, <1>3 DEF TearDown, PaneOK, AnyPane
  <2>2. Unmount(p) \in AnyPane
    BY <1>3 DEF PaneOK
  <2>3. TearDown(p) \in AnyPane
    BY <2>1, <2>2 DEF AnyPane
  <2>4. /\ TearDown(p).view = Unmount(p).view /\ TearDown(p).sel = Unmount(p).sel
        /\ TearDown(p).staged = Unmount(p).staged /\ TearDown(p).shown = Unmount(p).shown
        /\ TearDown(p).sec = Unmount(p).sec /\ TearDown(p).typed = Unmount(p).typed
    BY <2>1, <2>2 DEF AnyPane
  <2> QED BY <1>3, <2>3, <2>4 DEF PaneOK
<1>5. PaneOK(Mount(p)) /\ Mount(p).view = p.view /\ Mount(p).staged = p.staged /\ Mount(p).typed = p.typed
  <2>0. PICK e \in AnyEntry : e = IF p.view = "user" THEN p.sel ELSE NoEntry
    BY <1>0 DEF AnyPane, AnyEntry
  <2>1. Mount(p) = [p EXCEPT !.inst = n, !.card = c, !.sec = "Profile", !.failed = FALSE,
                             !.listed = FALSE, !.sel = e]
    BY <1>1, <1>2, <2>0 DEF Mount
  <2>2. Mount(p) \in AnyPane
    <3>1. [p EXCEPT !.inst = n, !.card = c, !.sec = "Profile"] \in AnyPane
      BY <1>0 DEF AnyPane, Sections
    <3>2. [[p EXCEPT !.inst = n, !.card = c, !.sec = "Profile"] EXCEPT !.failed = FALSE, !.listed = FALSE,
             !.sel = e] \in AnyPane
      BY <3>1 DEF AnyPane
    <3> QED BY <2>1, <3>2
  <2>3. /\ Mount(p).view = p.view /\ Mount(p).staged = p.staged /\ Mount(p).shown = p.shown
        /\ Mount(p).sel = e /\ Mount(p).sec = "Profile" /\ Mount(p).typed = p.typed
    BY <1>0, <2>1 DEF AnyPane
  <2> QED BY <1>0, <2>0, <2>2, <2>3 DEF PaneOK
<1> QED BY <1>3, <1>4, <1>5

\* A step that moves the pane and sends what leaves it.
Became(p) == PaneOK(p) /\ p.view = pane.view
Handled(S) == \A r \in S : r.back => r \notin line'

LEMMA DeskStep ==
    ASSUME DeskOK, NEW p, Became(p), pane' = p, NEW S \in SUBSET line,
           NEW rs \in Seq(Leaving(pane.view)), Sends(S, rs)
    PROVE  DeskOK' /\ Handled(S)
<1>1. line' \subseteq Proper(pane.view) /\ orgSent' \in Nat /\ Handled(S)
  BY Sent DEF DeskOK, Handled
<1>2. PaneOK(pane') /\ pane'.view = pane.view
  BY DEF Became
<1> QED BY <1>1, <1>2 DEF DeskOK

LEMMA FreeOK ==
    ASSUME PaneOK(pane), NEW r
    PROVE  Became(Free(r, pane)) /\ Free(r, pane).staged = pane.staged /\ Free(r, pane).typed = pane.typed
<1>1. pane \in AnyPane
  BY DEF PaneOK
<1>2. [pane EXCEPT !.busy = FALSE] \in AnyPane
  BY <1>1 DEF AnyPane
<1>3. LET q == [pane EXCEPT !.busy = FALSE]
      IN  /\ q.view = pane.view /\ q.sel = pane.sel /\ q.staged = pane.staged /\ q.shown = pane.shown
          /\ q.sec = pane.sec /\ q.typed = pane.typed
  BY <1>1 DEF AnyPane
<1> QED BY <1>2, <1>3 DEF PaneOK, Became, Free

LEMMA PickedOK ==
    ASSUME NEW p, Became(p), p.view = "roles", NEW s \in AnyEntry
    PROVE  Became(Picked(p, s))
<1>1. PaneOK(Unmount(p)) /\ Unmount(p).view = p.view
  BY Panes DEF Became
<1>2. [Unmount(p) EXCEPT !.sel = s] \in AnyPane
  BY <1>1 DEF PaneOK, AnyPane
<1>3. LET q == [Unmount(p) EXCEPT !.sel = s]
      IN  /\ q.view = p.view /\ q.staged = Unmount(p).staged /\ q.shown = Unmount(p).shown
          /\ q.sec = Unmount(p).sec /\ q.typed = Unmount(p).typed
  BY <1>1 DEF PaneOK, AnyPane
<1> QED BY <1>1, <1>2, <1>3 DEF PaneOK, Became, Picked

LEMMA ShowsOK ==
    ASSUME PaneOK(pane), NEW d \in Docs
    PROVE  Became(Shows(pane, d)) /\ Shows(pane, d).typed = pane.typed
<1>1. pane \in AnyPane
  BY DEF PaneOK
<1>2. Shows(pane, d) \in AnyPane
  BY <1>1 DEF AnyPane, Shows
<1>3. /\ Shows(pane, d).view = pane.view /\ Shows(pane, d).sel = pane.sel
      /\ Shows(pane, d).staged = {} /\ Shows(pane, d).sec = pane.sec /\ Shows(pane, d).typed = pane.typed
  BY <1>1 DEF AnyPane, Shows
<1> QED BY <1>2, <1>3 DEF PaneOK, Became

LEMMA NothingSent == << >> \in Seq(Leaving(pane.view))
OBVIOUS

LEMMA ClosesOK ==
    ASSUME DeskOK, NEW p, Became(p), NEW S \in SUBSET line, NEW state,
           NEW rs \in Seq(Leaving(pane.view)), Closes(state, S, p, rs)
    PROVE  DeskOK' /\ Handled(S) /\ (~Up => pane' = p)
<1>1. Became(IF Up THEN TearDown(p) ELSE p)
  BY Panes DEF Became
<1>2. pane' = (IF Up THEN TearDown(p) ELSE p) /\ Sends(S, rs)
  BY DEF Closes
<1> QED BY <1>1, <1>2, DeskStep

LEMMA OpensOK ==
    ASSUME DeskOK, NEW S \in SUBSET line, Opens(S)
    PROVE  DeskOK' /\ Handled(S) /\ pane'.staged = pane.staged /\ pane'.typed = pane.typed
<1>0. PaneOK(pane)
  BY DEF DeskOK
<1>1. CASE Up
  <2>1. pane' = pane /\ Sends(S, << >>)
    BY <1>1 DEF Opens, Drop
  <2> QED BY <1>0, <2>1, DeskStep, NothingSent DEF Became
<1>2. CASE ~Up
  <2>1. pane' = Mount(pane) /\ Sends(S, <<FirstRead(Mount(pane))>>)
    BY <1>2 DEF Opens
  <2>2. Became(Mount(pane)) /\ Mount(pane).staged = pane.staged /\ Mount(pane).typed = pane.typed
    BY <1>0, Panes DEF Became
  <2>3. FirstRead(Mount(pane)) \in Leaving(pane.view)
    <3> DEFINE what == IF Mount(pane).view = "user" THEN "detail" ELSE "list"
               m == Mount(pane)
    <3>1. m.sel \in AnyEntry /\ m.inst \in Nat /\ m.card \in Nat /\ (what = "detail" => m.sel \in Entries)
      BY <2>2 DEF Became, PaneOK, AnyPane
    <3>2. what \in Whats \ Changes
      BY DEF Whats, Changes
    <3>3. Request(what, m.sel) \in Leaving(pane.view)
      BY <1>0, <3>1, <3>2, FreshRequest DEF Whats, Changes
    <3>4. FirstRead(m) = [Request(what, m.sel) EXCEPT !.inst = m.inst, !.card = m.card]
      BY DEF FirstRead
    <3> HIDE DEF what, m
    <3>5. [Request(what, m.sel) EXCEPT !.inst = m.inst, !.card = m.card] \in Leaving(pane.view)
      BY <3>1, <3>3 DEF Leaving, Proper, AnyOrgRequest
    <3> QED BY <3>4, <3>5 DEF m
  <2>4. <<FirstRead(Mount(pane))>> \in Seq(Leaving(pane.view))
    BY <2>3
  <2> QED BY <2>1, <2>2, <2>4, DeskStep
<1> QED BY <1>1, <1>2

\* A refused change leaves its pane to the challenge; a refused read closes it.
LEMMA ExpiredOK ==
    ASSUME DeskOK, NEW r \in line, NEW p, Became(p), NEW rs \in Seq(Leaving(pane.view)),
           handleExpired(r, p, rs)
    PROVE  /\ DeskOK' /\ Handled({r})
           /\ r.what \in Changes => pane' = p /\ UNCHANGED gate
<1>0. PaneOK(pane) /\ {r} \in SUBSET line
  BY DEF DeskOK
<1>1. Request("over", NoEntry) \in Leaving(pane.view) /\ Request("gate", NoEntry) \in Leaving(pane.view)
  BY <1>0, FreshRequest DEF Whats, Changes, AnyEntry
<1>2. /\ <<Request("over", NoEntry)>> \o rs \in Seq(Leaving(pane.view))
      /\ <<Request("gate", NoEntry)>> \o rs \in Seq(Leaving(pane.view))
  BY <1>1
<1>3. CASE r.what \in Changes
  <2>1. Sends({r}, <<Request("over", NoEntry)>> \o rs) /\ pane' = p /\ UNCHANGED gate
    BY <1>3 DEF handleExpired
  <2> QED BY <1>0, <1>2, <2>1, DeskStep
<1>4. CASE r.what \notin Changes
  <2>1. Closes("loading", {r}, p, <<Request("gate", NoEntry)>> \o rs)
    BY <1>4 DEF handleExpired
  <2> QED BY <1>0, <1>2, <1>4, <2>1, ClosesOK
<1> QED BY <1>3, <1>4

-----------------------------------------------------------------------------
(* One lemma per group of actions: the invariant, and what becomes of the  *)
(* staged changes.                                                         *)
StagedStep ==
    /\ pane.staged # {} /\ pane'.staged = {} =>
         \/ \E r \in line \ line' : r.back /\ r.what \in {"list", "detail", "gate", "delete"}
         \/ gate.state = "open" /\ ~gate.over /\ gate' = gate /\ line \subseteq line'
    /\ pane.typed /\ ~pane'.typed =>
         \/ \E r \in line \ line' :
               /\ r.back
               /\ \/ r.what = "gate"
                  \/ r.what \in {"list", "detail"} /\ r.ans # "ok"
                  \/ r.what = "password" /\ r.ans # "error"
         \/ gate.state = "open" /\ ~gate.over /\ gate' = gate /\ line \subseteq line'

\* The answer of a read, of the gate or of a deletion may take them; a typed
\* password only a refused or failed read, or the gate.
LEMMA TakenByAnswer ==
    ASSUME NEW r \in line, r.back, r.what \in {"list", "detail", "gate", "delete"}, Handled({r}),
           \/ r.what = "gate" \/ (r.what \in {"list", "detail"} /\ r.ans # "ok")
           \/ pane.typed => pane'.typed
    PROVE  StagedStep
<1>1. r \in line \ line'
  BY DEF Handled
<1> QED BY <1>1 DEF StagedStep

LEMMA StagedSame == ASSUME pane'.staged = pane.staged, pane'.typed = pane.typed PROVE StagedStep
BY DEF StagedStep

LEMMA GateSteps ==
    ASSUME OrgInv,
           \/ check \/ modal \/ reverify
           \/ \E r \in line : checked(r) \/ demandReverify(r)
    PROVE  OrgInv' /\ StagedStep
<1>0. DeskOK /\ PaneOK(pane) /\ Became(pane) /\ ServerOK
  BY DEF OrgInv, DeskOK, Became
<1>1. CASE check
  <2>1. Request("gate", NoEntry) \in Leaving(pane.view)
    BY <1>0, FreshRequest DEF Whats, Changes, AnyEntry
  <2>2. /\ ~Up /\ UNCHANGED server
        /\ Closes("loading", {}, pane, <<Request("gate", NoEntry)>>)
    BY <1>1 DEF check, Up
  <2>3. <<Request("gate", NoEntry)>> \in Seq(Leaving(pane.view))
    BY <2>1
  <2>4. DeskOK' /\ pane' = pane
    BY <1>0, <2>2, <2>3, ClosesOK
  <2> QED BY <1>0, <2>2, <2>4, StagedSame DEF OrgInv, ServerOK
<1>2. CASE modal
  <2>1. ~Up
    BY <1>2 DEF modal, Up
  <2>2. CASE Opens({}) /\ server' = [server EXCEPT !.fresh = TRUE]
    <3>1. DeskOK' /\ pane'.staged = pane.staged /\ pane'.typed = pane.typed
      BY <1>0, <2>2, OpensOK
    <3>2. ServerOK'
      BY <1>0, <2>2 DEF ServerOK
    <3> QED BY <3>1, <3>2, StagedSame DEF OrgInv
  <2>3. CASE Closes("blocked", {}, pane, << >>) /\ UNCHANGED server
    <3>1. DeskOK' /\ pane' = pane
      BY <1>0, <2>1, <2>3, ClosesOK, NothingSent
    <3> QED BY <1>0, <2>3, <3>1, StagedSame DEF OrgInv, ServerOK
  <2> QED BY <1>2, <2>2, <2>3 DEF modal
<1>3. CASE reverify
  <2>1. ServerOK'
    BY <1>0, <1>3 DEF reverify, ServerOK
  <2>2. UNCHANGED <<pane, line, orgSent>>
    BY <1>3 DEF reverify
  <2> QED BY <1>0, <2>1, <2>2, StagedSame DEF OrgInv, DeskOK
<1>4. ASSUME NEW r \in line, checked(r)
      PROVE  OrgInv' /\ StagedStep
  <2>0. r.what = "gate" /\ r.back /\ UNCHANGED server
    BY <1>4 DEF checked
  <2>1. DeskOK' /\ Handled({r})
    BY <1>0, <1>4, ClosesOK, OpensOK, NothingSent DEF checked
  <2> QED BY <1>0, <2>0, <2>1, TakenByAnswer DEF OrgInv, ServerOK
<1>5. ASSUME NEW r \in line, demandReverify(r)
      PROVE  OrgInv' /\ StagedStep
  <2>1. Sends({r}, << >>) /\ UNCHANGED <<server, pane>>
    BY <1>5 DEF demandReverify, Drop
  <2>2. DeskOK'
    BY <1>0, <2>1, DeskStep, NothingSent
  <2> QED BY <1>0, <2>1, <2>2, StagedSame DEF OrgInv, ServerOK
<1> QED BY <1>1, <1>2, <1>3, <1>4, <1>5

LEMMA DeskActions ==
    ASSUME OrgInv,
           \/ stage \/ discard \/ save \/ setPassword \/ otherChange \/ signOut \/ deleteRole \/ createRole
           \/ \E s \in Entries : select(s)
           \/ \E s \in Sections : section(s)
    PROVE  OrgInv' /\ StagedStep
<1>0. DeskOK /\ PaneOK(pane) /\ Became(pane) /\ ServerOK /\ pane \in AnyPane /\ {} \in SUBSET line
  BY DEF OrgInv, DeskOK, Became, PaneOK
<1>a. ASSUME NEW p, Became(p), pane' = p, NEW rs \in Seq(Leaving(pane.view)), Sends({}, rs),
             UNCHANGED server
      PROVE  OrgInv' /\ line \subseteq line'
  <2>1. DeskOK'
    BY <1>0, <1>a, DeskStep
  <2>2. line \subseteq line'
    BY <1>a DEF Sends
  <2> QED BY <1>0, <1>a, <2>1, <2>2 DEF OrgInv, ServerOK
<1>b. ASSUME NEW p, Became(p), pane' = p, NEW r \in Leaving(pane.view), Sends({}, <<r>>),
             UNCHANGED server
      PROVE  OrgInv' /\ line \subseteq line'
  <2>1. <<r>> \in Seq(Leaving(pane.view))
    OBVIOUS
  <2> QED BY <1>a, <1>b, <2>1
<1>1. CASE stage
  <2>a. CASE pane.sec = "Security"
    <3>1. pane' = [pane EXCEPT !.typed = TRUE] /\ UNCHANGED <<server, gate, line, orgSent>>
      BY <1>1, <2>a DEF stage
    <3>2. pane' \in AnyPane
      BY <1>0, <3>1 DEF AnyPane
    <3>3. /\ pane'.staged = pane.staged /\ pane'.shown = pane.shown /\ pane'.sec = pane.sec
          /\ pane'.view = pane.view /\ pane'.sel = pane.sel /\ pane'.typed
      BY <1>0, <3>1 DEF AnyPane
    <3>4. PaneOK(pane')
      BY <1>0, <2>a, <3>2, <3>3 DEF PaneOK
    <3> QED BY <1>0, <3>1, <3>3, <3>4 DEF OrgInv, ServerOK, DeskOK, StagedStep
  <2>b. CASE pane.sec # "Security"
    <3>0. pane.shown \in Docs /\ pane' = [pane EXCEPT !.staged = pane.staged \cup {pane.shown}]
      BY <1>0, <1>1, <2>b DEF stage, AnyPane
    <3>1. pane' \in AnyPane
      BY <1>0, <3>0 DEF AnyPane
    <3>2. /\ pane'.staged = pane.staged \cup {pane.shown} /\ pane'.shown = pane.shown
          /\ pane'.view = pane.view /\ pane'.sel = pane.sel /\ pane'.sec = pane.sec /\ pane'.typed = pane.typed
      BY <1>0, <3>0 DEF AnyPane
    <3>3. PaneOK(pane')
      BY <1>0, <3>1, <3>2 DEF PaneOK
    <3> QED BY <1>0, <1>1, <3>2, <3>3 DEF stage, OrgInv, ServerOK, DeskOK, StagedStep
  <2> QED BY <2>a, <2>b
<1>2. CASE discard
  <2>0. /\ pane' = [pane EXCEPT !.staged = {}, !.typed = FALSE] /\ UNCHANGED <<server, gate, line, orgSent>>
        /\ Up /\ ~gate.over
    BY <1>2 DEF discard, Usable
  <2>1. pane' \in AnyPane
    BY <1>0, <2>0 DEF AnyPane
  <2>2. pane'.staged = {} /\ pane'.view = pane.view /\ pane'.sel = pane.sel /\ pane'.sec = pane.sec /\ ~pane'.typed
    BY <1>0, <2>0 DEF AnyPane
  <2>3. PaneOK(pane')
    BY <1>0, <2>1, <2>2 DEF PaneOK
  <2> QED BY <1>0, <2>0, <2>2, <2>3 DEF OrgInv, ServerOK, DeskOK, StagedStep, Up
<1>3. CASE save
  <2>0. /\ pane.staged # {} /\ pane' = [pane EXCEPT !.busy = TRUE] /\ UNCHANGED server
        /\ Sends({}, <<[Request("save", pane.shown.entry) EXCEPT !.edits = pane.staged]>>)
    BY <1>3 DEF save
  <2>1. pane' \in AnyPane
    BY <1>0, <2>0 DEF AnyPane
  <2>2. /\ pane'.staged = pane.staged /\ pane'.view = pane.view /\ pane'.sel = pane.sel
        /\ pane'.shown = pane.shown /\ pane'.sec = pane.sec /\ pane'.typed = pane.typed
    BY <1>0, <2>0 DEF AnyPane
  <2>3. Became(pane')
    BY <1>0, <2>1, <2>2 DEF PaneOK, Became
  <2>4. pane.staged \in SUBSET Docs /\ \A e \in pane.staged : e = pane.shown
    BY <1>0 DEF PaneOK, AnyPane
  <2>5. pane.shown.entry \in Entries
    BY <2>0, <2>4 DEF Docs
  <2>6. Request("save", pane.shown.entry) \in Leaving(pane.view)
    BY <1>0, <2>5, FreshRequest DEF Whats, Changes, AnyEntry
  <2>7. Request("save", pane.shown.entry).entry = pane.shown.entry
    BY DEF Request
  <2>8. [Request("save", pane.shown.entry) EXCEPT !.edits = pane.staged] \in Leaving(pane.view)
    BY <2>4, <2>6, <2>7 DEF Leaving, Proper, AnyOrgRequest
  <2> QED BY <1>b, <2>0, <2>2, <2>3, <2>8, StagedSame
<1>4. CASE otherChange
  <2>1. pane.shown.entry \in Entries
    BY <1>0, <1>4 DEF otherChange, AnyPane, Docs
  <2>2. Request("other", pane.shown.entry) \in Leaving(pane.view)
    BY <1>0, <2>1, FreshRequest DEF Whats, Changes, AnyEntry
  <2>3. Sends({}, <<Request("other", pane.shown.entry)>>) /\ pane' = pane /\ UNCHANGED server
    BY <1>4 DEF otherChange
  <2> QED BY <1>0, <1>b, <2>2, <2>3, StagedSame
<1>9. CASE setPassword
  <2>0. /\ pane' = [pane EXCEPT !.busy = TRUE] /\ UNCHANGED server /\ pane.shown # NoDetail
        /\ Sends({}, <<Request("password", pane.shown.entry)>>)
    BY <1>9 DEF setPassword
  <2>1. pane' \in AnyPane
    BY <1>0, <2>0 DEF AnyPane
  <2>2. /\ pane'.staged = pane.staged /\ pane'.view = pane.view /\ pane'.sel = pane.sel
        /\ pane'.shown = pane.shown /\ pane'.sec = pane.sec /\ pane'.typed = pane.typed
    BY <1>0, <2>0 DEF AnyPane
  <2>3. Became(pane')
    BY <1>0, <2>1, <2>2 DEF PaneOK, Became
  <2>4. pane.shown.entry \in Entries
    BY <1>0, <2>0 DEF AnyPane, Docs
  <2>5. Request("password", pane.shown.entry) \in Leaving(pane.view)
    BY <1>0, <2>4, FreshRequest DEF Whats, Changes, AnyEntry
  <2> QED BY <1>b, <2>0, <2>2, <2>3, <2>5, StagedSame
<1>10. CASE signOut
  <2>1. pane.shown.entry \in Entries
    BY <1>0, <1>10 DEF signOut, AnyPane, Docs
  <2>2. Request("signout", pane.shown.entry) \in Leaving(pane.view)
    BY <1>0, <2>1, FreshRequest DEF Whats, Changes, AnyEntry
  <2>3. Sends({}, <<Request("signout", pane.shown.entry)>>) /\ pane' = pane /\ UNCHANGED server
    BY <1>10 DEF signOut
  <2> QED BY <1>0, <1>b, <2>2, <2>3, StagedSame
<1>5. CASE deleteRole
  <2>1. pane.shown.entry \in Entries /\ pane.view = "roles"
    BY <1>0, <1>5 DEF deleteRole, AnyPane, Docs
  <2>2. Request("delete", pane.shown.entry) \in Leaving(pane.view)
    BY <1>0, <2>1, FreshRequest DEF Whats, Changes, AnyEntry
  <2>3. Sends({}, <<Request("delete", pane.shown.entry)>>) /\ pane' = pane /\ UNCHANGED server
    BY <1>5 DEF deleteRole
  <2> QED BY <1>0, <1>b, <2>2, <2>3, StagedSame
<1>6. CASE createRole
  <2>0. PICK s \in server.gone : Sends({}, <<Request("create", s)>>)
    BY <1>6 DEF createRole
  <2>1. pane' = [pane EXCEPT !.creating = TRUE] /\ UNCHANGED server
    BY <1>6 DEF createRole
  <2>2. pane' \in AnyPane
    BY <1>0, <2>1 DEF AnyPane
  <2>3. /\ pane'.staged = pane.staged /\ pane'.view = pane.view /\ pane'.sel = pane.sel
        /\ pane'.shown = pane.shown /\ pane'.sec = pane.sec /\ pane'.typed = pane.typed
    BY <1>0, <2>1 DEF AnyPane
  <2>4. Became(pane')
    BY <1>0, <2>2, <2>3 DEF PaneOK, Became
  <2>5. Request("create", s) \in Leaving(pane.view)
    BY <1>0, FreshRequest DEF Whats, Changes, AnyEntry, ServerOK
  <2> QED BY <1>b, <2>0, <2>1, <2>3, <2>4, <2>5, StagedSame
<1>7. ASSUME NEW s \in Entries, select(s)
      PROVE  OrgInv' /\ StagedStep
  <2>1. /\ pane' = Picked(pane, s) /\ pane.view = "roles" /\ UNCHANGED <<server, gate>>
        /\ Sends({}, <<Request("detail", s)>>) /\ Up /\ ~gate.over
    BY <1>7 DEF select, Usable
  <2>2. Became(Picked(pane, s))
    BY <1>0, <2>1, PickedOK DEF AnyEntry
  <2>3. Request("detail", s) \in Leaving(pane.view)
    BY <1>0, FreshRequest DEF Whats, Changes, AnyEntry
  <2> QED BY <1>b, <2>1, <2>2, <2>3 DEF StagedStep, Up
<1>8. ASSUME NEW s \in Sections, section(s)
      PROVE  OrgInv' /\ StagedStep
  <2>0. PICK c \in Nat : c = NextCard
    BY <1>0 DEF AnyPane, NextCard
  <2>1. /\ pane' = [pane EXCEPT !.sec = s, !.card = c, !.staged = {}, !.typed = FALSE, !.busy = FALSE, !.listed = FALSE]
        /\ UNCHANGED <<server, gate>> /\ Up /\ ~gate.over /\ pane.view = "user"
        /\ Sends({}, IF s \in {"Profile", "Security"} THEN << >>
                     ELSE <<[Request("list", pane.sel) EXCEPT !.card = c]>>)
    BY <1>8, <2>0 DEF section, Usable
  <2>2. pane' \in AnyPane
    BY <1>0, <2>1 DEF AnyPane
  <2>3. pane'.staged = {} /\ ~pane'.typed /\ pane'.view = pane.view /\ pane'.sel = pane.sel
    BY <1>0, <2>1 DEF AnyPane
  <2>4. Became(pane')
    BY <1>0, <2>1, <2>2, <2>3 DEF PaneOK, Became
  <2>5. Request("list", pane.sel) \in Leaving(pane.view)
    BY <1>0, FreshRequest DEF Whats, Changes, AnyPane
  <2>6. [Request("list", pane.sel) EXCEPT !.card = c] \in Leaving(pane.view)
    BY <2>5 DEF Leaving, Proper, AnyOrgRequest
  <2>7. OrgInv' /\ line \subseteq line'
    <3>1. CASE s \in {"Profile", "Security"}
      BY <1>a, <2>1, <2>4, <3>1, NothingSent
    <3>2. CASE s \notin {"Profile", "Security"}
      BY <1>b, <2>1, <2>4, <2>6, <3>2
    <3> QED BY <3>1, <3>2
  <2> QED BY <2>1, <2>7 DEF StagedStep, Up
<1> QED BY <1>1, <1>2, <1>3, <1>4, <1>5, <1>6, <1>7, <1>8, <1>9, <1>10

LEMMA ChangeAnswers ==
    ASSUME DeskOK, NEW r \in line, actUser(r) \/ actRoles(r)
    PROVE  DeskOK' /\ StagedStep
<1>0. /\ PaneOK(pane) /\ pane \in AnyPane /\ {r} \in SUBSET line
      /\ r \in Proper(pane.view) /\ r \in AnyOrgRequest
  BY DEF DeskOK, PaneOK, Proper
<1>a. ASSUME NEW p, Became(p), p.staged = pane.staged, p.typed = pane.typed, pane' = p,
             NEW rs \in Seq(Leaving(pane.view)), Sends({r}, rs)
      PROVE  DeskOK' /\ StagedStep
  BY <1>0, <1>a, DeskStep, StagedSame
<1>b. ASSUME NEW p, Became(p), p.staged = pane.staged, p.typed = pane.typed, handleExpired(r, p, << >>), r.what \in Changes
      PROVE  DeskOK' /\ StagedStep
  <2>1. DeskOK' /\ pane' = p
    BY <1>0, <1>b, ExpiredOK, NothingSent
  <2> QED BY <1>b, <2>1, StagedSame
<1>1. CASE actUser(r)
  <2>0. r.what \in Changes /\ r.entry \in Entries /\ r.back /\ pane.view = "user" /\ r.card \in Nat
    BY <1>0, <1>1 DEF actUser, Proper, AnyOrgRequest
  <2>1. /\ Became(Ended(r)) /\ Ended(r).staged = pane.staged
        /\ Ended(r).typed = pane.typed \/ (r.what = "password" /\ r.ans # "error")
    <3>1. /\ Became(Free(r, pane)) /\ Free(r, pane).staged = pane.staged /\ Free(r, pane).typed = pane.typed
          /\ Became(pane)
      BY <1>0, FreeOK DEF Became
    <3> DEFINE q == [pane EXCEPT !.busy = FALSE, !.typed = FALSE]
    <3>2. q \in AnyPane
      BY <1>0 DEF AnyPane
    <3>3. /\ q.view = pane.view /\ q.sel = pane.sel /\ q.staged = pane.staged /\ q.shown = pane.shown
          /\ q.sec = pane.sec /\ q.typed = FALSE
      BY <1>0 DEF AnyPane
    <3> HIDE DEF q
    <3>4. Became(q)
      BY <1>0, <3>2, <3>3 DEF PaneOK, Became
    <3>5. CASE r.what = "password" /\ r.ans # "error" /\ Mine(r) /\ r.card = pane.card
      <4>1. Ended(r) = q
        BY <3>5 DEF Ended, q
      <4> QED BY <3>3, <3>4, <3>5, <4>1
    <3>6. CASE ~(r.what = "password" /\ r.ans # "error" /\ Mine(r) /\ r.card = pane.card)
      <4>1. Ended(r) \in {Free(r, pane), pane}
        BY <3>6 DEF Ended
      <4> QED BY <3>1, <4>1
    <3> QED BY <3>5, <3>6
  <2>2. Rereads(r) \in Seq(Leaving(pane.view))
    <3>1. Later(r, "detail", r.entry) \in Leaving(pane.view) /\ Later(r, "list", r.entry) \in Leaving(pane.view)
      BY <1>0, <2>0, LaterRequest DEF AnyEntry
    <3>2. [Later(r, "list", r.entry) EXCEPT !.card = r.card] \in Leaving(pane.view)
      BY <2>0, <3>1 DEF Leaving, Proper, AnyOrgRequest
    <3>one. ASSUME NEW x \in Leaving(pane.view) PROVE <<x>> \in Seq(Leaving(pane.view))
      OBVIOUS
    <3> DEFINE a == IF r.ans = "ok" THEN <<Later(r, "detail", r.entry)>> ELSE << >>
               b == IF r.what = "signout" /\ r.ans # "error"
                    THEN <<[Later(r, "list", r.entry) EXCEPT !.card = r.card]>> ELSE << >>
    <3>3. a \in Seq(Leaving(pane.view))
      BY <3>1, <3>one, NothingSent
    <3>4. b \in Seq(Leaving(pane.view))
      BY <3>2, <3>one, NothingSent
    <3>5. Rereads(r) = a \o b
      BY DEF Rereads
    <3> HIDE DEF a, b
    <3> QED BY <3>3, <3>4, <3>5
  <2>3. DeskOK' /\ Handled({r}) /\ pane' = Ended(r)
    <3>1. CASE r.ans = "stale" /\ handleExpired(r, Ended(r), Rereads(r))
      BY <1>0, <2>0, <2>1, <2>2, <3>1, ExpiredOK
    <3>2. CASE pane' = Ended(r) /\ Sends({r}, Rereads(r))
      BY <1>0, <2>1, <2>2, <3>2, DeskStep
    <3> QED BY <1>1, <3>1, <3>2 DEF actUser
  <2>4. r \in line \ line'
    BY <2>0, <2>3 DEF Handled
  <2> QED BY <2>0, <2>1, <2>3, <2>4 DEF StagedStep
<1>2. CASE actRoles(r)
  <2> DEFINE p == IF r.what = "create" /\ Mine(r) THEN [pane EXCEPT !.creating = FALSE] ELSE Free(r, pane)
  <2>0. r.what \in Changes
    BY <1>2 DEF actRoles
  <2>1. Became(p) /\ p.staged = pane.staged /\ p.typed = pane.typed
    <3>1. Became(Free(r, pane)) /\ Free(r, pane).staged = pane.staged /\ Free(r, pane).typed = pane.typed
      BY <1>0, FreeOK
    <3>2. [pane EXCEPT !.creating = FALSE] \in AnyPane
      BY <1>0 DEF AnyPane
    <3>3. LET q == [pane EXCEPT !.creating = FALSE]
          IN  /\ q.view = pane.view /\ q.sel = pane.sel /\ q.staged = pane.staged /\ q.shown = pane.shown
              /\ q.sec = pane.sec /\ q.typed = pane.typed
      BY <1>0 DEF AnyPane
    <3> QED BY <1>0, <3>1, <3>2, <3>3 DEF PaneOK, Became
  <2>2. Became(pane)
    BY <1>0 DEF Became
  <2>3. \/ r.ans = "stale" /\ handleExpired(r, p, << >>)
        \/ Sends({r}, << >>) /\ pane' = p
        \/ /\ pane' = p \/ pane' = pane
           /\ Sends({r}, <<[Later(r, "list", r.entry) EXCEPT !.card = r.card, !.then = r.what]>>)
    BY <1>2 DEF actRoles, Drop
  <2>4. [Later(r, "list", r.entry) EXCEPT !.card = r.card, !.then = r.what] \in Leaving(pane.view)
    <3>1. r.entry \in AnyEntry /\ r.card \in Nat
      BY <1>0 DEF AnyOrgRequest
    <3>2. Later(r, "list", r.entry) \in Leaving(pane.view)
      BY <1>0, <3>1, LaterRequest
    <3> QED BY <2>0, <3>1, <3>2 DEF Leaving, Proper, AnyOrgRequest
  <2>5. <<[Later(r, "list", r.entry) EXCEPT !.card = r.card, !.then = r.what]>> \in Seq(Leaving(pane.view))
    BY <2>4
  <2> HIDE DEF p
  <2> QED BY <1>a, <1>b, <2>0, <2>1, <2>2, <2>3, <2>5, NothingSent
<1> QED BY <1>1, <1>2

LEMMA DeletionAnswers ==
    ASSUME DeskOK, NEW r \in line, onDeleted(r)
    PROVE  DeskOK' /\ StagedStep
<1>0. /\ PaneOK(pane) /\ pane \in AnyPane /\ {r} \in SUBSET line /\ Became(pane)
      /\ r \in Proper(pane.view) /\ r \in AnyOrgRequest /\ r.what = "delete" /\ r.back
  BY DEF DeskOK, PaneOK, Proper, onDeleted, Became
<1>1. Became(Deselected(r))
  BY <1>0, PickedOK DEF Deselected, Proper, AnyEntry
<1>2. Later(r, "list", NoEntry) \in Leaving(pane.view)
  BY <1>0, LaterRequest DEF AnyEntry
<1>3. [Later(r, "list", r.entry) EXCEPT !.then = "delete"] \in Leaving(pane.view)
  <2>1. r.entry \in AnyEntry
    BY <1>0 DEF AnyOrgRequest
  <2>2. Later(r, "list", r.entry) \in Leaving(pane.view)
    BY <1>0, <2>1, LaterRequest
  <2> QED BY <2>2 DEF Leaving, Proper, AnyOrgRequest, Changes
<1>4. /\ <<Later(r, "list", NoEntry)>> \in Seq(Leaving(pane.view))
      /\ <<[Later(r, "list", r.entry) EXCEPT !.then = "delete"]>> \in Seq(Leaving(pane.view))
  BY <1>2, <1>3
<1>5. \/ handleExpired(r, Deselected(r), <<Later(r, "list", NoEntry)>>)
      \/ pane' = Deselected(r) /\ Sends({r}, <<Later(r, "list", NoEntry)>>)
      \/ pane' = pane /\ Sends({r}, <<[Later(r, "list", r.entry) EXCEPT !.then = "delete"]>>)
  BY DEF onDeleted
<1>6. DeskOK' /\ Handled({r})
  BY <1>0, <1>1, <1>4, <1>5, ExpiredOK, DeskStep
<1>7. ~pane.typed
  BY <1>0 DEF PaneOK, Proper
<1> QED BY <1>0, <1>6, <1>7, TakenByAnswer

LEMMA ListAnswers ==
    ASSUME DeskOK, NEW r \in line, loadList(r) \/ loadSection(r)
    PROVE  DeskOK' /\ StagedStep
<1>0. /\ PaneOK(pane) /\ pane \in AnyPane /\ {r} \in SUBSET line /\ Became(pane)
      /\ r \in Proper(pane.view) /\ r \in AnyOrgRequest /\ r.what = "list" /\ r.back
  BY DEF DeskOK, PaneOK, Proper, loadList, loadSection, Became
<1>1. CASE loadSection(r)
  <2> DEFINE p == IF Mine(r) /\ r.card = pane.card THEN [pane EXCEPT !.listed = r.ans = "ok"] ELSE pane
  <2>1. /\ r.ans = "stale" \/ r.ans # "stale"
        /\ r.ans = "stale" => handleExpired(r, p, << >>)
        /\ r.ans # "stale" => pane' = p /\ Sends({r}, << >>)
    BY <1>1 DEF loadSection, Drop
  <2>2. Became(p) /\ p.typed = pane.typed
    <3>1. PICK v \in BOOLEAN : v = (r.ans = "ok")
      OBVIOUS
    <3> DEFINE q == [pane EXCEPT !.listed = v]
    <3>2. /\ q \in AnyPane /\ q.view = pane.view /\ q.sel = pane.sel /\ q.staged = pane.staged
          /\ q.shown = pane.shown /\ q.sec = pane.sec /\ q.typed = pane.typed
      BY <1>0 DEF AnyPane
    <3>3. p \in {q, pane}
      BY <3>1
    <3> HIDE DEF p, q
    <3> QED BY <1>0, <3>2, <3>3 DEF PaneOK, Became
  <2> HIDE DEF p
  <2>3. DeskOK' /\ Handled({r})
    BY <1>0, <2>1, <2>2, ExpiredOK, DeskStep, NothingSent
  <2> QED BY <1>0, <2>1, <2>2, <2>3, TakenByAnswer
<1>2. CASE loadList(r)
  <2>0. pane.view = "roles" /\ First \in Entries
    BY <1>2, EntriesAssumption DEF loadList, First
  <2>1. Became(AfterList(r))
    <3> DEFINE p == IF Mine(r) /\ r.ans = "ok" THEN [pane EXCEPT !.listed = TRUE] ELSE pane
               q == IF Mine(r) /\ r.ans = "ok" /\ p.sel = NoEntry THEN [p EXCEPT !.sel = First] ELSE p
    <3>1. /\ p \in AnyPane /\ p.view = pane.view /\ p.staged = pane.staged /\ p.shown = pane.shown
          /\ p.sec = pane.sec /\ p.typed = pane.typed
      BY <1>0 DEF AnyPane
    <3> HIDE DEF p
    <3>2. /\ q \in AnyPane /\ q.view = pane.view /\ q.staged = pane.staged /\ q.shown = pane.shown
          /\ q.sec = pane.sec /\ q.typed = pane.typed
      BY <2>0, <3>1 DEF AnyPane, AnyEntry
    <3> HIDE DEF q
    <3>3. Became(q)
      BY <1>0, <2>0, <3>2 DEF PaneOK, Became
    <3>4. r.entry \in AnyEntry /\ NoEntry \in AnyEntry
      BY <1>0 DEF AnyOrgRequest, AnyEntry
    <3>5. Became(Deselected(r)) /\ Became(Picked(q, r.entry))
      BY <1>0, <2>0, <3>2, <3>3, <3>4, PickedOK DEF Deselected
    <3>6. Became(Free(r, q))
      <4>1. [q EXCEPT !.busy = FALSE] \in AnyPane
        BY <3>2 DEF AnyPane
      <4>2. LET z == [q EXCEPT !.busy = FALSE]
            IN  z.view = pane.view /\ z.staged = q.staged /\ z.shown = q.shown /\ z.sec = q.sec /\ z.typed = q.typed
        BY <3>2 DEF AnyPane
      <4> QED BY <2>0, <3>3, <4>1, <4>2 DEF Free, Became, PaneOK
    <3>7. AfterList(r) \in {Deselected(r), Picked(q, r.entry), q, Free(r, q)}
      BY DEF AfterList, p, q
    <3> QED BY <3>3, <3>5, <3>6, <3>7
  <2>2. Waiters(r) \in Seq(Leaving(pane.view))
    <3>1. /\ AfterList(r).sel \in AnyEntry
          /\ AfterList(r).sel \notin {pane.sel, NoEntry} => AfterList(r).sel \in Entries
      BY <2>1 DEF Became, PaneOK, AnyPane, AnyEntry
    <3>2. r.sel \in AnyEntry /\ (r.sel # NoEntry => r.sel \in Entries)
      BY <1>0 DEF AnyOrgRequest, AnyEntry
    <3>3. AfterList(r).sel \in Entries => Later(r, "detail", AfterList(r).sel) \in Leaving(pane.view)
      BY <1>0, <3>1, LaterRequest
    <3>4. r.sel \in Entries => Later(r, "detail", r.sel) \in Leaving(pane.view)
      BY <1>0, <3>2, LaterRequest
    <3>5. Later(r, "list", NoEntry) \in Leaving(pane.view)
      BY <1>0, LaterRequest DEF AnyEntry
    <3> DEFINE a == IF AfterList(r).sel \notin {pane.sel, NoEntry}
                    THEN <<Later(r, "detail", AfterList(r).sel)>> ELSE << >>
               b == IF r.then \in {"save", "other", "delete"} /\ r.sel # NoEntry
                    THEN <<Later(r, "detail", r.sel)>> ELSE << >>
               c == IF r.then = "delete" THEN <<Later(r, "list", NoEntry)>> ELSE << >>
    <3>one. ASSUME NEW x \in Leaving(pane.view) PROVE <<x>> \in Seq(Leaving(pane.view))
      OBVIOUS
    <3>6. a \in Seq(Leaving(pane.view))
      BY <3>1, <3>3, <3>one, NothingSent
    <3>7. b \in Seq(Leaving(pane.view))
      BY <3>2, <3>4, <3>one, NothingSent
    <3>8. c \in Seq(Leaving(pane.view))
      BY <3>5, <3>one, NothingSent
    <3>9. Waiters(r) = a \o b \o c
      BY DEF Waiters
    <3> HIDE DEF a, b, c
    <3> QED BY <3>6, <3>7, <3>8, <3>9
  <2>3. \/ handleExpired(r, AfterList(r), Waiters(r))
        \/ pane' = AfterList(r) /\ Sends({r}, Waiters(r))
    BY <1>2 DEF loadList
  <2>4. DeskOK' /\ Handled({r})
    BY <1>0, <2>1, <2>2, <2>3, ExpiredOK, DeskStep
  <2>5. ~pane.typed
    BY <1>0, <2>0 DEF PaneOK
  <2> QED BY <1>0, <2>4, <2>5, TakenByAnswer
<1> QED BY <1>1, <1>2

LEMMA DetailAnswers ==
    ASSUME DeskOK, NEW r \in line, loadDetail(r)
    PROVE  DeskOK' /\ StagedStep
<1>0. /\ PaneOK(pane) /\ pane \in AnyPane /\ {r} \in SUBSET line /\ Became(pane)
      /\ r \in Proper(pane.view) /\ r \in AnyOrgRequest /\ r.what = "detail" /\ r.back
  BY DEF DeskOK, PaneOK, Proper, loadDetail, Became
<1> DEFINE d == [entry |-> r.entry, ver |-> r.ver]
           u == Unmount(pane)
           lost == IF Mine(r) THEN [u EXCEPT !.failed = pane.view = "user"] ELSE pane
<1>1. d \in Docs
  BY <1>0 DEF Proper, AnyOrgRequest, Docs
<1>2. Became(Shows(pane, d)) /\ Shows(pane, d).typed = pane.typed
  BY <1>0, <1>1, ShowsOK
<1>3. Became(lost)
  <2>1. PaneOK(u) /\ u.view = pane.view /\ u \in AnyPane
    BY <1>0, Panes DEF PaneOK
  <2> HIDE DEF u
  <2>2. [u EXCEPT !.failed = pane.view = "user"] \in AnyPane
    BY <2>1 DEF AnyPane
  <2>3. LET z == [u EXCEPT !.failed = pane.view = "user"]
        IN  /\ z.view = u.view /\ z.sel = u.sel /\ z.staged = u.staged /\ z.shown = u.shown
            /\ z.sec = u.sec /\ z.typed = u.typed
    BY <2>1 DEF AnyPane
  <2> QED BY <1>0, <2>1, <2>2, <2>3 DEF Became, PaneOK
<1>4. \/ Sends({r}, << >>) /\ pane' = Shows(pane, d)
      \/ Sends({r}, << >>) /\ pane' = pane
      \/ Sends({r}, << >>) /\ pane' = lost /\ r.ans # "ok"
      \/ handleExpired(r, lost, << >>) /\ r.ans # "ok"
  BY DEF loadDetail, Drop
<1> HIDE DEF d, lost
<1>5. DeskOK' /\ Handled({r})
  BY <1>0, <1>2, <1>3, <1>4, ExpiredOK, DeskStep, NothingSent
<1>6. r.ans # "ok" \/ pane'.typed = pane.typed
  BY <1>2, <1>4
<1> QED BY <1>0, <1>5, <1>6, TakenByAnswer

LEMMA ServerSteps ==
    ASSUME OrgInv,
           \/ \E r \in line : requireFreshStepup(r) \/ orgAnswer(r) \/ apply(r) \/ fails(r)
           \/ lapse
    PROVE  OrgInv' /\ pane' = pane
<1>0. ServerOK /\ DeskOK /\ PaneOK(pane) /\ orgSent \in Nat
  BY DEF OrgInv, DeskOK
<1>1. ASSUME NEW r \in line, NEW ans \in {"ok", "error", "stale"}, NEW v \in Nat, Reply(r, ans, v),
             UNCHANGED <<pane, orgSent>>
      PROVE  DeskOK'
  <2>1. [r EXCEPT !.back = TRUE, !.ans = ans, !.ver = v] \in Proper(pane.view)
    BY <1>0 DEF DeskOK, Proper, AnyOrgRequest
  <2> QED BY <1>0, <1>1, <2>1 DEF Reply, DeskOK
<1>2. ASSUME NEW r \in line, requireFreshStepup(r) \/ fails(r)
      PROVE  OrgInv' /\ pane' = pane
  <2>1. UNCHANGED <<server, pane, orgSent>> /\ (Reply(r, "stale", 0) \/ Reply(r, "error", 0))
    BY <1>2 DEF requireFreshStepup, fails
  <2>2. DeskOK'
    BY <1>1, <2>1
  <2> QED BY <1>0, <2>1, <2>2 DEF OrgInv, ServerOK
<1>3. ASSUME NEW r \in line, orgAnswer(r)
      PROVE  OrgInv' /\ pane' = pane
  <2>0. r.what = "detail" => r.entry \in Entries
    BY <1>0 DEF DeskOK, Proper
  <2>1. PICK v \in Nat : v = IF r.what = "detail" THEN server.ver[r.entry] ELSE 0
    BY <1>0, <2>0 DEF ServerOK
  <2>2. UNCHANGED <<server, pane, orgSent>> /\ Reply(r, "ok", v)
    BY <1>3, <2>1 DEF orgAnswer
  <2>3. DeskOK'
    BY <1>1, <2>2
  <2> QED BY <1>0, <2>2, <2>3 DEF OrgInv, ServerOK
<1>4. ASSUME NEW r \in line, apply(r)
      PROVE  OrgInv' /\ pane' = pane
  <2>0. r.entry \in Entries
    BY <1>0, <1>4 DEF DeskOK, Proper, apply
  <2>1. PICK ans \in {"ok", "error"} : Reply(r, ans, 0)
    BY <1>4 DEF apply
  <2>2. DeskOK' /\ UNCHANGED <<pane, orgSent>>
    BY <1>1, <1>4, <2>1 DEF apply
  <2>3. server' = [server EXCEPT !.ver[r.entry] = @ + 1,
                                 !.gone = IF r.what = "delete" THEN @ \cup {r.entry} ELSE @ \ {r.entry}]
    BY <1>4 DEF apply
  <2>4. ServerOK'
    <3> DEFINE ver == [server.ver EXCEPT ![r.entry] = @ + 1]
               gone == IF r.what = "delete" THEN server.gone \cup {r.entry} ELSE server.gone \ {r.entry}
    <3>1. server' = [ver |-> ver, gone |-> gone, fresh |-> server.fresh]
      BY <1>0, <2>3 DEF ServerOK
    <3>2. ver \in [Entries -> Nat] /\ gone \subseteq Entries
      BY <1>0, <2>0 DEF ServerOK
    <3> HIDE DEF ver, gone
    <3> QED BY <3>1, <3>2 DEF ServerOK
  <2> QED BY <2>2, <2>4 DEF OrgInv
<1>5. ASSUME lapse
      PROVE  OrgInv' /\ pane' = pane
  BY <1>0, <1>5 DEF lapse, OrgInv, ServerOK, DeskOK
<1> QED BY <1>2, <1>3, <1>4, <1>5

LEMMA OrgStarts ==
    ASSUME NEW v \in {"user", "roles"}, NEW absent \in SUBSET (Entries \ {First}), OrgInit(v, absent)
    PROVE  OrgInv
<1>0. First \in Entries
  BY EntriesAssumption DEF First
<1>1. ServerOK
  BY DEF OrgInit, ServerOK
<1>2. pane \in AnyPane /\ pane.staged = {} /\ pane.sel \in Entries /\ pane.sec = "Profile" /\ ~pane.typed
  BY <1>0 DEF OrgInit, AnyPane, Sections, Docs, AnyEntry
<1> QED BY <1>1, <1>2 DEF OrgInit, OrgInv, DeskOK, PaneOK

LEMMA OrgSteps == ASSUME OrgInv, [OrgNext]_orgVars PROVE OrgInv' /\ (StagedStep \/ UNCHANGED orgVars)
<1>0. DeskOK /\ ServerOK
  BY DEF OrgInv
<1>1. CASE UNCHANGED orgVars
  BY <1>1 DEF orgVars, OrgInv, ServerOK, DeskOK
<1>2. CASE \/ check \/ modal \/ reverify
           \/ \E r \in line : checked(r) \/ demandReverify(r)
  BY <1>2, GateSteps
<1>3. CASE \/ stage \/ discard \/ save \/ setPassword \/ otherChange \/ signOut \/ deleteRole \/ createRole
           \/ \E s \in Entries : select(s)
           \/ \E s \in Sections : section(s)
  BY <1>3, DeskActions
<1>4. ASSUME NEW r \in line,
             \/ actUser(r) \/ actRoles(r) \/ onDeleted(r) \/ loadList(r) \/ loadSection(r)
             \/ loadDetail(r)
      PROVE  OrgInv' /\ StagedStep
  <2>1. DeskOK' /\ StagedStep
    BY <1>0, <1>4, ChangeAnswers, DeletionAnswers, ListAnswers, DetailAnswers
  <2>2. UNCHANGED server
    BY <1>4 DEF actUser, actRoles, onDeleted, loadList, loadSection, loadDetail
  <2> QED BY <1>0, <2>1, <2>2 DEF OrgInv, ServerOK
<1>5. CASE \/ \E r \in line : requireFreshStepup(r) \/ orgAnswer(r) \/ apply(r) \/ fails(r)
           \/ lapse
  BY <1>5, ServerSteps, StagedSame
<1> QED BY <1>1, <1>2, <1>3, <1>4, <1>5 DEF OrgNext, Sections

LEMMA OrgInvariant == OrgSpec => []OrgInv
<1>1. (\E v \in {"user", "roles"}, absent \in SUBSET (Entries \ {First}) : OrgInit(v, absent)) => OrgInv
  BY OrgStarts
<1>2. OrgInv /\ [OrgNext]_orgVars => OrgInv'
  BY OrgSteps
<1> QED BY <1>1, <1>2, PTL DEF OrgSpec

\* On the organization's pages, for any number of entries and requests, what
\* is saved is what was on screen: the staged changes belong to the document
\* the pane shows, and a batch holds changes of its own entry only.
THEOREM AlwaysWrittenAsShown == OrgSpec => []WrittenAsShown
<1>1. OrgInv => WrittenAsShown
  BY DEF OrgInv, DeskOK, PaneOK, Proper, WrittenAsShown
<1> QED BY <1>1, OrgInvariant, PTL

\* Staged edits go only with the answer of a read, of the gate or of a
\* deletion, or by the administrator's own hand; a save that was refused or
\* failed, and the challenge laid over the pane, keep them.  A typed password
\* goes only with the gate, a read refused or failed, its own request made or
\* refused, or by the administrator's own hand.
THEOREM StagedAlwaysKept == OrgSpec => StagedKept
<1>1. OrgInv /\ [OrgNext]_orgVars => [StagedStep]_orgVars
  BY OrgSteps
<1>2. [][StagedStep]_orgVars <=> StagedKept
  BY DEF StagedStep, StagedKept
<1> QED BY <1>1, <1>2, OrgInvariant, PTL DEF OrgSpec

-----------------------------------------------------------------------------
(* Pictures.  A picture's number is used once; what follows is about the   *)
(* requests that have it, have read it, or have set it.                    *)
Copies == [pic : Nat, name : Nat]
ProfileJobs ==
    [op : {"none", "upload", "remove", "rename", "look"},
     at : {"idle", "renew", "store", "select", "update", "unlink", "answer"},
     snap : Copies, stale : BOOLEAN, cur : Nat, new : Nat]

\* Which requests reach which stage.
Fits(j) ==
    /\ j.op = "remove" => j.new = 0
    /\ j.at = "store" => j.op = "upload"
    /\ j.at \in {"select", "unlink"} => j.op \in {"upload", "remove"}
    /\ j.at = "update" => j.op \in {"upload", "remove", "rename"}
ProfileShapes ==
    /\ identity \in Copies /\ doc \in Copies /\ made \in Nat
    /\ torn \in [doc : BOOLEAN, apps : BOOLEAN] /\ pushes \subseteq [by : Workers, pic : Nat]
    /\ jobs \in [Workers -> ProfileJobs] /\ \A k \in Workers : Fits(jobs[k])
    /\ jobs["admin"].at \in {"idle", "update", "unlink"}
    /\ jobs["admin"].at # "idle" => jobs["admin"].op = "remove"

\* The new picture of an upload that has not switched the row yet is nobody else's.
Coming(k) == jobs[k].op = "upload" /\ jobs[k].at \in {"renew", "store", "select", "update"}
Numbered ==
    /\ identity.pic <= made + 1
    /\ \A k \in Workers : jobs[k].cur <= made + 1 /\ (jobs[k].op = "upload" => jobs[k].new \in 2..(made + 1))
    /\ \A k \in Workers : Coming(k) =>
         /\ identity.pic # jobs[k].new
         /\ \A o \in Workers : /\ jobs[o].cur # jobs[k].new
                               /\ o # k /\ jobs[o].op = "upload" => jobs[o].new # jobs[k].new

\* The picture in the row has its file: it was stored before, and whoever is
\* about to delete one has read it before the row left it.
FileKept ==
    /\ identity.pic # 0 => identity.pic \in files
    /\ \A k \in Workers : Coming(k) /\ jobs[k].at \in {"select", "update"} => jobs[k].new \in files
    /\ \A k \in Workers : At(k, "unlink") => identity.pic = 0 \/ identity.pic # jobs[k].cur

\* One change at a time on its way to the applications, unless that was noted.
TellsOne ==
    /\ \A k \in Workers : At(k, "unlink") => /\ jobs[k].new = identity.pic /\ pushes = {}
                                             /\ \A o \in Workers : At(o, "unlink") => o = k
    /\ \A p \in pushes : p.pic = identity.pic /\ pushes = {p} /\ \A o \in Workers : ~At(o, "unlink")
    /\ pushes = {} /\ (\A k \in Workers : ~At(k, "unlink")) => announced = identity.pic

\* What a request still has to reflect in the portal's copy; a request that is
\* not stale has the copy as it is.
OwesPic(k) == jobs[k].op \in {"upload", "remove"} /\ jobs[k].at \in {"unlink", "answer"}
OwesName(k) == jobs[k].op = "rename" /\ At(k, "answer")
PicOwed == \E k \in Callers : OwesPic(k) /\ jobs[k].new = identity.pic
NameOwed == \E k \in Callers : OwesName(k) /\ jobs[k].new = identity.name
HasCopy == \A k \in Callers : At(k, "idle") \/ jobs[k].stale \/ jobs[k].snap = doc
CopyFollows ==
    /\ doc.pic = identity.pic \/ PicOwed
    /\ doc.name = identity.name \/ NameOwed
    /\ \A k \in Callers : OwesPic(k) /\ ~jobs[k].stale => PicOwed
    /\ \A k \in Callers : OwesName(k) /\ ~jobs[k].stale => NameOwed

ProfileInv ==
    /\ ProfileShapes /\ Numbered /\ FileKept /\ HasCopy
    /\ (~torn.apps => TellsOne) /\ (~torn.doc => CopyFollows)

LEMMA ProfileStart == ProfileInit => ProfileInv
<1> SUFFICES ASSUME ProfileInit PROVE ProfileInv
  OBVIOUS
<1>1. NoJob \in ProfileJobs
  BY DEF NoJob, NoCopy, ProfileJobs, Copies
<1>2. \A k \in Workers : jobs[k] = NoJob
  BY DEF ProfileInit
<1>3. \A k \in Workers : jobs[k].op = "none" /\ jobs[k].at = "idle" /\ jobs[k].cur = 0
  BY <1>2 DEF NoJob
<1>4. ProfileShapes
  <2>1. jobs \in [Workers -> ProfileJobs] /\ "admin" \in Workers
    BY <1>1 DEF ProfileInit, Workers
  <2>2. identity \in Copies /\ doc \in Copies /\ made \in Nat /\ torn \in [doc : BOOLEAN, apps : BOOLEAN] /\ pushes = {}
    BY DEF ProfileInit, Copies
  <2> QED BY <1>3, <2>1, <2>2 DEF ProfileShapes, Fits
<1>5. identity.pic = 1 /\ files = {1} /\ made = 0 /\ doc = identity /\ pushes = {} /\ announced = 1
  BY DEF ProfileInit
<1>6. Numbered /\ FileKept /\ HasCopy
  BY <1>3, <1>5 DEF Numbered, FileKept, HasCopy, Coming, At, Workers, Callers
<1>7. TellsOne /\ CopyFollows
  BY <1>3, <1>5 DEF TellsOne, CopyFollows, OwesPic, OwesName, At, Workers, Callers
<1> QED BY <1>4, <1>6, <1>7 DEF ProfileInv

\* A request moves on, or is given up, without changing row or copy.
LEMMA JobMoves ==
    ASSUME ProfileInv, NEW k \in Workers, NEW j \in ProfileJobs, jobs' = [jobs EXCEPT ![k] = j],
           UNCHANGED <<identity, doc, pushes, announced, made>>, files \subseteq files',
           torn' \in [doc : BOOLEAN, apps : BOOLEAN], torn.apps => torn'.apps, torn.doc => torn'.doc,
           Fits(j), k = "admin" => j.at \in {"idle", "update"} /\ (j.at # "idle" => j.op = "remove"),
           jobs[k].at = "unlink" => torn'.apps, j.at # "unlink",
           j.op = "upload" => jobs[k].op = "upload" /\ j.new = jobs[k].new,
           j.op = "upload" /\ j.at \in {"renew", "store", "select", "update"} => Coming(k),
           j.op = "upload" /\ j.at \in {"select", "update"} => j.new \in files',
           j.cur \in {jobs[k].cur, identity.pic, 0},
           k \in Callers => j.at = "idle" \/ j.stale \/ j.snap = doc,
           j.op \in {"upload", "remove"} /\ j.at = "answer" => j.new = identity.pic,
           j.op = "rename" => j.at # "answer",
           OwesPic(k) \/ OwesName(k) => torn'.doc
    PROVE  ProfileInv'
<1>0. /\ ProfileShapes /\ Numbered /\ FileKept /\ HasCopy
      /\ (~torn.apps => TellsOne) /\ (~torn.doc => CopyFollows)
  BY DEF ProfileInv
<1>1. jobs' \in [Workers -> ProfileJobs] /\ jobs'[k] = j /\ \A o \in Workers : o # k => jobs'[o] = jobs[o]
  BY <1>0 DEF ProfileShapes
<1>2. ProfileShapes'
  BY <1>0, <1>1 DEF ProfileShapes
<1>3. \A o \in Workers : Coming(o)' => Coming(o) /\ jobs'[o].new = jobs[o].new
  BY <1>1 DEF Coming
<1>4. Numbered'
  <2>1. \A o \in Workers : jobs'[o].cur \in {jobs[o].cur, identity.pic, 0}
    BY <1>1
  <2>2. \A o \in Workers : jobs'[o].op = "upload" => jobs[o].op = "upload" /\ jobs'[o].new = jobs[o].new
    BY <1>1
  <2>3. identity.pic \in Nat /\ made \in Nat /\ \A o \in Workers : jobs[o].cur \in Nat
    BY <1>0 DEF ProfileShapes, Copies, ProfileJobs
  <2>4. \A o \in Workers : jobs'[o].cur <= made + 1
    BY <1>0, <2>1, <2>3 DEF Numbered
  <2>5. \A o, q \in Workers : Coming(o)' => jobs'[q].cur # jobs'[o].new
    <3>1. \A o \in Workers : Coming(o)' => jobs'[o].new \in 2..(made + 1)
      BY <1>0, <1>3 DEF Numbered, Coming
    <3> QED BY <1>0, <1>3, <2>1, <3>1 DEF Numbered
  <2> QED BY <1>0, <1>3, <2>2, <2>4, <2>5 DEF Numbered
<1>5. FileKept'
  <2>1. \A o \in Workers : At(o, "unlink")' => At(o, "unlink") /\ jobs'[o].cur = jobs[o].cur
    BY <1>1 DEF At
  <2>2. \A o \in Workers : Coming(o)' /\ jobs'[o].at \in {"select", "update"} => jobs'[o].new \in files'
    BY <1>0, <1>1, <1>3 DEF FileKept, Coming
  <2> QED BY <1>0, <2>1, <2>2 DEF FileKept
<1>6. HasCopy'
  BY <1>0, <1>1 DEF HasCopy, At
<1>7. ~torn'.apps => TellsOne'
  <2>1. ~torn'.apps => \A o \in Workers : /\ At(o, "unlink")' <=> At(o, "unlink")
                                          /\ At(o, "unlink") => jobs'[o].new = jobs[o].new
    BY <1>1 DEF At
  <2> QED BY <1>0, <2>1 DEF TellsOne
<1>8. ~torn'.doc => CopyFollows'
  <2> SUFFICES ASSUME ~torn'.doc PROVE CopyFollows'
    OBVIOUS
  <2>1. CopyFollows /\ ~OwesPic(k) /\ ~OwesName(k)
    BY <1>0
  <2>2. PicOwed => PicOwed'
    BY <1>1, <2>1 DEF PicOwed, OwesPic, Callers, Workers
  <2>3. NameOwed => NameOwed'
    BY <1>1, <2>1 DEF NameOwed, OwesName, At, Callers, Workers
  <2>4. \A o \in Callers : OwesPic(o)' /\ ~jobs'[o].stale => PicOwed'
    <3>1. CASE k \in Callers /\ OwesPic(k)'
      BY <1>1, <3>1 DEF PicOwed, OwesPic
    <3>2. CASE ~(k \in Callers /\ OwesPic(k)')
      BY <1>1, <2>1, <2>2, <3>2 DEF CopyFollows, OwesPic, Callers, Workers
    <3> QED BY <3>1, <3>2
  <2>5. \A o \in Callers : OwesName(o)' /\ ~jobs'[o].stale => NameOwed'
    BY <1>1, <2>1, <2>3 DEF CopyFollows, OwesName, At, Callers, Workers
  <2> QED BY <2>1, <2>2, <2>3, <2>4, <2>5 DEF CopyFollows
<1> QED BY <1>2, <1>4, <1>5, <1>6, <1>7, <1>8 DEF ProfileInv

\* The portal's own moves, and the SSO's before the row.
LEMMA MovesToTheRow ==
    ASSUME ProfileInv, NEW k \in Sessions,
           \/ k \in Callers /\ renewAccessToken(k) /\ UNCHANGED <<doc, torn>> /\ (Moves(k, FirstStage(jobs[k].op)) \/ Leaves(k))
           \/ k \in Callers /\ upstreamFails(k)
           \/ processAndStoreAvatar(k) \/ selectAvatar(k)
    PROVE  ProfileInv'
<1>0. /\ k \in Workers /\ k # "admin" /\ jobs[k] \in ProfileJobs /\ Fits(jobs[k]) /\ HasCopy /\ FileKept
      /\ torn \in [doc : BOOLEAN, apps : BOOLEAN] /\ identity.pic \in Nat
      /\ DOMAIN jobs = Workers
  BY DEF ProfileInv, ProfileShapes, Callers, Sessions, Workers, Copies
<1>a. NoJob \in ProfileJobs /\ NoJob.op = "none" /\ NoJob.at = "idle" /\ NoJob.cur = 0
  BY DEF NoJob, NoCopy, ProfileJobs, Copies
<1>1. CASE jobs' = [jobs EXCEPT ![k] = NoJob] /\ UNCHANGED <<identity, doc, pushes, announced, made, files, torn>>
           /\ jobs[k].at # "unlink" /\ ~OwesPic(k) /\ ~OwesName(k)
  <2>1. Fits(NoJob)
    BY <1>a DEF Fits
  <2> QED BY <1>0, <1>1, <1>a, <2>1, JobMoves
<1>2. CASE k \in Callers /\ renewAccessToken(k) /\ UNCHANGED <<doc, torn>> /\ (Moves(k, FirstStage(jobs[k].op)) \/ Leaves(k))
  <2>0. jobs[k].at = "renew" /\ UNCHANGED <<identity, files, pushes, announced, made>>
    BY <1>2 DEF renewAccessToken, At
  <2>1. CASE Leaves(k)
    BY <1>1, <1>2, <2>0, <2>1 DEF Leaves, OwesPic, OwesName, At
  <2>2. CASE Moves(k, FirstStage(jobs[k].op))
    <3>1. PICK st \in {"store", "select", "update", "answer"} :
            /\ st = FirstStage(jobs[k].op) /\ (st = "store" <=> jobs[k].op = "upload")
            /\ (st = "select" <=> jobs[k].op = "remove") /\ (st = "update" <=> jobs[k].op = "rename")
      BY DEF FirstStage
    <3> DEFINE j == [jobs[k] EXCEPT !.at = st]
    <3>2. jobs' = [jobs EXCEPT ![k] = j]
      BY <1>0, <2>2, <3>1 DEF Moves
    <3>3. /\ j \in ProfileJobs /\ j.at = st /\ j.op = jobs[k].op /\ j.new = jobs[k].new
          /\ j.cur = jobs[k].cur /\ j.snap = jobs[k].snap /\ j.stale = jobs[k].stale
      BY <1>0 DEF ProfileJobs
    <3> HIDE DEF j
    <3>4. Fits(j)
      BY <1>0, <3>1, <3>3 DEF Fits
    <3>5. ~OwesPic(k) /\ ~OwesName(k) /\ (jobs[k].op = "upload" => Coming(k))
          /\ (jobs[k].stale \/ jobs[k].snap = doc)
      BY <1>0, <1>2, <2>0 DEF OwesPic, OwesName, At, Coming, HasCopy
    <3> QED BY <1>0, <1>2, <2>0, <3>1, <3>2, <3>3, <3>4, <3>5, JobMoves
  <2> QED BY <1>2, <2>1, <2>2
<1>3. CASE upstreamFails(k)
  <2>1. jobs[k].at = FirstStage(jobs[k].op)
    BY <1>3 DEF upstreamFails
  <2>2. jobs[k].at # "unlink" /\ ~OwesPic(k) /\ ~OwesName(k)
    BY <2>1 DEF FirstStage, OwesPic, OwesName, At
  <2> QED BY <1>1, <1>3, <2>2 DEF upstreamFails, Leaves
<1>4. CASE processAndStoreAvatar(k)
  <2>1. /\ jobs[k].at = "store" /\ files' = files \cup {jobs[k].new} /\ jobs[k].op = "upload"
        /\ jobs' = [jobs EXCEPT ![k] = [jobs[k] EXCEPT !.at = "select"]]
        /\ UNCHANGED <<identity, doc, pushes, announced, made, torn>>
    BY <1>0, <1>4 DEF processAndStoreAvatar, Moves, At, Fits
  <2> DEFINE j == [jobs[k] EXCEPT !.at = "select"]
  <2>3. /\ j \in ProfileJobs /\ j.at = "select" /\ j.op = jobs[k].op /\ j.new = jobs[k].new
        /\ j.cur = jobs[k].cur /\ j.snap = jobs[k].snap /\ j.stale = jobs[k].stale
    BY <1>0 DEF ProfileJobs
  <2>4. jobs' = [jobs EXCEPT ![k] = j]
    BY <2>1
  <2> HIDE DEF j
  <2>5. Fits(j) /\ Coming(k) /\ ~OwesPic(k) /\ ~OwesName(k) /\ (k \in Callers => jobs[k].stale \/ jobs[k].snap = doc)
    BY <1>0, <2>1, <2>3 DEF Fits, Coming, OwesPic, OwesName, At, HasCopy
  <2> QED BY <1>0, <2>1, <2>3, <2>4, <2>5, JobMoves
<1>5. CASE selectAvatar(k)
  <2>1. jobs[k].at = "select" /\ UNCHANGED <<identity, files, doc, pushes, announced, made, torn>>
    BY <1>5 DEF selectAvatar, At
  <2>2. ~OwesPic(k) /\ ~OwesName(k) /\ jobs[k].op \in {"upload", "remove"}
    BY <1>0, <2>1 DEF Fits, OwesPic, OwesName, At
  <2>3. CASE k \notin Callers /\ Leaves(k)
    BY <1>1, <2>1, <2>2, <2>3 DEF Leaves
  <2>4. CASE ~(k \notin Callers /\ Leaves(k))
    <3>1. PICK st \in {"answer", "update"}, c \in {jobs[k].cur, identity.pic} :
            /\ st = "answer" => jobs[k].op = "remove" /\ identity.pic = 0
            /\ jobs' = [jobs EXCEPT ![k] = [jobs[k] EXCEPT !.cur = c, !.at = st]]
      <4>1. CASE jobs[k].op = "remove" /\ identity.pic = 0
        <5>1. jobs' = [jobs EXCEPT ![k].at = "answer"]
          BY <1>5, <2>4, <4>1 DEF selectAvatar, Answers, Moves
        <5>2. [jobs EXCEPT ![k].at = "answer"] = [jobs EXCEPT ![k] = [jobs[k] EXCEPT !.cur = jobs[k].cur, !.at = "answer"]]
          BY <1>0 DEF ProfileJobs
        <5> QED BY <4>1, <5>1, <5>2
      <4>2. CASE ~(jobs[k].op = "remove" /\ identity.pic = 0)
        <5>1. jobs' = [jobs EXCEPT ![k].cur = identity.pic, ![k].at = "update"]
          BY <1>5, <4>2 DEF selectAvatar
        <5>2. jobs' = [jobs EXCEPT ![k] = [jobs[k] EXCEPT !.cur = identity.pic, !.at = "update"]]
          BY <1>0, <5>1
        <5> QED BY <5>2
      <4> QED BY <4>1, <4>2
    <3> DEFINE j == [jobs[k] EXCEPT !.cur = c, !.at = st]
    <3>2. jobs' = [jobs EXCEPT ![k] = j]
      BY <3>1
    <3>3. /\ j \in ProfileJobs /\ j.at = st /\ j.op = jobs[k].op /\ j.new = jobs[k].new
          /\ j.cur = c /\ j.snap = jobs[k].snap /\ j.stale = jobs[k].stale
      BY <1>0 DEF ProfileJobs
    <3> HIDE DEF j
    <3>4. Fits(j) /\ (k \in Callers => jobs[k].stale \/ jobs[k].snap = doc)
          /\ (jobs[k].op = "upload" => Coming(k) /\ jobs[k].new \in files)
          /\ (st = "answer" => jobs[k].new = identity.pic)
      BY <1>0, <2>1, <2>2, <3>1, <3>3 DEF Fits, At, HasCopy, Coming, FileKept
    <3> QED BY <1>0, <2>1, <2>2, <3>1, <3>2, <3>3, <3>4, JobMoves
  <2> QED BY <2>3, <2>4
<1> QED BY <1>2, <1>3, <1>4, <1>5

\* The SSO stops in the middle of a request; past the row, that is noted.
LEMMA StopsOK == ASSUME ProfileInv, NEW k \in Workers, ssoStops(k) PROVE ProfileInv'
<1>1. /\ jobs[k].at \in {"select", "update", "unlink"} /\ jobs' = [jobs EXCEPT ![k] = NoJob]
      /\ torn' = [doc |-> torn.doc \/ At(k, "unlink"), apps |-> torn.apps \/ At(k, "unlink")]
      /\ UNCHANGED <<identity, files, doc, pushes, announced, made>>
  BY DEF ssoStops, Leaves
<1>2. PICK u, v \in BOOLEAN : u = (torn.doc \/ At(k, "unlink")) /\ v = (torn.apps \/ At(k, "unlink"))
  OBVIOUS
<1>3. torn' \in [doc : BOOLEAN, apps : BOOLEAN] /\ torn'.doc = u /\ torn'.apps = v
  BY <1>1, <1>2
<1>4. (torn.doc => u) /\ (torn.apps => v) /\ (jobs[k].at = "unlink" => u /\ v)
  BY <1>2 DEF At
<1>5. OwesPic(k) \/ OwesName(k) => jobs[k].at = "unlink"
  BY <1>1 DEF OwesPic, OwesName, At
<1>6. NoJob \in ProfileJobs /\ NoJob.op = "none" /\ NoJob.at = "idle" /\ NoJob.cur = 0 /\ Fits(NoJob)
  BY DEF NoJob, NoCopy, ProfileJobs, Copies, Fits
<1> QED BY <1>1, <1>3, <1>4, <1>5, <1>6, JobMoves

\* An administrator's edit of the name disturbs the copy only, and is noted.
LEMMA OrgRenameOK == ASSUME ProfileInv, orgRename PROVE ProfileInv'
<1>0. /\ ProfileShapes /\ Numbered /\ FileKept /\ HasCopy
      /\ (~torn.apps => TellsOne) /\ (~torn.doc => CopyFollows)
  BY DEF ProfileInv
<1>1. /\ made' = made + 1 /\ identity' = [identity EXCEPT !.name = made + 2]
      /\ torn' = [torn EXCEPT !.doc = TRUE]
      /\ UNCHANGED <<files, doc, jobs, pushes, announced>>
  BY DEF orgRename
<1>2. identity' \in Copies /\ identity'.pic = identity.pic
  BY <1>0, <1>1 DEF ProfileShapes, Copies
<1>3. torn' \in [doc : BOOLEAN, apps : BOOLEAN] /\ torn'.doc = TRUE /\ torn'.apps = torn.apps
  BY <1>0, <1>1 DEF ProfileShapes
<1>4. ProfileShapes'
  BY <1>0, <1>1, <1>2, <1>3 DEF ProfileShapes
<1>5. Numbered'
  <2>1. made \in Nat /\ identity.pic \in Nat /\ \A o \in Workers : jobs[o].cur \in Nat
    BY <1>0 DEF ProfileShapes, Copies, ProfileJobs
  <2>2. /\ identity.pic <= made + 1
        /\ \A o \in Workers : jobs[o].cur <= made + 1 /\ (jobs[o].op = "upload" => jobs[o].new \in 2..(made + 1))
    BY <1>0 DEF Numbered
  <2>3. /\ identity'.pic <= made' + 1
        /\ \A o \in Workers : jobs'[o].cur <= made' + 1 /\ (jobs'[o].op = "upload" => jobs'[o].new \in 2..(made' + 1))
    BY <1>1, <1>2, <2>1, <2>2
  <2>4. \A o \in Workers : Coming(o)' <=> Coming(o)
    BY <1>1 DEF Coming
  <2> QED BY <1>0, <1>1, <1>2, <2>3, <2>4 DEF Numbered
<1>6. FileKept' /\ HasCopy' /\ (~torn'.apps => TellsOne')
  BY <1>0, <1>1, <1>2, <1>3 DEF FileKept, HasCopy, TellsOne, Coming, At
<1> QED BY <1>3, <1>4, <1>5, <1>6 DEF ProfileInv

LEMMA AdminReads == ASSUME ProfileInv, orgRemoveAvatar PROVE ProfileInv'
<1> DEFINE j == [NoJob EXCEPT !.op = "remove", !.at = "update", !.cur = identity.pic]
<1>1. /\ jobs["admin"].at = "idle" /\ jobs' = [jobs EXCEPT !["admin"] = j]
      /\ UNCHANGED <<identity, files, doc, pushes, announced, made, torn>>
  BY DEF orgRemoveAvatar, At
<1>2. /\ identity.pic \in Nat /\ torn \in [doc : BOOLEAN, apps : BOOLEAN]
      /\ "admin" \in Workers /\ "admin" \notin Callers
  BY DEF ProfileInv, ProfileShapes, Copies, Workers, Callers
<1>3. j \in ProfileJobs /\ j.op = "remove" /\ j.at = "update" /\ j.cur = identity.pic /\ j.new = 0
  BY <1>2 DEF NoJob, NoCopy, ProfileJobs, Copies
<1> HIDE DEF j
<1>4. Fits(j) /\ ~OwesPic("admin") /\ ~OwesName("admin")
  BY <1>1, <1>3 DEF Fits, OwesPic, OwesName, At
<1> QED BY <1>1, <1>2, <1>3, <1>4, JobMoves

\* A request begins with the copy as it is.
LEMMA RequestOK ==
    ASSUME ProfileInv, NEW k \in Sessions, NEW op \in {"upload", "remove", "rename", "look"}, NEW new \in Nat,
           NEW st \in {"renew", FirstStage(op)}, NEW j \in ProfileJobs, jobs' = [jobs EXCEPT ![k] = j],
           j.op = op, j.at = st, j.cur = 0, j.new = new, k \in Callers => j.snap = doc,
           jobs[k].at = "idle", made' = made + 1,
           UNCHANGED <<identity, files, doc, pushes, announced, torn>>,
           op = "upload" => new = made + 2, op = "remove" => new = 0
    PROVE  ProfileInv'
<1>0. /\ ProfileShapes /\ Numbered /\ FileKept /\ HasCopy /\ k \in Workers /\ k # "admin"
      /\ (~torn.apps => TellsOne) /\ (~torn.doc => CopyFollows)
  BY DEF ProfileInv, Callers, Sessions, Workers
<1>1. /\ jobs' = [jobs EXCEPT ![k] = j] /\ jobs[k].at = "idle" /\ made' = made + 1
      /\ UNCHANGED <<identity, files, doc, pushes, announced, torn>>
  OBVIOUS
<1>2. /\ st \in {"renew", "store", "select", "update", "answer"}
      /\ (st = "store" => op = "upload") /\ (st = "select" => op = "remove")
      /\ (st = "update" => op = "rename") /\ (st = "answer" => op = "look")
  BY <1>1 DEF FirstStage
<1>3. j \in ProfileJobs /\ j.op = op /\ j.at = st /\ j.cur = 0 /\ j.new = new /\ (k \in Callers => j.snap = doc)
  OBVIOUS
<1>4. jobs' \in [Workers -> ProfileJobs] /\ jobs'[k] = j /\ \A o \in Workers : o # k => jobs'[o] = jobs[o]
  BY <1>0, <1>1, <1>3 DEF ProfileShapes
<1>5. made \in Nat /\ identity.pic \in Nat /\ \A o \in Workers : jobs[o].cur \in Nat /\ jobs[o].new \in Nat
  BY <1>0 DEF ProfileShapes, Copies, ProfileJobs
<1>6. ProfileShapes'
  BY <1>0, <1>1, <1>2, <1>3, <1>4 DEF ProfileShapes, Fits
<1>7. Numbered'
  <2>0. \A o \in Workers : jobs'[o].cur \in {jobs[o].cur, 0} /\ jobs[o].cur <= made + 1
    BY <1>0, <1>3, <1>4 DEF Numbered
  <2>1. \A o \in Workers : jobs'[o].cur \in {jobs[o].cur, 0} /\ jobs'[o].cur <= made + 1
    BY <1>5, <2>0
  <2>2. \A o \in Workers : o # k /\ jobs'[o].op = "upload" => jobs'[o].new \in 2..(made + 1)
    BY <1>0, <1>4 DEF Numbered
  <2>3. \A o \in Workers : o # k => (Coming(o)' <=> Coming(o))
    BY <1>4 DEF Coming
  <2>4. op = "upload" => jobs'[k].new = made' + 1
    BY <1>1, <1>3, <1>4, <1>5
  <2>5. \A o \in Workers : o # k /\ Coming(o)' =>
          /\ identity'.pic # jobs'[o].new
          /\ \A q \in Workers : /\ jobs'[q].cur # jobs'[o].new
                                /\ q # o /\ jobs'[q].op = "upload" => jobs'[q].new # jobs'[o].new
    <3> SUFFICES ASSUME NEW o \in Workers, o # k, Coming(o)'
                 PROVE  /\ identity'.pic # jobs'[o].new
                        /\ \A q \in Workers : /\ jobs'[q].cur # jobs'[o].new
                                              /\ q # o /\ jobs'[q].op = "upload" => jobs'[q].new # jobs'[o].new
      OBVIOUS
    <3>1. Coming(o) /\ jobs'[o].new = jobs[o].new /\ jobs[o].new \in 2..(made + 1)
      BY <1>0, <1>4, <2>3 DEF Numbered, Coming
    <3> QED BY <1>0, <1>1, <1>3, <1>4, <1>5, <2>1, <2>4, <3>1 DEF Numbered
  <2>6. Coming(k)' =>
          /\ identity'.pic # jobs'[k].new
          /\ \A q \in Workers : /\ jobs'[q].cur # jobs'[k].new
                                /\ q # k /\ jobs'[q].op = "upload" => jobs'[q].new # jobs'[k].new
    <3> SUFFICES ASSUME Coming(k)'
                 PROVE  /\ identity'.pic # jobs'[k].new
                        /\ \A q \in Workers : /\ jobs'[q].cur # jobs'[k].new
                                              /\ q # k /\ jobs'[q].op = "upload" => jobs'[q].new # jobs'[k].new
      OBVIOUS
    <3>1. jobs'[k].new = made + 2
      BY <1>3, <1>4 DEF Coming
    <3>2. identity'.pic <= made + 1
      BY <1>0, <1>1 DEF Numbered
    <3> QED BY <1>5, <2>1, <2>2, <3>1, <3>2
  <2>7. identity'.pic <= made' + 1 /\ \A o \in Workers : jobs'[o].cur <= made' + 1
    BY <1>0, <1>1, <1>5, <2>1 DEF Numbered
  <2>8. \A o \in Workers : jobs'[o].op = "upload" => jobs'[o].new \in 2..(made' + 1)
    BY <1>1, <1>3, <1>4, <1>5, <2>2, <2>4
  <2> QED BY <2>5, <2>6, <2>7, <2>8 DEF Numbered
<1>8. FileKept'
  BY <1>0, <1>1, <1>2, <1>3, <1>4 DEF FileKept, Coming, At
<1>9. HasCopy'
  BY <1>0, <1>1, <1>3, <1>4 DEF HasCopy, At, Callers, Workers
<1>10. ~torn'.apps => TellsOne'
  <2>1. \A o \in Workers : (At(o, "unlink")' <=> At(o, "unlink")) /\ (At(o, "unlink") => jobs'[o].new = jobs[o].new)
    BY <1>1, <1>2, <1>3, <1>4 DEF At
  <2> QED BY <1>0, <1>1, <2>1 DEF TellsOne
<1>11. ~torn'.doc => CopyFollows'
  <2>1. \A o \in Callers : /\ (OwesPic(o)' <=> OwesPic(o)) /\ (OwesName(o)' <=> OwesName(o))
                           /\ OwesPic(o) \/ OwesName(o) => jobs'[o] = jobs[o]
    BY <1>1, <1>2, <1>3, <1>4 DEF OwesPic, OwesName, At, Callers, Workers
  <2>2. (PicOwed <=> PicOwed') /\ (NameOwed <=> NameOwed')
    BY <1>1, <2>1 DEF PicOwed, NameOwed
  <2> QED BY <1>0, <1>1, <2>1, <2>2 DEF CopyFollows
<1> QED BY <1>6, <1>7, <1>8, <1>9, <1>10, <1>11 DEF ProfileInv

LEMMA PageRequestOK ==
    ASSUME ProfileInv, NEW k \in Callers, NEW op \in {"upload", "remove", "rename", "look"}, NEW new \in Nat,
           requireSession_portal(k, op, new), op = "upload" => new = made + 2, op = "remove" => new = 0
    PROVE  ProfileInv'
<1>1. PICK st \in {"renew", FirstStage(op)} :
        jobs' = [jobs EXCEPT ![k] = [NoJob EXCEPT !.op = op, !.new = new, !.at = st, !.snap = doc]]
  BY DEF requireSession_portal
<1>2. jobs[k].at = "idle" /\ made' = made + 1 /\ UNCHANGED <<identity, files, doc, pushes, announced, torn>>
  BY DEF requireSession_portal, At
<1>3. k \in Sessions /\ doc \in Copies /\ st \in {"renew", "store", "select", "update", "answer"}
  BY <1>1 DEF ProfileInv, ProfileShapes, Sessions, FirstStage
<1> DEFINE j == [NoJob EXCEPT !.op = op, !.new = new, !.at = st, !.snap = doc]
<1>4. j \in ProfileJobs /\ j.op = op /\ j.at = st /\ j.cur = 0 /\ j.new = new /\ j.snap = doc
  BY <1>3 DEF NoJob, NoCopy, ProfileJobs, Copies
<1>5. jobs' = [jobs EXCEPT ![k] = j]
  BY <1>1
<1> HIDE DEF j
<1> QED BY <1>2, <1>3, <1>4, <1>5, RequestOK

LEMMA OtherRequestOK == ASSUME ProfileInv, otherSession PROVE ProfileInv'
<1>1. PICK op \in {"upload", "remove", "rename"} :
        jobs' = [jobs EXCEPT !["other"] = [NoJob EXCEPT !.op = op, !.at = FirstStage(op),
                                              !.new = IF op = "remove" THEN 0 ELSE made + 2]]
  BY DEF otherSession
<1>2. jobs["other"].at = "idle" /\ made' = made + 1 /\ UNCHANGED <<identity, files, doc, pushes, announced, torn>>
  BY DEF otherSession, At
<1>3. "other" \in Sessions /\ "other" \notin Callers /\ made \in Nat
  BY DEF ProfileInv, ProfileShapes, Sessions, Callers
<1>4. PICK new \in Nat : new = (IF op = "remove" THEN 0 ELSE made + 2)
  BY <1>3
<1>5. PICK st \in {"store", "select", "update", "answer"} : st = FirstStage(op)
  BY DEF FirstStage
<1> DEFINE j == [NoJob EXCEPT !.op = op, !.at = st, !.new = new]
<1>6. j \in ProfileJobs /\ j.op = op /\ j.at = st /\ j.cur = 0 /\ j.new = new
  BY DEF NoJob, NoCopy, ProfileJobs, Copies
<1>7. jobs' = [jobs EXCEPT !["other"] = j]
  BY <1>1, <1>4, <1>5
<1> HIDE DEF j
<1> QED BY <1>2, <1>3, <1>4, <1>5, <1>6, <1>7, RequestOK

\* A write of the document: who was under way is stale from now on, and unless
\* that was noted, what the document loses nobody had put there.
LEMMA WritesOK ==
    ASSUME ProfileInv, NEW k \in Callers, NEW s \in Copies, NEW st \in {"idle", "store", "select", "update", "answer"},
           WritesBack(k, s, st), UNCHANGED <<identity, files, pushes, announced, made>>,
           \/ jobs[k].at = "renew" /\ st = FirstStage(jobs[k].op) /\ s = jobs[k].snap
           \/ jobs[k].at = "answer" /\ st = "idle" /\ s = Reflects(jobs[k])
    PROVE  ProfileInv'
<1>0. /\ ProfileShapes /\ Numbered /\ FileKept /\ HasCopy /\ k \in Workers /\ k # "admin"
      /\ (~torn.apps => TellsOne) /\ (~torn.doc => CopyFollows)
  BY DEF ProfileInv, Callers, Workers
<1>1. /\ jobs[k] \in ProfileJobs /\ Fits(jobs[k]) /\ jobs[k].at # "idle"
      /\ NoJob \in ProfileJobs /\ NoJob.op = "none" /\ NoJob.at = "idle" /\ NoJob.cur = 0
  BY <1>0 DEF NoJob, NoCopy, ProfileShapes, ProfileJobs, Copies
<1>2. /\ doc' = s /\ torn' = [torn EXCEPT !.doc = @ \/ (jobs[k].stale /\ s # doc)]
      /\ \A o \in Workers : jobs'[o] =
           IF o = k THEN IF st = "idle" THEN NoJob ELSE [jobs[k] EXCEPT !.at = st, !.snap = s]
           ELSE [jobs[o] EXCEPT !.stale = @ \/ ~At(o, "idle")]
      /\ DOMAIN jobs' = Workers /\ jobs' = [o \in Workers |-> jobs'[o]]
  BY DEF WritesBack
<1>3. \A o \in Workers : o # k =>
        /\ jobs'[o] \in ProfileJobs /\ jobs'[o].op = jobs[o].op /\ jobs'[o].at = jobs[o].at /\ jobs'[o].new = jobs[o].new
        /\ jobs'[o].cur = jobs[o].cur /\ jobs'[o].snap = jobs[o].snap
        /\ (jobs'[o].stale <=> jobs[o].stale \/ jobs[o].at # "idle")
  <2> SUFFICES ASSUME NEW o \in Workers, o # k
               PROVE  /\ jobs'[o] \in ProfileJobs /\ jobs'[o].op = jobs[o].op /\ jobs'[o].at = jobs[o].at
                      /\ jobs'[o].new = jobs[o].new /\ jobs'[o].cur = jobs[o].cur /\ jobs'[o].snap = jobs[o].snap
                      /\ (jobs'[o].stale <=> jobs[o].stale \/ jobs[o].at # "idle")
    OBVIOUS
  <2>1. PICK v \in BOOLEAN : v = (jobs[o].stale \/ ~At(o, "idle"))
    OBVIOUS
  <2>2. jobs'[o] = [jobs[o] EXCEPT !.stale = v] /\ jobs[o] \in ProfileJobs
    BY <1>0, <1>2, <2>1 DEF ProfileShapes
  <2> QED BY <2>1, <2>2 DEF ProfileJobs, At
<1>4. st # "idle" => /\ jobs'[k] \in ProfileJobs /\ jobs'[k].op = jobs[k].op /\ jobs'[k].at = st /\ jobs'[k].new = jobs[k].new
                     /\ jobs'[k].cur = jobs[k].cur /\ jobs'[k].snap = s
  <2>1. st # "idle" => jobs'[k] = [jobs[k] EXCEPT !.at = st, !.snap = s]
    BY <1>0, <1>2
  <2> QED BY <1>1, <2>1 DEF ProfileJobs
<1>5. st = "idle" => jobs'[k] = NoJob
  BY <1>0, <1>2
<1>6. st # "idle" => /\ jobs[k].at = "renew" /\ (st = "store" <=> jobs[k].op = "upload")
                     /\ (st = "select" <=> jobs[k].op = "remove") /\ (st = "update" <=> jobs[k].op = "rename")
  BY <1>1 DEF FirstStage
<1>7. ProfileShapes'
  <2>1. jobs' \in [Workers -> ProfileJobs]
    <3>1. \A o \in Workers : jobs'[o] \in ProfileJobs
      BY <1>1, <1>3, <1>4, <1>5
    <3> QED BY <1>2, <3>1
  <2>2. \A o \in Workers : Fits(jobs'[o])
    BY <1>0, <1>1, <1>3, <1>4, <1>5, <1>6 DEF ProfileShapes, Fits
  <2>3. torn' \in [doc : BOOLEAN, apps : BOOLEAN]
    <3>1. PICK v \in BOOLEAN : v = (torn.doc \/ (jobs[k].stale /\ s # doc))
      OBVIOUS
    <3> QED BY <1>0, <1>2, <3>1 DEF ProfileShapes
  <2>4. "admin" \in Workers
    BY DEF Workers
  <2> QED BY <1>0, <1>2, <1>3, <2>1, <2>2, <2>3, <2>4 DEF ProfileShapes
<1>8. \A o \in Workers : Coming(o)' => Coming(o) /\ jobs'[o].new = jobs[o].new
  BY <1>1, <1>3, <1>4, <1>5, <1>6 DEF Coming
<1>9. \A o \in Workers : /\ jobs'[o].cur \in {jobs[o].cur, 0}
                         /\ jobs'[o].op = "upload" => jobs[o].op = "upload" /\ jobs'[o].new = jobs[o].new
  BY <1>1, <1>3, <1>4, <1>5
<1>10. Numbered'
  <2>1. identity.pic \in Nat /\ made \in Nat /\ \A o \in Workers : jobs[o].cur \in Nat
    BY <1>0 DEF ProfileShapes, Copies, ProfileJobs
  <2>2. \A o \in Workers : jobs'[o].cur <= made + 1
    BY <1>0, <1>9, <2>1 DEF Numbered
  <2>3. \A o, q \in Workers : Coming(o)' => jobs'[q].cur # jobs'[o].new
    <3>1. \A o \in Workers : Coming(o)' => jobs'[o].new \in 2..(made + 1)
      BY <1>0, <1>8 DEF Numbered, Coming
    <3> QED BY <1>0, <1>8, <1>9, <3>1 DEF Numbered
  <2> QED BY <1>0, <1>8, <1>9, <2>2, <2>3 DEF Numbered
<1>11. FileKept'
  <2>1. \A o \in Workers : At(o, "unlink")' => At(o, "unlink") /\ jobs'[o].cur = jobs[o].cur
    BY <1>1, <1>3, <1>4, <1>5 DEF At
  <2>2. \A o \in Workers : Coming(o)' /\ jobs'[o].at \in {"select", "update"} => jobs'[o].new \in files
    <3>1. ~(jobs'[k].op = "upload" /\ jobs'[k].at \in {"select", "update"})
      BY <1>1, <1>4, <1>5, <1>6
    <3> QED BY <1>0, <1>3, <1>8, <3>1 DEF FileKept, Coming
  <2> QED BY <1>0, <2>1, <2>2 DEF FileKept
<1>12. HasCopy'
  BY <1>0, <1>1, <1>2, <1>3, <1>4, <1>5 DEF HasCopy, At, Callers, Workers
<1>13. ~torn'.apps => TellsOne'
  <2>1. torn'.apps = torn.apps
    BY <1>0, <1>2 DEF ProfileShapes
  <2>2. \A o \in Workers : /\ At(o, "unlink")' <=> At(o, "unlink")
                           /\ At(o, "unlink") => jobs'[o].new = jobs[o].new
    BY <1>1, <1>3, <1>4, <1>5 DEF At
  <2> QED BY <1>0, <2>1, <2>2 DEF TellsOne
<1>14. ~torn'.doc => CopyFollows'
  <2> SUFFICES ASSUME ~torn'.doc PROVE CopyFollows'
    OBVIOUS
  <2>1. CopyFollows /\ (~jobs[k].stale \/ s = doc)
    <3>1. torn'.doc = (torn.doc \/ (jobs[k].stale /\ s # doc))
      BY <1>0, <1>2 DEF ProfileShapes
    <3> QED BY <1>0, <3>1
  <2>2. jobs[k].stale \/ jobs[k].snap = doc
    BY <1>0, <1>1 DEF HasCopy, At
  <2>3. \A o \in Callers : o # k => /\ OwesPic(o)' <=> OwesPic(o)
                                    /\ OwesName(o)' <=> OwesName(o)
                                    /\ jobs'[o].new = jobs[o].new
                                    /\ OwesPic(o)' \/ OwesName(o)' => jobs'[o].stale
    BY <1>3 DEF OwesPic, OwesName, At, Callers, Workers
  <2>4. ~OwesPic(k)' /\ ~OwesName(k)'
    BY <1>1, <1>4, <1>5, <1>6 DEF OwesPic, OwesName, At
  <2>5. \A o \in Callers : (OwesPic(o)' \/ OwesName(o)') => jobs'[o].stale
    BY <2>3, <2>4
  <2>6. CASE ~OwesPic(k) /\ ~OwesName(k)
    <3>1. s = jobs[k].snap
      BY <1>1, <2>6 DEF Reflects, OwesPic, OwesName, At, ProfileJobs
    <3>2. doc' = doc
      BY <1>2, <2>1, <2>2, <3>1
    <3>3. (PicOwed => PicOwed') /\ (NameOwed => NameOwed')
      BY <2>3, <2>6 DEF PicOwed, NameOwed
    <3> QED BY <2>1, <2>5, <3>2, <3>3 DEF CopyFollows
  <2>7. CASE OwesPic(k)
    <3>1. s = [jobs[k].snap EXCEPT !.pic = jobs[k].new] /\ jobs[k].snap \in Copies /\ jobs[k].op # "rename"
      BY <1>1, <1>6, <2>7 DEF Reflects, OwesPic, ProfileJobs
    <3>2. s.pic = jobs[k].new /\ s.name = jobs[k].snap.name
      BY <3>1 DEF Copies
    <3>3. s.name = doc.name
      BY <2>1, <2>2, <3>2
    <3>4. NameOwed => NameOwed'
      BY <2>3, <3>1 DEF NameOwed, OwesName
    <3>5. s.pic = identity.pic \/ PicOwed'
      <4>1. (doc.pic = identity.pic /\ s = doc) \/ PicOwed
        BY <2>1, <2>7 DEF CopyFollows
      <4>2. CASE PicOwed
        <5>1. PICK o \in Callers : OwesPic(o) /\ jobs[o].new = identity.pic
          BY <4>2 DEF PicOwed
        <5> QED BY <2>3, <3>2, <5>1 DEF PicOwed
      <4> QED BY <4>1, <4>2
    <3> QED BY <1>2, <2>1, <2>5, <3>3, <3>4, <3>5 DEF CopyFollows
  <2>8. CASE OwesName(k)
    <3>1. s = [jobs[k].snap EXCEPT !.name = jobs[k].new] /\ jobs[k].snap \in Copies /\ jobs[k].op = "rename"
      BY <1>1, <1>6, <2>8 DEF Reflects, OwesName, At, ProfileJobs
    <3>2. s.name = jobs[k].new /\ s.pic = jobs[k].snap.pic
      BY <3>1 DEF Copies
    <3>3. s.pic = doc.pic
      BY <2>1, <2>2, <3>2
    <3>4. PicOwed => PicOwed'
      BY <2>3, <3>1 DEF PicOwed, OwesPic
    <3>5. s.name = identity.name \/ NameOwed'
      <4>1. (doc.name = identity.name /\ s = doc) \/ NameOwed
        BY <2>1, <2>8 DEF CopyFollows
      <4>2. CASE NameOwed
        <5>1. PICK o \in Callers : OwesName(o) /\ jobs[o].new = identity.name
          BY <4>2 DEF NameOwed
        <5> QED BY <2>3, <3>2, <5>1 DEF NameOwed
      <4> QED BY <4>1, <4>2
    <3> QED BY <1>2, <2>1, <2>5, <3>3, <3>4, <3>5 DEF CopyFollows
  <2> QED BY <2>6, <2>7, <2>8
<1> QED BY <1>7, <1>10, <1>11, <1>12, <1>13, <1>14 DEF ProfileInv

\* The answer, reflected or lost; a renewal, written, failed or refused.
LEMMA AnswersOK == ASSUME ProfileInv, NEW k \in Callers, renewAccessToken(k) \/ answerArrives(k) PROVE ProfileInv'
<1>0. /\ k \in Workers /\ k # "admin" /\ jobs[k] \in ProfileJobs /\ Fits(jobs[k]) /\ doc \in Copies
      /\ torn \in [doc : BOOLEAN, apps : BOOLEAN] /\ jobs[k].new \in Nat /\ jobs[k].snap \in Copies
  BY DEF ProfileInv, ProfileShapes, ProfileJobs, Callers, Workers
<1>1. CASE renewAccessToken(k)
  <2>1. FirstStage(jobs[k].op) \in {"store", "select", "update", "answer"}
    BY DEF FirstStage
  <2>2. jobs[k].at = "renew" /\ UNCHANGED <<identity, files, pushes, announced, made>>
    BY <1>1 DEF renewAccessToken, At
  <2>3. CASE WritesBack(k, jobs[k].snap, FirstStage(jobs[k].op))
    BY <1>0, <2>1, <2>2, <2>3, WritesOK
  <2>4. CASE UNCHANGED <<doc, torn>> /\ (Moves(k, FirstStage(jobs[k].op)) \/ Leaves(k))
    BY <1>1, <2>4, MovesToTheRow DEF Sessions
  <2> QED BY <1>1, <2>3, <2>4 DEF renewAccessToken
<1>2. CASE answerArrives(k)
  <2>1. jobs[k].at = "answer" /\ UNCHANGED <<identity, files, pushes, announced, made>>
    BY <1>2 DEF answerArrives, At
  <2>2. CASE WritesBack(k, Reflects(jobs[k]), "idle")
    <3>1. Reflects(jobs[k]) \in Copies
      BY <1>0 DEF Reflects, Copies
    <3> QED BY <2>1, <2>2, <3>1, WritesOK
  <2>3. CASE Leaves(k) /\ torn' = [torn EXCEPT !.doc = @ \/ jobs[k].op # "look"] /\ UNCHANGED doc
    <3>1. PICK v \in BOOLEAN : v = (torn.doc \/ jobs[k].op # "look")
      OBVIOUS
    <3>2. torn' = [torn EXCEPT !.doc = v]
      BY <2>3, <3>1
    <3>3. torn' \in [doc : BOOLEAN, apps : BOOLEAN] /\ torn'.apps = torn.apps /\ torn'.doc = v
      BY <1>0, <3>2
    <3>4. NoJob \in ProfileJobs /\ NoJob.op = "none" /\ NoJob.at = "idle" /\ NoJob.cur = 0 /\ Fits(NoJob)
      BY DEF NoJob, NoCopy, ProfileJobs, Copies, Fits
    <3>5. (torn.doc => v) /\ (OwesPic(k) \/ OwesName(k) => v)
      BY <3>1 DEF OwesPic, OwesName
    <3>6. jobs' = [jobs EXCEPT ![k] = NoJob]
      BY <2>3 DEF Leaves
    <3> QED BY <1>0, <2>1, <2>3, <3>3, <3>4, <3>5, <3>6, JobMoves
  <2> QED BY <1>2, <2>2, <2>3 DEF answerArrives
<1> QED BY <1>1, <1>2

\* The row takes the new name; the request owes the copy its answer.
LEMMA RenameOK == ASSUME ProfileInv, NEW k \in Sessions, renameRow(k) PROVE ProfileInv'
<1>0. /\ ProfileShapes /\ Numbered /\ FileKept /\ HasCopy /\ k \in Workers /\ k # "admin"
      /\ (~torn.apps => TellsOne) /\ (~torn.doc => CopyFollows)
  BY DEF ProfileInv, Callers, Sessions, Workers
<1>1. /\ jobs[k].at = "update" /\ jobs[k].op = "rename" /\ identity' = [identity EXCEPT !.name = jobs[k].new]
      /\ UNCHANGED <<files, doc, pushes, announced, made>>
  BY DEF renameRow, At
<1>2. jobs[k] \in ProfileJobs /\ jobs[k].new \in Nat
  BY <1>0 DEF ProfileShapes, ProfileJobs
<1>3. identity' \in Copies /\ identity'.pic = identity.pic /\ identity'.name = jobs[k].new
  BY <1>0, <1>1, <1>2 DEF ProfileShapes, Copies
<1>t. torn' \in [doc : BOOLEAN, apps : BOOLEAN] /\ torn'.apps = torn.apps /\ (~torn'.doc => k \in Callers /\ ~torn.doc)
  <2>1. PICK v \in BOOLEAN : v = (torn.doc \/ k \notin Callers)
    OBVIOUS
  <2>2. torn' = [torn EXCEPT !.doc = v]
    BY <2>1 DEF renameRow
  <2> QED BY <1>0, <2>1, <2>2 DEF ProfileShapes
<1>4. PICK j \in ProfileJobs :
        /\ jobs' = [jobs EXCEPT ![k] = j] /\ Fits(j) /\ j.at \in {"idle", "answer"} /\ j.op # "upload"
        /\ j.cur \in {jobs[k].cur, 0}
        /\ k \in Callers => /\ j.op = "rename" /\ j.at = "answer" /\ j.new = jobs[k].new
                            /\ j.snap = jobs[k].snap /\ j.stale = jobs[k].stale
  <2>1. CASE k \notin Callers
    <3>1. jobs' = [jobs EXCEPT ![k] = NoJob]
      BY <2>1 DEF renameRow, Answers, Leaves
    <3>2. NoJob \in ProfileJobs /\ NoJob.op = "none" /\ NoJob.at = "idle" /\ NoJob.cur = 0 /\ Fits(NoJob)
      BY DEF NoJob, NoCopy, ProfileJobs, Copies, Fits
    <3> QED BY <2>1, <3>1, <3>2
  <2>2. CASE k \in Callers
    <3> DEFINE j == [jobs[k] EXCEPT !.at = "answer"]
    <3>1. jobs' = [jobs EXCEPT ![k] = j]
      BY <1>0, <2>2 DEF renameRow, Answers, Moves, ProfileShapes
    <3>2. /\ j \in ProfileJobs /\ j.at = "answer" /\ j.op = "rename" /\ j.new = jobs[k].new
          /\ j.cur = jobs[k].cur /\ j.snap = jobs[k].snap /\ j.stale = jobs[k].stale
      BY <1>1, <1>2 DEF ProfileJobs
    <3> HIDE DEF j
    <3>3. Fits(j)
      BY <3>2 DEF Fits
    <3> QED BY <2>2, <3>1, <3>2, <3>3
  <2> QED BY <2>1, <2>2
<1>5. jobs' \in [Workers -> ProfileJobs] /\ jobs'[k] = j /\ \A o \in Workers : o # k => jobs'[o] = jobs[o]
  BY <1>0, <1>4 DEF ProfileShapes
<1>6. \A o \in Workers : /\ jobs'[o].op = "upload" => jobs[o].op = "upload" /\ jobs'[o].new = jobs[o].new
                         /\ jobs'[o].cur \in {jobs[o].cur, 0}
                         /\ (Coming(o)' <=> Coming(o) /\ o # k) /\ (Coming(o)' => jobs'[o] = jobs[o])
                         /\ (At(o, "unlink")' <=> At(o, "unlink")) /\ (At(o, "unlink") => jobs'[o] = jobs[o])
  BY <1>1, <1>4, <1>5 DEF Coming, At
<1>7. ProfileShapes'
  <2>1. jobs'["admin"] = jobs["admin"]
    BY <1>0, <1>5 DEF Workers
  <2>2. \A o \in Workers : Fits(jobs'[o])
    BY <1>0, <1>4, <1>5 DEF ProfileShapes
  <2> QED BY <1>0, <1>1, <1>3, <1>t, <1>5, <2>1, <2>2 DEF ProfileShapes
<1>8. Numbered'
  <2>1. made \in Nat /\ \A o \in Workers : jobs[o].cur \in Nat
    BY <1>0 DEF ProfileShapes, ProfileJobs
  <2>2. \A o \in Workers : jobs'[o].cur <= made + 1
    BY <1>0, <1>6, <2>1 DEF Numbered
  <2>3. \A o, q \in Workers : Coming(o)' => jobs'[q].cur # jobs'[o].new
    <3>1. \A o \in Workers : Coming(o)' => jobs'[o].new \in 2..(made + 1)
      BY <1>0, <1>6 DEF Numbered, Coming
    <3> QED BY <1>0, <1>6, <2>1, <3>1 DEF Numbered
  <2> QED BY <1>0, <1>1, <1>3, <1>6, <2>2, <2>3 DEF Numbered
<1>9. FileKept'
  BY <1>0, <1>1, <1>3, <1>6 DEF FileKept
<1>10. HasCopy'
  BY <1>0, <1>1, <1>4, <1>5 DEF HasCopy, At, Callers, Workers
<1>11. ~torn'.apps => TellsOne'
  BY <1>0, <1>1, <1>3, <1>t, <1>6 DEF TellsOne
<1>12. ~torn'.doc => CopyFollows'
  <2> SUFFICES ASSUME ~torn'.doc PROVE CopyFollows'
    OBVIOUS
  <2>0. k \in Callers /\ CopyFollows
    BY <1>0, <1>t
  <2>1. NameOwed'
    BY <1>3, <1>4, <1>5, <2>0 DEF NameOwed, OwesName, At
  <2>2. \A o \in Callers : (OwesPic(o)' <=> OwesPic(o)) /\ jobs'[o].new = jobs[o].new /\ jobs'[o].stale = jobs[o].stale
    BY <1>1, <1>4, <1>5, <2>0 DEF OwesPic, Callers, Workers
  <2>3. PicOwed' <=> PicOwed
    BY <1>3, <2>2 DEF PicOwed
  <2> QED BY <1>1, <1>3, <2>0, <2>1, <2>2, <2>3 DEF CopyFollows
<1> QED BY <1>7, <1>8, <1>9, <1>10, <1>11, <1>12 DEF ProfileInv

\* The row takes the new picture: its file is there, and nobody has read it as
\* the one to delete.
LEMMA RowOK == ASSUME ProfileInv, NEW k \in Workers, updateRow(k) PROVE ProfileInv'
<1>0. /\ ProfileShapes /\ Numbered /\ FileKept /\ HasCopy
      /\ (~torn.apps => TellsOne) /\ (~torn.doc => CopyFollows)
  BY DEF ProfileInv
<1>1. /\ jobs[k].at = "update" /\ jobs[k].op \in {"upload", "remove"}
      /\ identity' = [identity EXCEPT !.pic = jobs[k].new]
      /\ jobs' = [jobs EXCEPT ![k] = [jobs[k] EXCEPT !.at = "unlink"]]
      /\ torn' = [doc |-> torn.doc \/ k \notin Callers, apps |-> torn.apps \/ ChangeUnderway(k)]
      /\ UNCHANGED <<files, doc, pushes, announced, made>>
  BY <1>0 DEF updateRow, Moves, At, ProfileShapes, Fits
<1>2. jobs[k] \in ProfileJobs /\ jobs[k].new \in Nat /\ made \in Nat
  BY <1>0 DEF ProfileShapes, ProfileJobs
<1>3. identity' \in Copies /\ identity'.name = identity.name /\ identity'.pic = jobs[k].new
  BY <1>0, <1>1, <1>2 DEF ProfileShapes, Copies
<1>4. /\ jobs'[k] \in ProfileJobs /\ jobs'[k].op = jobs[k].op /\ jobs'[k].at = "unlink" /\ jobs'[k].new = jobs[k].new
      /\ jobs'[k].cur = jobs[k].cur /\ jobs'[k].snap = jobs[k].snap /\ jobs'[k].stale = jobs[k].stale
  BY <1>0, <1>1, <1>2 DEF ProfileShapes, ProfileJobs
<1>5. jobs' \in [Workers -> ProfileJobs] /\ \A o \in Workers : o # k => jobs'[o] = jobs[o]
  BY <1>0, <1>1, <1>4 DEF ProfileShapes
<1>6. \A o \in Workers : jobs'[o].op = jobs[o].op /\ jobs'[o].new = jobs[o].new /\ jobs'[o].cur = jobs[o].cur
                         /\ (Coming(o)' => Coming(o) /\ o # k)
  BY <1>4, <1>5 DEF Coming
<1>7. (jobs[k].op = "upload" => Coming(k)) /\ (jobs[k].op = "remove" => jobs[k].new = 0)
  BY <1>0, <1>1 DEF Coming, ProfileShapes, Fits
<1>8. ProfileShapes'
  <2>1. torn' \in [doc : BOOLEAN, apps : BOOLEAN]
    <3>1. PICK u, v \in BOOLEAN : u = (torn.doc \/ k \notin Callers) /\ v = (torn.apps \/ ChangeUnderway(k))
      OBVIOUS
    <3> QED BY <1>1, <3>1
  <2>2. \A o \in Workers : Fits(jobs'[o])
    BY <1>0, <1>1, <1>4, <1>5 DEF ProfileShapes, Fits
  <2>3. /\ jobs'["admin"].at \in {"idle", "update", "unlink"}
        /\ jobs'["admin"].at # "idle" => jobs'["admin"].op = "remove"
    <3>1. "admin" \in Workers
      BY DEF Workers
    <3> QED BY <1>0, <1>1, <1>4, <1>5, <3>1 DEF ProfileShapes
  <2> QED BY <1>0, <1>1, <1>3, <1>5, <2>1, <2>2, <2>3 DEF ProfileShapes
<1>9. Numbered'
  <2>1. identity'.pic <= made' + 1
    BY <1>0, <1>1, <1>2, <1>3, <1>7 DEF Numbered
  <2>2. \A o \in Workers : Coming(o)' => identity'.pic # jobs'[o].new
    <3> SUFFICES ASSUME NEW o \in Workers, Coming(o)' PROVE jobs[k].new # jobs[o].new
      BY <1>3, <1>6
    <3>1. Coming(o) /\ o # k /\ jobs[o].op = "upload"
      BY <1>6 DEF Coming
    <3>2. jobs[o].new \in 2..(made + 1)
      BY <1>0, <3>1 DEF Numbered
    <3>3. jobs[k].op = "upload" => jobs[k].new # jobs[o].new
      BY <1>0, <3>1 DEF Numbered
    <3> QED BY <1>1, <1>2, <1>7, <3>2, <3>3
  <2> QED BY <1>0, <1>1, <1>6, <2>1, <2>2 DEF Numbered
<1>10. FileKept'
  <2>1. identity'.pic # 0 => identity'.pic \in files
    BY <1>0, <1>1, <1>3, <1>7 DEF FileKept
  <2>2. jobs[k].new = 0 \/ \A o \in Workers : jobs[o].cur # jobs[k].new
    BY <1>0, <1>1, <1>7 DEF Numbered
  <2>3. \A o \in Workers : Coming(o)' => jobs'[o] = jobs[o]
    BY <1>5, <1>6
  <2>4. \A o \in Workers : Coming(o)' /\ jobs'[o].at \in {"select", "update"} => jobs'[o].new \in files'
    BY <1>0, <1>1, <1>6, <2>3 DEF FileKept
  <2>5. \A o \in Workers : identity'.pic = 0 \/ identity'.pic # jobs'[o].cur
    BY <1>3, <1>6, <2>2
  <2> QED BY <1>1, <2>1, <2>4, <2>5 DEF FileKept
<1>11. HasCopy'
  BY <1>0, <1>1, <1>4, <1>5 DEF HasCopy, At, Callers, Workers
<1>12. ~torn'.apps => TellsOne'
  <2> SUFFICES ASSUME ~torn'.apps PROVE TellsOne'
    OBVIOUS
  <2>1. TellsOne /\ pushes = {} /\ \A o \in Workers : o # k => ~At(o, "unlink")
    BY <1>0, <1>1 DEF ChangeUnderway
  <2>2. \A o \in Workers : At(o, "unlink")' <=> o = k
    BY <1>4, <1>5, <2>1 DEF At
  <2> QED BY <1>1, <1>3, <1>4, <2>1, <2>2 DEF TellsOne
<1>13. ~torn'.doc => CopyFollows'
  <2> SUFFICES ASSUME ~torn'.doc PROVE CopyFollows'
    OBVIOUS
  <2>1. CopyFollows /\ k \in Callers
    BY <1>0, <1>1 DEF Callers, Workers
  <2>2. PicOwed'
    BY <1>1, <1>3, <1>4, <2>1 DEF PicOwed, OwesPic
  <2>3. \A o \in Callers : /\ OwesName(o)' <=> OwesName(o)
                           /\ jobs'[o].stale = jobs[o].stale /\ jobs'[o].new = jobs[o].new
    BY <1>1, <1>4, <1>5 DEF OwesName, At, Callers, Workers
  <2>4. NameOwed' <=> NameOwed
    BY <1>3, <2>3 DEF NameOwed
  <2> QED BY <1>1, <1>3, <2>1, <2>2, <2>3, <2>4 DEF CopyFollows
<1> QED BY <1>8, <1>9, <1>10, <1>11, <1>12, <1>13 DEF ProfileInv

\* The old picture's file goes, which is no longer the row's nor anybody's to
\* come, and the change is on its way to the applications.
LEMMA UnlinkOK == ASSUME ProfileInv, NEW k \in Workers, deleteAvatarFile(k) PROVE ProfileInv'
<1>0. /\ ProfileShapes /\ Numbered /\ FileKept /\ HasCopy
      /\ (~torn.apps => TellsOne) /\ (~torn.doc => CopyFollows)
  BY DEF ProfileInv
<1>1. /\ jobs[k].at = "unlink" /\ jobs[k].op \in {"upload", "remove"}
      /\ files' = files \ {jobs[k].cur} /\ pushes' = pushes \cup {[by |-> k, pic |-> jobs[k].new]}
      /\ UNCHANGED <<identity, doc, announced, made, torn>>
  BY <1>0 DEF deleteAvatarFile, At, Doomed, pushAvatarChange, ProfileShapes, Fits
<1>2. jobs[k] \in ProfileJobs /\ jobs[k].new \in Nat /\ made \in Nat
  BY <1>0 DEF ProfileShapes, ProfileJobs
<1>3. PICK j \in ProfileJobs :
        /\ jobs' = [jobs EXCEPT ![k] = j] /\ Fits(j) /\ j.at \in {"idle", "answer"}
        /\ (k \notin Callers => j.at = "idle") /\ (j.op = "upload" => jobs[k].op = "upload" /\ j.new = jobs[k].new)
        /\ j.cur \in {jobs[k].cur, 0} /\ (k \in Callers => /\ j.op = jobs[k].op /\ j.at = "answer" /\ j.new = jobs[k].new
                                                         /\ j.snap = jobs[k].snap /\ j.stale = jobs[k].stale)
  <2>1. CASE k \notin Callers
    <3>1. jobs' = [jobs EXCEPT ![k] = NoJob]
      BY <2>1 DEF deleteAvatarFile, Answers, Leaves
    <3>2. NoJob \in ProfileJobs /\ NoJob.op = "none" /\ NoJob.at = "idle" /\ NoJob.cur = 0 /\ Fits(NoJob)
      BY DEF NoJob, NoCopy, ProfileJobs, Copies, Fits
    <3> QED BY <2>1, <3>1, <3>2
  <2>2. CASE k \in Callers
    <3> DEFINE j == [jobs[k] EXCEPT !.at = "answer"]
    <3>1. jobs' = [jobs EXCEPT ![k] = j]
      BY <1>0, <2>2 DEF deleteAvatarFile, Answers, Moves, ProfileShapes
    <3>2. /\ j \in ProfileJobs /\ j.at = "answer" /\ j.op = jobs[k].op /\ j.new = jobs[k].new
          /\ j.cur = jobs[k].cur /\ j.snap = jobs[k].snap /\ j.stale = jobs[k].stale
      BY <1>2 DEF ProfileJobs
    <3> HIDE DEF j
    <3>3. Fits(j)
      BY <1>0, <3>2 DEF ProfileShapes, Fits
    <3> QED BY <2>2, <3>1, <3>2, <3>3
  <2> QED BY <2>1, <2>2
<1>4. jobs' \in [Workers -> ProfileJobs] /\ jobs'[k] = j /\ \A o \in Workers : o # k => jobs'[o] = jobs[o]
  BY <1>0, <1>3 DEF ProfileShapes
<1>5. \A o \in Workers : /\ jobs'[o].cur \in {jobs[o].cur, 0}
                         /\ jobs'[o].op = "upload" => jobs[o].op = "upload" /\ jobs'[o].new = jobs[o].new
                         /\ Coming(o)' => Coming(o) /\ o # k /\ jobs'[o] = jobs[o]
                         /\ At(o, "unlink")' <=> At(o, "unlink") /\ o # k
  BY <1>3, <1>4 DEF Coming, At
<1>6. ProfileShapes'
  <2>1. pushes' \subseteq [by : Workers, pic : Nat]
    BY <1>0, <1>1, <1>2 DEF ProfileShapes
  <2>2. \A o \in Workers : Fits(jobs'[o])
    BY <1>0, <1>3, <1>4 DEF ProfileShapes
  <2>3. /\ jobs'["admin"].at \in {"idle", "update", "unlink"}
        /\ jobs'["admin"].at # "idle" => jobs'["admin"].op = "remove"
    <3>1. "admin" \in Workers
      BY DEF Workers
    <3>2. "admin" \notin Callers
      BY DEF Callers
    <3> QED BY <1>0, <1>3, <1>4, <3>1, <3>2 DEF ProfileShapes
  <2> QED BY <1>0, <1>1, <1>4, <2>1, <2>2, <2>3 DEF ProfileShapes
<1>7. Numbered'
  <2>1. \A o \in Workers : jobs'[o].cur <= made + 1
    BY <1>0, <1>2, <1>5 DEF Numbered
  <2>2. \A o \in Workers : Coming(o)' => jobs'[o].new \in 2..(made + 1)
    BY <1>0, <1>5 DEF Numbered, Coming
  <2>3. \A o, q \in Workers : Coming(o)' => jobs'[q].cur # jobs'[o].new
    BY <1>0, <1>2, <1>5, <2>2 DEF Numbered
  <2> QED BY <1>0, <1>1, <1>5, <2>1, <2>3 DEF Numbered
<1>8. FileKept'
  <2>1. identity.pic # 0 => identity.pic # jobs[k].cur
    BY <1>0, <1>1 DEF FileKept, At
  <2>2. \A o \in Workers : Coming(o)' => jobs'[o].new # jobs[k].cur
    BY <1>0, <1>5 DEF Numbered
  <2>3. \A o \in Workers : At(o, "unlink")' => At(o, "unlink") /\ jobs'[o] = jobs[o]
    BY <1>4, <1>5
  <2> QED BY <1>0, <1>1, <1>5, <2>1, <2>2, <2>3 DEF FileKept
<1>9. HasCopy'
  BY <1>0, <1>1, <1>3, <1>4 DEF HasCopy, At, Callers, Workers
<1>10. ~torn'.apps => TellsOne'
  <2> SUFFICES ASSUME ~torn.apps PROVE TellsOne'
    BY <1>1
  <2>1. jobs[k].new = identity.pic /\ pushes = {} /\ \A o \in Workers : At(o, "unlink") => o = k
    BY <1>0, <1>1 DEF TellsOne, At
  <2>2. \A o \in Workers : ~At(o, "unlink")'
    BY <1>5, <2>1
  <2> DEFINE e == [by |-> k, pic |-> jobs[k].new]
  <2>3. pushes' = {e} /\ e.pic = identity.pic
    BY <1>1, <2>1
  <2> HIDE DEF e
  <2> QED BY <1>1, <2>2, <2>3 DEF TellsOne
<1>11. ~torn'.doc => CopyFollows'
  <2>1. \A o \in Callers : /\ OwesPic(o)' <=> OwesPic(o)
                           /\ OwesName(o)' <=> OwesName(o)
                           /\ jobs'[o].new = jobs[o].new /\ jobs'[o].stale = jobs[o].stale
    BY <1>1, <1>3, <1>4 DEF OwesPic, OwesName, At, Callers, Workers
  <2>2. (PicOwed' <=> PicOwed) /\ (NameOwed' <=> NameOwed)
    BY <1>1, <2>1 DEF PicOwed, NameOwed
  <2> QED BY <1>0, <1>1, <2>1, <2>2 DEF CopyFollows
<1> QED BY <1>6, <1>7, <1>8, <1>9, <1>10, <1>11 DEF ProfileInv

LEMMA FannedOutOK == ASSUME ProfileInv, NEW p \in pushes, fannedOut(p) PROVE ProfileInv'
<1>0. /\ ProfileShapes /\ Numbered /\ FileKept /\ HasCopy
      /\ (~torn.apps => TellsOne) /\ (~torn.doc => CopyFollows)
  BY DEF ProfileInv
<1>1. /\ pushes' = pushes \ {p} /\ UNCHANGED <<identity, files, doc, jobs, made>>
      /\ \/ announced' = p.pic /\ UNCHANGED torn
         \/ torn' = [torn EXCEPT !.apps = TRUE]
  BY DEF fannedOut
<1>2. /\ torn' \in [doc : BOOLEAN, apps : BOOLEAN] /\ torn'.doc = torn.doc
      /\ ~torn'.apps => ~torn.apps /\ announced' = p.pic
  BY <1>0, <1>1 DEF ProfileShapes
<1>3. ProfileShapes'
  BY <1>0, <1>1, <1>2 DEF ProfileShapes, Fits
<1>4. Numbered' /\ FileKept' /\ HasCopy'
  BY <1>0, <1>1 DEF Numbered, FileKept, HasCopy, Coming, At
<1>5. ~torn'.apps => TellsOne'
  BY <1>0, <1>1, <1>2 DEF TellsOne, At
<1>6. ~torn'.doc => CopyFollows'
  BY <1>0, <1>1, <1>2 DEF CopyFollows, PicOwed, NameOwed, OwesPic, OwesName, At
<1> QED BY <1>3, <1>4, <1>5, <1>6 DEF ProfileInv

LEMMA ProfileStep == ProfileInv /\ [ProfileNext]_profileVars => ProfileInv'
<1> SUFFICES ASSUME ProfileInv, [ProfileNext]_profileVars PROVE ProfileInv'
  OBVIOUS
<1>0. made \in Nat
  BY DEF ProfileInv, ProfileShapes
<1>1. CASE \E k \in Callers : uploadAvatar(k) \/ deleteAvatar(k) \/ updateProfile(k) \/ getMe(k)
  <2>1. PICK k \in Callers : uploadAvatar(k) \/ deleteAvatar(k) \/ updateProfile(k) \/ getMe(k)
    BY <1>1
  <2>2. CASE uploadAvatar(k)
    BY <1>0, <2>1, <2>2, PageRequestOK DEF uploadAvatar
  <2>3. CASE deleteAvatar(k)
    BY <1>0, <2>1, <2>3, PageRequestOK DEF deleteAvatar
  <2>4. CASE updateProfile(k)
    BY <1>0, <2>1, <2>4, PageRequestOK DEF updateProfile
  <2>5. CASE getMe(k)
    BY <1>0, <2>1, <2>5, PageRequestOK DEF getMe
  <2> QED BY <2>1, <2>2, <2>3, <2>4, <2>5
<1>2. CASE \E k \in Callers : renewAccessToken(k) \/ upstreamFails(k) \/ answerArrives(k)
  BY <1>2, AnswersOK, MovesToTheRow DEF Sessions
<1>3. CASE \E k \in Sessions : processAndStoreAvatar(k) \/ selectAvatar(k) \/ renameRow(k)
  BY <1>3, RenameOK, MovesToTheRow
<1>4. CASE \E k \in Workers : updateRow(k) \/ deleteAvatarFile(k) \/ ssoStops(k)
  BY <1>4, RowOK, UnlinkOK, StopsOK
<1>5. CASE otherSession \/ orgRemoveAvatar \/ orgRename
  BY <1>5, OtherRequestOK, AdminReads, OrgRenameOK
<1>7. CASE \E p \in pushes : fannedOut(p)
  BY <1>7, FannedOutOK
<1>6. CASE UNCHANGED profileVars
  <2>1. UNCHANGED <<identity, files, doc, jobs, pushes, announced, made, torn>>
    BY <1>6 DEF profileVars
  <2>2. ProfileShapes' /\ Numbered' /\ FileKept' /\ HasCopy'
    BY <2>1 DEF ProfileInv, ProfileShapes, Fits, Numbered, FileKept, HasCopy, Coming, At
  <2>3. ~torn'.apps => TellsOne'
    BY <2>1 DEF ProfileInv, TellsOne, At
  <2>4. ~torn'.doc => CopyFollows'
    BY <2>1 DEF ProfileInv, CopyFollows, PicOwed, NameOwed, OwesPic, OwesName, At
  <2> QED BY <2>2, <2>3, <2>4 DEF ProfileInv
<1> QED BY <1>1, <1>2, <1>3, <1>4, <1>5, <1>6, <1>7 DEF ProfileNext

\* However uploads, removals and renames, of this session, of another, and of
\* an administrator overlap or stop halfway, the row names no picture whose file
\* is gone; the session's copy at rest is the SSO's unless a stale document was
\* written over another's, an answer was lost, the SSO stopped past the row, or
\* somebody else changed the row; and the applications were told of the picture
\* in the row unless two changes overlapped, the SSO stopped before it told
\* them, or an announcement failed.
THEOREM PictureAlwaysSound == ProfileSpec => []PictureSound
<1>1. ProfileInit => ProfileInv
  BY ProfileStart
<1>2. ProfileInv => PictureSound
  <2> SUFFICES ASSUME ProfileInv PROVE PictureSound
    OBVIOUS
  <2>1. FileKept /\ (~torn.apps => TellsOne) /\ (~torn.doc => CopyFollows)
    BY DEF ProfileInv
  <2>2. (\A k \in Workers : At(k, "idle")) => ~PicOwed /\ ~NameOwed /\ \A k \in Workers : ~At(k, "unlink")
    BY DEF PicOwed, NameOwed, OwesPic, OwesName, At, Callers, Workers
  <2>3. (\A k \in Workers : At(k, "idle")) => torn.doc \/ (doc.pic = identity.pic /\ doc.name = identity.name)
    BY <2>1, <2>2 DEF CopyFollows
  <2>4. (\A k \in Workers : At(k, "idle")) => torn.apps \/ pushes # {} \/ announced = identity.pic
    BY <2>1, <2>2 DEF TellsOne
  <2>5. identity.pic # 0 => identity.pic \in files
    BY <2>1 DEF FileKept
  <2> QED BY <2>3, <2>4, <2>5 DEF PictureSound
<1>3. ProfileInv /\ [ProfileNext]_profileVars => ProfileInv'
  BY ProfileStep
<1> QED BY <1>1, <1>2, <1>3, PTL DEF ProfileSpec

-----------------------------------------------------------------------------
(* Challenges.  What the user asked for by one click is in one place at a  *)
(* time: in a request, or on the card that will run it again.              *)
IsRequest(r) == r = [f \in {"what", "ask", "card", "run", "method", "tok", "again", "back", "ans"} |-> r[f]]
IsCard(c) ==
    c = [f \in {"kind", "acc", "method", "phase", "busy", "run", "auto", "left", "next", "tok"} |-> c[f]]
IsAsk(a) == a = [f \in {"task", "done", "off"} |-> a[f]]
ChallengeShapes ==
    /\ \A r \in wire : IsRequest(r)
    /\ \E S : cards \in Seq(S)
    /\ \A i \in 1..Len(cards) : IsCard(cards[i])
    /\ \E S : asks \in Seq(S)
    /\ \A k \in 1..Len(asks) : IsAsk(asks[k]) /\ asks[k].done \in Nat

OfCard == {"options", "dialog", "verify", "prepare"}
Carries(r) ==
    \/ r.what \in {"first", "check", "status"}
    \/ r.what = "act" /\ ~(r.back /\ r.ans \in {"ok", "error"})
Holds(k, i) ==
    /\ cards[i].left # "gone"
    /\ \/ cards[i].next = k
       \/ cards[i].left = "no" /\ \E r \in wire : r.what \in OfCard /\ r.card = i /\ r.ask = k

Addressed ==
    /\ \A r \in wire : /\ r.ask \in 0..Len(asks) /\ r.card \in 0..Len(cards)
                       /\ r.what \in OfCard \cup {"send"} => r.card # 0
    /\ \A i \in 1..Len(cards) : cards[i].next \in 0..Len(asks)
\* A card that awaits its methods has no other request, and nobody leaves it.
Awaiting(i) == \E r \in wire : r.what = "prepare" /\ r.card = i
Preparing ==
    \A r \in wire : r.what = "prepare" =>
        /\ cards[r.card].left = "no" /\ cards[r.card].phase = "preparing"
        /\ cards[r.card].method = "none" /\ cards[r.card].acc = << >>
        /\ \A q \in wire : q.card = r.card => q = r
One(k) ==
    /\ \A r, q \in wire : Carries(r) /\ Carries(q) /\ r.ask = k /\ q.ask = k => r = q
    /\ \A i, j \in 1..Len(cards) : Holds(k, i) /\ Holds(k, j) => i = j
    /\ \A r \in wire, i \in 1..Len(cards) : ~(Carries(r) /\ r.ask = k /\ Holds(k, i))
    /\ (\E r \in wire : Carries(r) /\ r.ask = k) \/ (\E i \in 1..Len(cards) : Holds(k, i))
          => asks[k].done = 0 /\ ~asks[k].off
OnePlace == \A k \in 1..Len(asks) : One(k)
ChallengeInv == ChallengeShapes /\ Addressed /\ Preparing /\ OnePlace /\ AskedOnce

LEMMA BackOf ==
    ASSUME NEW r, IsRequest(r), NEW ans
    PROVE  /\ IsRequest(Back(r, ans)) /\ Back(r, ans).what = r.what /\ Back(r, ans).ask = r.ask
           /\ Back(r, ans).card = r.card /\ Back(r, ans).back /\ Back(r, ans).ans = ans
  BY DEF IsRequest, Back
LEMMA NewRequest ==
    ASSUME NEW what, NEW k, NEW i
    PROVE  /\ IsRequest(Req(what, k, i)) /\ Req(what, k, i).what = what /\ Req(what, k, i).ask = k
           /\ Req(what, k, i).card = i
  BY DEF IsRequest, Req
LEMMA NewCard ==
    ASSUME NEW kind, NEW acc, NEW k
    PROVE  /\ IsCard(ChallengeModal(kind, acc, k)) /\ ChallengeModal(kind, acc, k).left = "no"
           /\ ChallengeModal(kind, acc, k).next = k
<1>1. PICK m, p : ChallengeModal(kind, acc, k) =
        [kind |-> kind, acc |-> acc, method |-> m, phase |-> p, busy |-> FALSE,
         run |-> 0, auto |-> FALSE, left |-> "no", next |-> k, tok |-> 0]
  BY DEF ChallengeModal
<1> QED BY <1>1 DEF IsCard

LEMMA CardWritten ==
    ASSUME \E S : cards \in Seq(S), NEW i \in 1..Len(cards), NEW c, cards' = [cards EXCEPT ![i] = c]
    PROVE  /\ \E S : cards' \in Seq(S)
           /\ Len(cards') = Len(cards) /\ cards'[i] = c
           /\ \A j \in 1..Len(cards) : j # i => cards'[j] = cards[j]
<1>1. PICK S : cards \in Seq(S)
  OBVIOUS
<1>2. /\ cards' \in Seq(S \cup {c}) /\ Len(cards') = Len(cards) /\ cards'[i] = c
      /\ \A j \in 1..Len(cards) : j # i => cards'[j] = cards[j]
  BY <1>1
<1> QED BY <1>2
LEMMA CardAdded ==
    ASSUME \E S : cards \in Seq(S), NEW c, cards' = Append(cards, c)
    PROVE  /\ \E S : cards' \in Seq(S) /\ Len(cards) \in Nat
           /\ Len(cards') = Len(cards) + 1 /\ cards'[Len(cards) + 1] = c
           /\ \A j \in 1..Len(cards) : cards'[j] = cards[j]
<1>1. PICK S : cards \in Seq(S)
  OBVIOUS
<1>2. /\ cards' \in Seq(S \cup {c}) /\ Len(cards') = Len(cards) + 1 /\ cards'[Len(cards) + 1] = c
      /\ Len(cards) \in Nat /\ \A j \in 1..Len(cards) : cards'[j] = cards[j]
  BY <1>1
<1> QED BY <1>2
LEMMA Lengths == ASSUME ChallengeInv PROVE Len(cards) \in Nat /\ Len(asks) \in Nat
  BY DEF ChallengeInv, ChallengeShapes

\* Of the asks, at most one has moved.
LEMMA OneMoved ==
    ASSUME ChallengeInv, NEW x, ChallengeShapes', Addressed', Preparing',
           \A k \in 1..Len(asks') : k # x => k \in 1..Len(asks) /\ asks'[k] = asks[k],
           \A r \in wire' : Carries(r) /\ r.ask # x => r \in wire,
           \A k \in 1..Len(asks), i \in 1..Len(cards') :
              k # x /\ Holds(k, i)' => i \in 1..Len(cards) /\ Holds(k, i),
           x \in 1..Len(asks') => /\ One(x)' /\ asks'[x].done <= 1
                                  /\ asks'[x].off => asks'[x].done = 0
    PROVE  ChallengeInv'
<1>1. ASSUME NEW k \in 1..Len(asks'), k # x PROVE One(k)'
  <2>1. k \in 1..Len(asks) /\ asks'[k] = asks[k] /\ One(k)
    BY <1>1 DEF ChallengeInv, OnePlace
  <2>2. \A i \in 1..Len(cards') : Holds(k, i)' => i \in 1..Len(cards) /\ Holds(k, i)
    BY <1>1, <2>1
  <2>3. \A r \in wire' : Carries(r) /\ r.ask = k => r \in wire
    BY <1>1
  <2>4. \A r : Carries(r)' <=> Carries(r)
    BY DEF Carries
  <2> QED BY <2>1, <2>2, <2>3, <2>4 DEF One
<1>2. OnePlace'
  BY <1>1 DEF OnePlace
<1>3. AskedOnce'
  BY DEF AskedOnce, ChallengeInv
<1> QED BY <1>2, <1>3 DEF ChallengeInv

\* A request travels on as another, or ends.
LEMMA Travels ==
    ASSUME ChallengeInv, NEW r \in wire, NEW q, IsRequest(q), q.ask = r.ask,
           q.card = r.card \/ q.card = 0, q.what \in OfCard \cup {"send"} => q.card # 0,
           q.what \in OfCard => r.what \in OfCard,
           q.what = "prepare" => r.what = "prepare", Carries(q) => Carries(r),
           wire' \subseteq (wire \ {r}) \cup {q}, UNCHANGED <<cards, asks>>
    PROVE  ChallengeInv'
<1>0. ChallengeShapes /\ Addressed /\ Preparing /\ OnePlace /\ AskedOnce
  BY DEF ChallengeInv
<1>1. ChallengeShapes'
  BY <1>0 DEF ChallengeShapes
<1>2. Addressed'
  BY <1>0, Lengths DEF Addressed
<1>3. Preparing'
  <2> SUFFICES ASSUME NEW w \in wire', w.what = "prepare", NEW s \in wire'
               PROVE  /\ cards[w.card].left = "no" /\ cards[w.card].phase = "preparing"
                      /\ cards[w.card].method = "none" /\ cards[w.card].acc = << >>
                      /\ s.card = w.card => s = w
    BY DEF Preparing
  <2>1. CASE w = q
    BY <1>0, <2>1 DEF Preparing, OfCard
  <2>2. CASE w # q
    BY <1>0, <2>2 DEF Preparing, Addressed, OfCard
  <2> QED BY <2>1, <2>2
<1>4. \A k, i : Holds(k, i)' => Holds(k, i)
  <2> SUFFICES ASSUME NEW k, NEW i, Holds(k, i)' PROVE Holds(k, i)
    OBVIOUS
  <2>1. cards[i].left # "gone" /\ (cards[i].next = k \/
          (cards[i].left = "no" /\ \E w \in wire' : w.what \in OfCard /\ w.card = i /\ w.ask = k))
    BY DEF Holds
  <2>2. (\E w \in wire' : w.what \in OfCard /\ w.card = i /\ w.ask = k) =>
           \E w \in wire : w.what \in OfCard /\ w.card = i /\ w.ask = k
    BY DEF OfCard
  <2> QED BY <2>1, <2>2 DEF Holds
<1>5. r.ask \in 1..Len(asks) => One(r.ask)'
  <2> SUFFICES ASSUME r.ask \in 1..Len(asks) PROVE One(r.ask)'
    OBVIOUS
  <2>1. One(r.ask)
    BY <1>0 DEF OnePlace
  <2>2. \A w : Carries(w)' <=> Carries(w)
    BY DEF Carries
  <2>3. CASE Carries(q)
    <3>1. \A w \in wire' : Carries(w) /\ w.ask = r.ask => w = q
      BY <2>1, <2>3 DEF One
    <3> QED BY <1>4, <2>1, <2>2, <2>3, <3>1 DEF One
  <2>4. CASE ~Carries(q)
    <3>1. \A w \in wire' : Carries(w) => w \in wire
      BY <2>4
    <3> QED BY <1>4, <2>1, <2>2, <3>1 DEF One
  <2> QED BY <2>3, <2>4
<1>6. \A w \in wire' : Carries(w) /\ w.ask # r.ask => w \in wire
  OBVIOUS
<1>7. r.ask \in 1..Len(asks) => asks[r.ask].done <= 1 /\ (asks[r.ask].off => asks[r.ask].done = 0)
  BY <1>0 DEF AskedOnce
<1> QED BY <1>1, <1>2, <1>3, <1>4, <1>5, <1>6, <1>7, OneMoved

\* What a card does while it is open, and how it is left.
LEMMA CardActs ==
    ASSUME ChallengeInv, NEW i \in 1..Len(cards), NEW c, IsCard(c), cards' = [cards EXCEPT ![i] = c],
           asks' = asks, ~Awaiting(i),
           c.left = "no" => cards[i].left = "no", c.left # "gone" => cards[i].left # "gone",
           \/ c.next = cards[i].next
           \/ /\ cards[i].left = "no" /\ c.left # "no"
              /\ \E r \in wire : r.what \in OfCard /\ r.card = i /\ r.ask = c.next,
           \A q \in wire' : q \in wire \/
             /\ IsRequest(q) /\ q.what \in {"options", "dialog", "verify", "send"} /\ q.card = i
             /\ \/ q.what = "send" /\ q.ask = 0
                \/ q.ask = cards[i].next
                \/ \E r \in wire : r.what \in OfCard /\ r.card = i /\ r.ask = q.ask
    PROVE  ChallengeInv'
<1>0. ChallengeShapes /\ Addressed /\ Preparing /\ OnePlace /\ AskedOnce
  BY DEF ChallengeInv
<1>a. /\ \E S : cards' \in Seq(S)
      /\ Len(cards') = Len(cards) /\ cards'[i] = c
      /\ \A j \in 1..Len(cards) : j # i => cards'[j] = cards[j]
  BY <1>0, CardWritten DEF ChallengeShapes
<1>1. ChallengeShapes'
  BY <1>0, <1>a DEF ChallengeShapes
<1>2. Addressed'
  <2>1. cards[i].next \in 0..Len(asks) /\ \A r \in wire : r.ask \in 0..Len(asks) /\ i # 0
    BY <1>0, Lengths DEF Addressed
  <2>2. \A q \in wire' : /\ q.ask \in 0..Len(asks) /\ q.card \in 0..Len(cards)
                         /\ q.what \in OfCard \cup {"send"} => q.card # 0
    BY <1>0, <2>1, Lengths DEF Addressed
  <2>3. c.next \in 0..Len(asks)
    BY <2>1
  <2> QED BY <1>0, <1>a, <2>2, <2>3 DEF Addressed
<1>3. Preparing'
  <2> SUFFICES ASSUME NEW w \in wire', w.what = "prepare", NEW s \in wire'
               PROVE  /\ cards'[w.card].left = "no" /\ cards'[w.card].phase = "preparing"
                      /\ cards'[w.card].method = "none" /\ cards'[w.card].acc = << >>
                      /\ s.card = w.card => s = w
    BY DEF Preparing
  <2>1. w \in wire /\ w.card # i /\ w.card \in 1..Len(cards)
    BY <1>0, Lengths DEF Awaiting, Addressed, OfCard
  <2> QED BY <1>0, <1>a, <2>1 DEF Preparing
<1>4. \A k, j \in 0..(Len(asks) + Len(cards)) : j \in 1..Len(cards) /\ Holds(k, j)' => Holds(k, j)
  <2> SUFFICES ASSUME NEW k, NEW j \in 1..Len(cards), Holds(k, j)' PROVE Holds(k, j)
    OBVIOUS
  <2>1. cards'[j].left # "gone" /\ (cards'[j].next = k \/
          (cards'[j].left = "no" /\ \E w \in wire' : w.what \in OfCard /\ w.card = j /\ w.ask = k))
    BY DEF Holds
  <2>2. CASE j # i
    BY <1>a, <2>1, <2>2 DEF Holds
  <2>3. CASE j = i
    <3>1. cards[i].left # "gone"
      BY <1>a, <2>1, <2>3
    <3>2. CASE c.next = k
      BY <2>3, <3>1, <3>2 DEF Holds
    <3>3. CASE c.left = "no" /\ \E w \in wire' : w.what \in OfCard /\ w.card = i /\ w.ask = k
      <4>1. PICK w \in wire' : w.what \in OfCard /\ w.card = i /\ w.ask = k
        BY <3>3
      <4>2. w \in wire \/ k = cards[i].next \/ \E r \in wire : r.what \in OfCard /\ r.card = i /\ r.ask = k
        BY <4>1 DEF OfCard
      <4> QED BY <2>3, <3>1, <3>3, <4>1, <4>2 DEF Holds
    <3> QED BY <1>a, <2>1, <2>3, <3>2, <3>3
  <2> QED BY <2>2, <2>3
<1>5. \A w \in wire' : Carries(w) => w \in wire
  BY DEF Carries
<1>6. \A k \in 1..Len(asks), j \in 1..Len(cards') : Holds(k, j)' => j \in 1..Len(cards) /\ Holds(k, j)
  BY <1>4, <1>a, Lengths
<1>7. 0 \notin 1..Len(asks)
  OBVIOUS
<1>8. \A k \in 1..Len(asks') : k # 0 => k \in 1..Len(asks) /\ asks'[k] = asks[k]
  OBVIOUS
<1> HIDE DEF Holds
<1> QED BY <1>1, <1>2, <1>3, <1>5, <1>6, <1>7, <1>8, OneMoved

LEMMA NotAwaiting ==
    ASSUME ChallengeInv, NEW i \in 1..Len(cards),
           \/ cards[i].method # "none" \/ cards[i].acc # << >> \/ cards[i].phase # "preparing"
           \/ cards[i].left # "no" \/ \E r \in wire : r.card = i /\ r.what # "prepare"
    PROVE  ~Awaiting(i)
<1>1. ASSUME NEW w \in wire, w.what = "prepare", w.card = i PROVE FALSE
  BY <1>1 DEF ChallengeInv, Preparing
<1> QED BY <1>1 DEF Awaiting

LEMMA RunOK ==
    ASSUME ChallengeInv, NEW i \in 1..Len(cards), NEW c, IsCard(c), c.left = cards[i].left,
           c.next = cards[i].next, runPasskey(i, c), ~Awaiting(i)
    PROVE  ChallengeInv'
<1> DEFINE d == [c EXCEPT !.method = "passkey", !.phase = "waiting", !.run = @ + 1, !.auto = TRUE]
           q == [Req("options", c.next, i) EXCEPT !.run = c.run + 1, !.method = "passkey"]
<1>1. cards' = [cards EXCEPT ![i] = d] /\ wire' = wire \cup {q} /\ asks' = asks
  BY DEF runPasskey, Update, Send
<1>2. IsCard(d) /\ d.left = c.left /\ d.next = c.next
  BY DEF IsCard
<1>3. IsRequest(q) /\ q.what = "options" /\ q.ask = c.next /\ q.card = i
  BY DEF IsRequest, Req
<1> HIDE DEF d, q
<1> QED BY <1>1, <1>2, <1>3, CardActs

\* The buttons of the card.
LEMMA ButtonsOK ==
    ASSUME ChallengeInv, NEW i \in 1..Len(cards),
           \/ autoRun(i) \/ tryAgain(i) \/ cancelWaiting(i) \/ verifyCode(i) \/ verifyPassword(i)
           \/ doSendEmail(i) \/ dismiss(i) \/ toEnroll(i) \/ \E m \in {"passkey", "totp", "email"} : switchTo(i, m)
    PROVE  ChallengeInv'
<1> DEFINE c == cards[i]
<1>0. IsCard(c)
  BY DEF ChallengeInv, ChallengeShapes
<1>1. CASE autoRun(i) \/ tryAgain(i)
  <2>1. runPasskey(i, c) /\ ~Awaiting(i)
    BY <1>1, NotAwaiting DEF autoRun, tryAgain
  <2> QED BY <1>0, <2>1, RunOK
<1>2. CASE cancelWaiting(i)
  <2> DEFINE d == [c EXCEPT !.run = @ + 1, !.busy = FALSE, !.phase = "failure"]
  <2>1. cards' = [cards EXCEPT ![i] = d] /\ wire' = wire /\ asks' = asks /\ c.method = "passkey"
    BY <1>2 DEF cancelWaiting, Update, Waiting
  <2>2. IsCard(d) /\ d.left = c.left /\ d.next = c.next
    BY <1>0 DEF IsCard
  <2>3. ~Awaiting(i)
    BY <2>1, NotAwaiting
  <2> HIDE DEF d
  <2> QED BY <2>1, <2>2, <2>3, CardActs
<1>3. CASE verifyCode(i) \/ verifyPassword(i)
  <2> DEFINE d == [c EXCEPT !.busy = TRUE]
             q == [Req("verify", c.next, i) EXCEPT !.method = c.method]
  <2>1. cards' = [cards EXCEPT ![i] = d] /\ wire' = wire \cup {q} /\ asks' = asks /\ c.method # "none"
    <3>1. CASE verifyCode(i)
      BY <3>1 DEF verifyCode, Update, Send
    <3>2. CASE verifyPassword(i)
      BY <3>2 DEF verifyPassword, Update, Send
    <3> QED BY <1>3, <3>1, <3>2
  <2>2. IsCard(d) /\ d.left = c.left /\ d.next = c.next
    BY <1>0 DEF IsCard
  <2>3. IsRequest(q) /\ q.what = "verify" /\ q.ask = c.next /\ q.card = i
    BY DEF IsRequest, Req
  <2>4. ~Awaiting(i)
    BY <2>1, NotAwaiting
  <2> HIDE DEF d, q
  <2> QED BY <2>1, <2>2, <2>3, <2>4, CardActs
<1>4. CASE doSendEmail(i)
  <2> DEFINE d == [c EXCEPT !.busy = @ \/ c.phase = "send"]
             q == [Req("send", 0, i) EXCEPT !.again = c.phase # "send"]
  <2>1. cards' = [cards EXCEPT ![i] = d] /\ wire' = wire \cup {q} /\ asks' = asks /\ c.method = "email"
    BY <1>4 DEF doSendEmail, Update, Send
  <2>2. IsCard(d) /\ d.left = c.left /\ d.next = c.next
    BY <1>0 DEF IsCard
  <2>3. IsRequest(q) /\ q.what = "send" /\ q.ask = 0 /\ q.card = i
    BY DEF IsRequest, Req
  <2>4. ~Awaiting(i)
    BY <2>1, NotAwaiting
  <2> HIDE DEF d, q
  <2> QED BY <2>1, <2>2, <2>3, <2>4, CardActs
<1>5. CASE dismiss(i) \/ toEnroll(i)
  <2>1. PICK how \in {"cancel", "enroll"} :
          /\ cards' = [cards EXCEPT ![i] = [c EXCEPT !.left = how, !.next = c.next, !.tok = 0]]
          /\ wire' = wire /\ asks' = asks /\ c.left = "no" /\ c.phase # "preparing"
    <3>1. CASE dismiss(i)
      BY <3>1 DEF dismiss, finish, Update
    <3>2. CASE toEnroll(i)
      BY <3>2 DEF toEnroll, finish, Update
    <3> QED BY <1>5, <3>1, <3>2
  <2> DEFINE d == [c EXCEPT !.left = how, !.next = c.next, !.tok = 0]
  <2>2. IsCard(d) /\ d.left = how /\ d.next = c.next /\ cards' = [cards EXCEPT ![i] = d]
    BY <1>0, <2>1 DEF IsCard
  <2>3. ~Awaiting(i)
    BY <2>1, NotAwaiting
  <2> HIDE DEF d
  <2> QED BY <2>1, <2>2, <2>3, CardActs
<1>6. CASE \E m \in {"passkey", "totp", "email"} : switchTo(i, m)
  <2>1. PICK m \in {"passkey", "totp", "email"} : switchTo(i, m)
    BY <1>6
  <2> DEFINE d == [c EXCEPT !.method = m, !.phase = startPhase(m)]
  <2>2. IsCard(d) /\ d.left = c.left /\ d.next = c.next
    BY <1>0 DEF IsCard
  <2>3. /\ c.method # "none"
        /\ runPasskey(i, d) \/ (cards' = [cards EXCEPT ![i] = d] /\ wire' = wire /\ asks' = asks)
    BY <2>1 DEF switchTo, Update
  <2>4. ~Awaiting(i)
    BY <2>3, NotAwaiting
  <2> HIDE DEF d
  <2>5. CASE runPasskey(i, d)
    BY <2>2, <2>4, <2>5, RunOK
  <2>6. CASE cards' = [cards EXCEPT ![i] = d] /\ wire' = wire /\ asks' = asks
    BY <2>2, <2>4, <2>6, CardActs
  <2> QED BY <2>3, <2>5, <2>6
<1> QED BY <1>1, <1>2, <1>3, <1>4, <1>5, <1>6

\* The card's own requests and answers.
LEMMA CeremonyOK == ASSUME ChallengeInv, NEW r \in wire, ceremony(r) PROVE ChallengeInv'
<1> DEFINE c == cards[r.card]
<1>0. /\ IsRequest(r) /\ r.what \in {"options", "dialog"} /\ asks' = asks
      /\ r.card \in 1..Len(cards) /\ ~Carries(r)
  BY Lengths DEF ChallengeInv, ChallengeShapes, Addressed, ceremony, OfCard, Carries
<1>1. IsCard(c) /\ ~Awaiting(r.card)
  BY <1>0, NotAwaiting DEF ChallengeInv, ChallengeShapes
<1>2. CASE wire' = wire \ {r} /\ cards' = cards
  BY <1>0, <1>2, Travels
<1>3. CASE wire' = (wire \ {r}) \cup {[r EXCEPT !.what = "dialog", !.back = FALSE, !.ans = "none"]} /\ cards' = cards
  <2> DEFINE q == [r EXCEPT !.what = "dialog", !.back = FALSE, !.ans = "none"]
  <2>1. IsRequest(q) /\ q.what = "dialog" /\ q.ask = r.ask /\ q.card = r.card /\ wire' = (wire \ {r}) \cup {q}
    BY <1>0, <1>3 DEF IsRequest
  <2> HIDE DEF q
  <2>2. ~Carries(q) /\ r.card # 0
    BY <1>0, <2>1 DEF Carries
  <2> QED BY <1>0, <1>3, <2>1, <2>2, Travels DEF OfCard
<1>4. CASE wire' = wire \ {r} /\ cards' = [cards EXCEPT ![r.card] = Fails(r)]
  <2>1. IsCard(Fails(r)) /\ Fails(r).left = c.left /\ Fails(r).next = c.next
    BY <1>1 DEF IsCard, Fails
  <2> QED BY <1>0, <1>1, <1>4, <2>1, CardActs
<1>5. CASE /\ wire' = (wire \ {r}) \cup {[r EXCEPT !.what = "verify"]}
           /\ cards' = [cards EXCEPT ![r.card] = [c EXCEPT !.busy = TRUE]]
  <2> DEFINE d == [c EXCEPT !.busy = TRUE]
             q == [r EXCEPT !.what = "verify"]
  <2>1. IsCard(d) /\ d.left = c.left /\ d.next = c.next /\ cards' = [cards EXCEPT ![r.card] = d]
    BY <1>1, <1>5 DEF IsCard
  <2>2. IsRequest(q) /\ q.what = "verify" /\ q.ask = r.ask /\ q.card = r.card /\ wire' = (wire \ {r}) \cup {q}
    BY <1>0, <1>5 DEF IsRequest
  <2> HIDE DEF d, q
  <2>3. r.what \in OfCard
    BY <1>0 DEF OfCard
  <2> QED BY <1>0, <1>1, <1>5, <2>1, <2>2, <2>3, CardActs
<1> QED BY <1>2, <1>3, <1>4, <1>5 DEF ceremony, Took, Swap, Update

LEMMA VerifiedOK == ASSUME ChallengeInv, NEW r \in wire, verified(r) PROVE ChallengeInv'
<1> DEFINE c == cards[r.card]
           d == [c EXCEPT !.busy = FALSE]
<1>0. IsRequest(r) /\ r.what = "verify" /\ asks' = asks /\ wire' = wire \ {r} /\ r.card \in 1..Len(cards)
  BY Lengths DEF ChallengeInv, ChallengeShapes, Addressed, verified, OfCard, Took
<1>1. IsCard(c) /\ ~Awaiting(r.card)
  BY <1>0, NotAwaiting DEF ChallengeInv, ChallengeShapes
<1>2. PICK e \in {c, d, Fails(r), finish(d, "success", r.ask, r.tok)} : cards' = [cards EXCEPT ![r.card] = e]
  BY DEF verified
<1>3. /\ IsCard(d) /\ d.left = c.left /\ d.next = c.next
      /\ IsCard(Fails(r)) /\ Fails(r).left = c.left /\ Fails(r).next = c.next
  BY <1>1 DEF IsCard, Fails
<1> DEFINE f == finish(d, "success", r.ask, r.tok)
<1>4. \/ f = d
      \/ IsCard(f) /\ c.left = "no" /\ f.left = "success" /\ f.next = r.ask
  <2> HIDE DEF d
  <2>1. CASE d.left # "no"
    BY <2>1 DEF finish
  <2>2. CASE d.left = "no"
    <3>1. f = [d EXCEPT !.left = "success", !.next = r.ask, !.tok = r.tok]
      BY <2>2 DEF finish
    <3>2. IsCard(f) /\ f.left = "success" /\ f.next = r.ask
      BY <1>3, <3>1 DEF IsCard
    <3> QED BY <1>3, <2>2, <3>2
  <2> QED BY <2>1, <2>2
<1>5. IsCard(e) /\ \/ e.left = c.left /\ e.next = c.next
                   \/ c.left = "no" /\ e.left = "success" /\ e.next = r.ask
  BY <1>1, <1>2, <1>3, <1>4
<1> HIDE DEF d, f
<1>6. r.what \in OfCard
  BY <1>0 DEF OfCard
<1> QED BY <1>0, <1>1, <1>2, <1>5, <1>6, CardActs

LEMMA CodeSentOK == ASSUME ChallengeInv, NEW r \in wire, codeSent(r) PROVE ChallengeInv'
<1> DEFINE c == cards[r.card]
<1>0. IsRequest(r) /\ r.what = "send" /\ asks' = asks /\ wire' = wire \ {r} /\ r.card \in 1..Len(cards)
  BY Lengths DEF ChallengeInv, ChallengeShapes, Addressed, codeSent, OfCard, Took
<1>1. IsCard(c) /\ ~Awaiting(r.card)
  BY <1>0, NotAwaiting DEF ChallengeInv, ChallengeShapes
<1> DEFINE d == [c EXCEPT !.phase = IF r.ans = "ok" THEN "check" ELSE @, !.busy = @ /\ r.again]
<1>2. cards' = [cards EXCEPT ![r.card] = d]
  BY DEF codeSent, Update
<1>3. IsCard(d) /\ d.left = c.left /\ d.next = c.next
  BY <1>1 DEF IsCard
<1> HIDE DEF d
<1> QED BY <1>0, <1>1, <1>2, <1>3, CardActs

\* A card opens for what a request carried.
LEMMA CardOpensOK ==
    ASSUME ChallengeInv, NEW r \in wire, NEW c, IsCard(c), c.left = "no", c.next \in {0, r.ask},
           Carries(r) \/ c.next = 0, cards' = Append(cards, c), asks' = asks, NEW q,
           \/ wire' = wire \ {r}
           \/ /\ wire' = (wire \ {r}) \cup {q} /\ IsRequest(q) /\ q.what = "prepare" /\ q.ask = r.ask
              /\ q.card = Len(cards) + 1 /\ Carries(r)
              /\ c.phase = "preparing" /\ c.method = "none" /\ c.acc = << >>
    PROVE  ChallengeInv'
<1>0. ChallengeShapes /\ Addressed /\ Preparing /\ OnePlace /\ AskedOnce
  BY DEF ChallengeInv
<1>n. PICK n \in Nat : n = Len(cards) + 1
  BY Lengths
<1>a. /\ \E S : cards' \in Seq(S) /\ Len(cards) \in Nat
      /\ Len(cards') = n /\ cards'[n] = c /\ \A j \in 1..Len(cards) : cards'[j] = cards[j]
  BY <1>0, <1>n, CardAdded DEF ChallengeShapes
<1>b. n \in Nat /\ n # 0 /\ 1..n = 1..Len(cards) \cup {n} /\ n \notin 1..Len(cards) /\ n \notin 0..Len(cards)
  BY <1>a, <1>n
<1>c. \A w \in wire' : \/ w \in wire /\ w # r /\ w.card # n
                       \/ w = q /\ w.what = "prepare" /\ w.card = n /\ w.ask = r.ask /\ Carries(r)
  <2>1. \A w \in wire : w.card # n
    BY <1>0, <1>b DEF Addressed
  <2>2. CASE wire' = wire \ {r}
    BY <2>1, <2>2
  <2>3. CASE wire' # wire \ {r}
    <3>1. wire' = (wire \ {r}) \cup {q} /\ q.what = "prepare" /\ q.ask = r.ask /\ q.card = n /\ Carries(r)
      BY <1>n, <2>3
    <3> QED BY <2>1, <3>1
  <2> QED BY <2>2, <2>3
<1>1. ChallengeShapes'
  <2>1. \A w \in wire' : IsRequest(w)
    BY <1>0 DEF ChallengeShapes
  <2> QED BY <1>0, <1>a, <1>b, <2>1 DEF ChallengeShapes
<1>2. Addressed'
  <2>1. \A w \in wire' : /\ w.ask \in 0..Len(asks) /\ w.card \in 0..n
                         /\ w.what \in OfCard \cup {"send"} => w.card # 0
    BY <1>0, <1>a, <1>b, <1>c, <1>n DEF Addressed
  <2>2. c.next \in 0..Len(asks)
    BY <1>0, Lengths DEF Addressed
  <2> QED BY <1>0, <1>a, <1>b, <2>1, <2>2 DEF Addressed
<1>3. Preparing'
  <2> SUFFICES ASSUME NEW w \in wire', w.what = "prepare", NEW s \in wire'
               PROVE  /\ cards'[w.card].left = "no" /\ cards'[w.card].phase = "preparing"
                      /\ cards'[w.card].method = "none" /\ cards'[w.card].acc = << >>
                      /\ s.card = w.card => s = w
    BY DEF Preparing
  <2>1. CASE w \in wire /\ w.card # n
    <3>1. w.card \in 1..Len(cards)
      BY <1>0, <1>a, <2>1 DEF Addressed, OfCard
    <3> QED BY <1>0, <1>a, <1>c, <2>1, <3>1 DEF Preparing
  <2>2. CASE w = q /\ w.card = n
    <3>1. wire' # wire \ {r}
      BY <1>c, <2>2, <1>0, <1>b DEF Addressed
    <3> QED BY <1>a, <1>c, <1>n, <2>2, <3>1
  <2> QED BY <1>c, <2>1, <2>2
<1>4. \A i \in 1..Len(cards) : \A k : Holds(k, i)' => Holds(k, i)
  <2> SUFFICES ASSUME NEW i \in 1..Len(cards), NEW k, Holds(k, i)' PROVE Holds(k, i)
    OBVIOUS
  <2>1. i # n /\ cards'[i] = cards[i]
    BY <1>a, <1>b
  <2> QED BY <1>c, <2>1 DEF Holds
<1>5. \A k \in 1..Len(asks) : Holds(k, n)' => k = r.ask /\ Carries(r)
  <2> SUFFICES ASSUME NEW k \in 1..Len(asks), Holds(k, n)' PROVE k = r.ask /\ Carries(r)
    OBVIOUS
  <2>1. c.next = k \/ \E w \in wire' : w.what \in OfCard /\ w.card = n /\ w.ask = k
    BY <1>a DEF Holds
  <2>2. k # 0
    BY Lengths
  <2> QED BY <1>c, <2>1, <2>2
<1>6. \A w : Carries(w)' <=> Carries(w)
  BY DEF Carries
<1>7. \A w \in wire' : Carries(w) => w \in wire /\ w # r
  BY <1>c DEF Carries
<1>8. r.ask \in 1..Len(asks) => One(r.ask)'
  <2> SUFFICES ASSUME r.ask \in 1..Len(asks) PROVE One(r.ask)'
    OBVIOUS
  <2>1. One(r.ask)
    BY <1>0 DEF OnePlace
  <2>2. CASE Carries(r)
    <3>1. \A i \in 1..Len(cards') : Holds(r.ask, i)' => i = n
      BY <1>4, <1>a, <1>b, <2>1, <2>2 DEF One
    <3>2. \A w \in wire' : ~(Carries(w) /\ w.ask = r.ask)
      BY <1>7, <2>1, <2>2 DEF One
    <3>3. asks[r.ask].done = 0 /\ ~asks[r.ask].off
      BY <2>1, <2>2 DEF One
    <3> QED BY <1>6, <3>1, <3>2, <3>3 DEF One
  <2>3. CASE ~Carries(r)
    <3>1. \A i \in 1..Len(cards') : Holds(r.ask, i)' => i \in 1..Len(cards) /\ Holds(r.ask, i)
      BY <1>4, <1>5, <1>a, <1>b, <2>3
    <3> QED BY <1>6, <1>7, <2>1, <3>1 DEF One
  <2> QED BY <2>2, <2>3
<1>9. \A k \in 1..Len(asks), i \in 1..Len(cards') : k # r.ask /\ Holds(k, i)' => i \in 1..Len(cards) /\ Holds(k, i)
  BY <1>4, <1>5, <1>a, <1>b
<1>10. r.ask \in 1..Len(asks) => asks[r.ask].done <= 1 /\ (asks[r.ask].off => asks[r.ask].done = 0)
  BY <1>0 DEF AskedOnce
<1>11. \A w \in wire' : Carries(w) /\ w.ask # r.ask => w \in wire
  BY <1>7
<1> HIDE DEF Holds, Carries, One
<1> QED BY <1>1, <1>2, <1>3, <1>8, <1>9, <1>10, <1>11, OneMoved

\* The open card is given another ask to run; what it had is forgotten.
LEMMA RetargetOK ==
    ASSUME ChallengeInv, NEW r \in wire, Carries(r), NEW s \in 1..Len(cards),
           cards' = [cards EXCEPT ![s] = [cards[s] EXCEPT !.next = r.ask]],
           wire' = wire \ {r}, asks' = asks
    PROVE  ChallengeInv'
<1>0. ChallengeShapes /\ Addressed /\ Preparing /\ OnePlace /\ AskedOnce
  BY DEF ChallengeInv
<1> DEFINE c == [cards[s] EXCEPT !.next = r.ask]
<1>1. IsCard(c) /\ c.next = r.ask /\ c.left = cards[s].left /\ c.phase = cards[s].phase
      /\ c.method = cards[s].method /\ c.acc = cards[s].acc
  BY <1>0 DEF ChallengeShapes, IsCard
<1> HIDE DEF c
<1>a. /\ \E S : cards' \in Seq(S)
      /\ Len(cards') = Len(cards) /\ cards'[s] = c
      /\ \A j \in 1..Len(cards) : j # s => cards'[j] = cards[j]
  BY <1>0, CardWritten DEF ChallengeShapes, c
<1>2. ChallengeShapes'
  BY <1>0, <1>1, <1>a DEF ChallengeShapes
<1>3. Addressed'
  BY <1>0, <1>1, <1>a DEF Addressed
<1>4. Preparing'
  <2> SUFFICES ASSUME NEW w \in wire, w.what = "prepare"
               PROVE  /\ cards'[w.card].left = "no" /\ cards'[w.card].phase = "preparing"
                      /\ cards'[w.card].method = "none" /\ cards'[w.card].acc = << >>
    BY <1>0 DEF Preparing
  <2>1. w.card \in 1..Len(cards)
    BY <1>0, Lengths DEF Addressed, OfCard
  <2> QED BY <1>0, <1>1, <1>a, <2>1 DEF Preparing
<1>5. \A k \in 1..Len(asks), i \in 1..Len(cards) : Holds(k, i)' => Holds(k, i) \/ (k = r.ask /\ i = s)
  BY <1>1, <1>a DEF Holds
<1>6. \A w : Carries(w)' <=> Carries(w)
  BY DEF Carries
<1>7. r.ask \in 1..Len(asks) => One(r.ask)'
  <2> SUFFICES ASSUME r.ask \in 1..Len(asks) PROVE One(r.ask)'
    OBVIOUS
  <2>1. One(r.ask)
    BY <1>0 DEF OnePlace
  <2>2. \A i \in 1..Len(cards') : Holds(r.ask, i)' => i = s
    BY <1>5, <1>a, <2>1 DEF One
  <2>3. \A w \in wire' : ~(Carries(w) /\ w.ask = r.ask)
    BY <2>1 DEF One
  <2>4. asks[r.ask].done = 0 /\ ~asks[r.ask].off
    BY <2>1 DEF One
  <2> QED BY <1>6, <2>2, <2>3, <2>4 DEF One
<1>8. \A k \in 1..Len(asks), i \in 1..Len(cards') : k # r.ask /\ Holds(k, i)' => i \in 1..Len(cards) /\ Holds(k, i)
  BY <1>5, <1>a
<1>9. r.ask \in 1..Len(asks) => asks[r.ask].done <= 1 /\ (asks[r.ask].off => asks[r.ask].done = 0)
  BY <1>0 DEF AskedOnce
<1> HIDE DEF Holds, Carries, One
<1> QED BY <1>2, <1>3, <1>4, <1>7, <1>8, <1>9, OneMoved

LEMMA MountsOK ==
    ASSUME ChallengeInv, NEW r \in wire, Carries(r), Mounts("stepup", screen.acc, r.ask),
           wire' = wire \ {r}, asks' = asks
    PROVE  ChallengeInv'
<1>0. IsRequest(r) /\ (r.what \in OfCard \cup {"send"} => r.card # 0) /\ \E S : cards \in Seq(S)
  BY DEF ChallengeInv, ChallengeShapes, Addressed
<1>1. CASE cards' = cards
  BY <1>0, <1>1, Travels
<1>2. CASE cards' = Append(cards, ChallengeModal("stepup", screen.acc, r.ask))
  BY <1>2, NewCard, CardOpensOK
<1>3. CASE cards' = [cards EXCEPT ![screen.shown].next = r.ask]
  <2>1. CASE screen.shown \in 1..Len(cards)
    BY <1>3, <2>1, RetargetOK
  <2>2. CASE screen.shown \notin 1..Len(cards)
    <3>1. PICK S : cards \in Seq(S)
      BY <1>0
    <3>2. cards' = cards
      BY <1>3, <2>2, <3>1
    <3> QED BY <1>1, <3>2
  <2> QED BY <2>1, <2>2
<1> QED BY <1>1, <1>2, <1>3 DEF Mounts

\* The pages' side of a request: it ends, goes on as another, or opens a card.
LEMMA PagesOK ==
    ASSUME ChallengeInv, NEW r \in wire, SecurityGate(r) \/ withFreshStepup(r) \/ submitValue(r) \/ demandStepup(r)
    PROVE  ChallengeInv'
<1>0. /\ IsRequest(r) /\ (r.what \in OfCard \cup {"send"} => r.card # 0) /\ asks' = asks
      /\ r.what \in {"gate", "first", "check", "status"}
  BY DEF ChallengeInv, ChallengeShapes, Addressed, SecurityGate, withFreshStepup, submitValue, demandStepup
<1>1. CASE wire' = wire \ {r} /\ cards' = cards
  BY <1>0, <1>1, Travels
<1>2. CASE SecurityGate(r)
  <2>1. wire' = wire \ {r} /\ (cards' = cards \/ cards' = Append(cards, ChallengeModal("gate", screen.acc, 0)))
    BY <1>2 DEF SecurityGate, Took
  <2>2. CASE cards' = Append(cards, ChallengeModal("gate", screen.acc, 0))
    BY <1>0, <2>1, <2>2, NewCard, CardOpensOK
  <2> QED BY <1>1, <2>1, <2>2
<1>3. CASE (withFreshStepup(r) \/ submitValue(r)) /\ wire' = (wire \ {r}) \cup {Req("act", r.ask, 0)} /\ cards' = cards
  <2> DEFINE q == Req("act", r.ask, 0)
  <2>1. IsRequest(q) /\ q.what = "act" /\ q.ask = r.ask /\ q.card = 0
    BY NewRequest
  <2>2. Carries(r) /\ q.what \notin OfCard \cup {"send"}
    BY <1>3, <2>1 DEF Carries, withFreshStepup, submitValue, OfCard
  <2>3. wire' = (wire \ {r}) \cup {q}
    BY <1>3
  <2> HIDE DEF q
  <2> QED BY <1>0, <1>3, <2>1, <2>2, <2>3, Travels DEF OfCard
<1>4. CASE withFreshStepup(r)
  <2>1. CASE r.ans = "stale" /\ Took(r) /\ Mounts("stepup", screen.acc, r.ask)
    <3>1. Carries(r)
      BY <1>4 DEF Carries, withFreshStepup
    <3> QED BY <1>0, <2>1, <3>1, MountsOK DEF Took
  <2> QED BY <1>3, <1>4, <2>1 DEF withFreshStepup
<1>5. CASE submitValue(r)
  <2>1. CASE Took(r) /\ cards' = cards
    BY <1>1, <2>1 DEF Took
  <2> QED BY <1>3, <1>5, <2>1 DEF submitValue
<1>6. CASE demandStepup(r)
  <2>1. Carries(r) /\ wire' = wire \ {r}
    BY <1>6 DEF Carries, demandStepup, Took
  <2>2. CASE cards' = Append(cards, ChallengeModal("stepup", screen.acc, r.ask))
    BY <1>0, <2>1, <2>2, NewCard, CardOpensOK
  <2>3. CASE Mounts("stepup", screen.acc, r.ask)
    BY <1>0, <2>1, <2>3, MountsOK
  <2> QED BY <1>1, <1>6, <2>1, <2>2, <2>3 DEF demandStepup
<1> QED BY <1>2, <1>4, <1>5, <1>6

LEMMA AnsweredOK == ASSUME ChallengeInv, NEW r \in wire, answered(r) PROVE ChallengeInv'
<1>0. IsRequest(r) /\ r.what = "act" /\ r.back /\ asks' = asks /\ r.what \notin OfCard \cup {"send"}
  BY DEF ChallengeInv, ChallengeShapes, answered, OfCard
<1>1. CASE wire' = wire \ {r} /\ cards' = cards
  BY <1>0, <1>1, Travels
<1>2. CASE /\ r.ans = "step_up_required" /\ cards' = cards
           /\ wire' = (wire \ {r}) \cup {[Req("status", r.ask, 0) EXCEPT !.again = r.again]}
  <2> DEFINE q == [Req("status", r.ask, 0) EXCEPT !.again = r.again]
  <2>1. IsRequest(q) /\ q.what = "status" /\ q.ask = r.ask /\ q.card = 0 /\ wire' = (wire \ {r}) \cup {q}
    BY <1>2 DEF IsRequest, Req
  <2>2. Carries(r) /\ q.what \notin OfCard \cup {"send"}
    BY <1>0, <1>2, <2>1 DEF Carries, OfCard
  <2> HIDE DEF q
  <2> QED BY <1>0, <1>2, <2>1, <2>2, Travels DEF OfCard
<1>3. CASE /\ r.ans = "action_challenge_required"
           /\ wire' = (wire \ {r}) \cup {Req("prepare", r.ask, Len(cards) + 1)}
           /\ cards' = Append(cards, [ChallengeModal("action", << >>, r.ask) EXCEPT !.phase = "preparing"])
  <2> DEFINE c == [ChallengeModal("action", << >>, r.ask) EXCEPT !.phase = "preparing"]
             q == Req("prepare", r.ask, Len(cards) + 1)
  <2>1. IsCard(c) /\ c.left = "no" /\ c.next = r.ask /\ c.phase = "preparing" /\ c.method = "none" /\ c.acc = << >>
        /\ cards' = Append(cards, c)
    BY <1>3 DEF IsCard, ChallengeModal, startPhase
  <2>2. IsRequest(q) /\ q.what = "prepare" /\ q.ask = r.ask /\ q.card = Len(cards) + 1 /\ wire' = (wire \ {r}) \cup {q}
    BY <1>3, NewRequest
  <2>3. Carries(r)
    BY <1>0, <1>3 DEF Carries
  <2> HIDE DEF c, q
  <2> QED BY <1>0, <2>1, <2>2, <2>3, CardOpensOK
<1> QED BY <1>1, <1>2, <1>3 DEF answered, Took, Swap

\* The methods arrive at the card that awaits them.
LEMMA PreparedOK == ASSUME ChallengeInv, NEW r \in wire, ActionChallengeModal(r) PROVE ChallengeInv'
<1>0. /\ IsRequest(r) /\ r.what = "prepare" /\ r.what \in OfCard /\ r.card # 0 /\ asks' = asks /\ wire' = wire \ {r}
      /\ r.card \in 1..Len(cards) /\ cards[r.card].left = "no" /\ ~Carries(r) /\ IsCard(cards[r.card])
      /\ \A q \in wire : q.card = r.card => q = r
  BY Lengths DEF ChallengeInv, ChallengeShapes, Addressed, Preparing, ActionChallengeModal, OfCard, Took, Carries
<1>1. CASE cards' = cards
  BY <1>0, <1>1, Travels
<1>2. CASE cards' # cards
  <2> DEFINE i == r.card
  <2>1. PICK c \in {ChallengeModal("action", screen.acc, r.ask), [cards[i] EXCEPT !.phase = "error"]} :
          cards' = [cards EXCEPT ![i] = c]
    BY <1>2 DEF ActionChallengeModal
  <2>2. IsCard(c) /\ c.left = "no" /\ c.next \in {cards[i].next, r.ask}
    <3>1. CASE c = ChallengeModal("action", screen.acc, r.ask)
      BY <3>1, NewCard
    <3>2. CASE c = [cards[i] EXCEPT !.phase = "error"]
      BY <1>0, <3>2 DEF IsCard
    <3> QED BY <2>1, <3>1, <3>2
  <2>3. /\ \E S : cards' \in Seq(S)
        /\ Len(cards') = Len(cards) /\ cards'[i] = c
        /\ \A j \in 1..Len(cards) : j # i => cards'[j] = cards[j]
    BY <1>0, <2>1, CardWritten DEF ChallengeInv, ChallengeShapes
  <2>4. ChallengeShapes' /\ Addressed'
    <3>1. c.next \in 0..Len(asks)
      BY <1>0, <2>2 DEF ChallengeInv, Addressed
    <3> QED BY <1>0, <2>2, <2>3, <3>1 DEF ChallengeInv, ChallengeShapes, Addressed
  <2>5. Preparing'
    <3> SUFFICES ASSUME NEW w \in wire', w.what = "prepare"
                 PROVE  /\ cards'[w.card].left = "no" /\ cards'[w.card].phase = "preparing"
                        /\ cards'[w.card].method = "none" /\ cards'[w.card].acc = << >>
                        /\ \A q \in wire' : q.card = w.card => q = w
      BY DEF Preparing
    <3>1. w \in wire /\ w.card # i /\ w.card \in 1..Len(cards)
      BY <1>0, Lengths DEF ChallengeInv, Addressed, OfCard
    <3> QED BY <1>0, <2>3, <3>1 DEF ChallengeInv, Preparing
  <2>6. \A k \in 1..Len(asks), j \in 1..Len(cards') : k # 0 /\ Holds(k, j)' => j \in 1..Len(cards) /\ Holds(k, j)
    <3> SUFFICES ASSUME NEW k \in 1..Len(asks), NEW j \in 1..Len(cards), Holds(k, j)' PROVE Holds(k, j)
      BY <2>3
    <3>1. CASE j = i
      <4>1. k \in {cards[i].next, r.ask}
        BY <1>0, <2>2, <2>3, <3>1 DEF Holds
      <4> QED BY <1>0, <3>1, <4>1 DEF Holds
    <3>2. CASE j # i
      BY <1>0, <2>3, <3>2 DEF Holds
    <3> QED BY <3>1, <3>2
  <2>7. 0 \notin 1..Len(asks) /\ \A w \in wire' : w \in wire
    BY <1>0
  <2>8. \A k \in 1..Len(asks') : k # 0 => k \in 1..Len(asks) /\ asks'[k] = asks[k]
    BY <1>0
  <2>9. \A w \in wire' : Carries(w) /\ w.ask # 0 => w \in wire
    BY <2>7
  <2>10. 0 \in 1..Len(asks') => /\ One(0)' /\ asks'[0].done <= 1
                                /\ asks'[0].off => asks'[0].done = 0
    BY <1>0, <2>7
  <2> HIDE DEF Holds, Carries, One, i
  <2> QED BY <2>4, <2>5, <2>6, <2>8, <2>9, <2>10, OneMoved
<1> QED BY <1>1, <1>2

\* A card is gone after its first way out, and hands on what it had to run.
LEMMA ExitOK == ASSUME ChallengeInv, NEW i \in 1..Len(cards), exit(i) PROVE ChallengeInv'
<1>0. ChallengeShapes /\ Addressed /\ Preparing /\ OnePlace /\ AskedOnce
  BY DEF ChallengeInv
<1>x. PICK x \in 0..Len(asks) : x = cards[i].next
  BY <1>0 DEF Addressed
<1> DEFINE c == [cards[i] EXCEPT !.left = "gone"]
           q == [Req("act", x, 0) EXCEPT !.again = TRUE, !.tok = cards[i].tok]
           off == [asks EXCEPT ![x].off = TRUE]
<1>1. /\ cards[i].left \in {"success", "cancel", "enroll"} /\ cards' = [cards EXCEPT ![i] = c]
      /\ \/ wire' = wire \cup {q} /\ asks' = asks
         \/ wire' = wire /\ asks' = asks
         \/ wire' = wire /\ asks' = off
  BY <1>x DEF exit, Update, Runs
<1>2. IsCard(c) /\ c.left = "gone" /\ c.next = x
  BY <1>0, <1>x DEF ChallengeShapes, IsCard
<1>3. IsRequest(q) /\ q.what = "act" /\ q.ask = x /\ q.card = 0
  BY DEF IsRequest, Req
<1> HIDE DEF c, q
<1>4. /\ \E S : cards' \in Seq(S)
      /\ Len(cards') = Len(cards) /\ cards'[i] = c
      /\ \A j \in 1..Len(cards) : j # i => cards'[j] = cards[j]
  BY <1>0, <1>1, CardWritten DEF ChallengeShapes
<1>5. x \in 0..Len(asks) /\ Holds(x, i)
  BY <1>0, <1>1, <1>x DEF Addressed, Holds
<1>6. /\ \E S : asks' \in Seq(S) /\ Len(asks') = Len(asks)
      /\ \A k \in 1..Len(asks) : /\ k # x => asks'[k] = asks[k]
                                 /\ IsAsk(asks'[k]) /\ asks'[k].done = asks[k].done
  <2>1. CASE asks' = asks
    BY <1>0, <2>1 DEF ChallengeShapes
  <2>2. CASE asks' = off /\ x \in 1..Len(asks)
    <3>1. PICK S : asks \in Seq(S)
      BY <1>0 DEF ChallengeShapes
    <3> DEFINE a == [asks[x] EXCEPT !.off = TRUE]
    <3>2. off = [asks EXCEPT ![x] = a]
      OBVIOUS
    <3>3. x \in 1..Len(asks) => IsAsk(a) /\ a.done = asks[x].done
      BY <1>0 DEF ChallengeShapes, IsAsk
    <3> HIDE DEF a
    <3>4. asks' \in Seq(S \cup {a}) /\ Len(asks') = Len(asks)
      BY <2>2, <3>1, <3>2
    <3>5. asks'[x] = a /\ \A k \in 1..Len(asks) : k # x => asks'[k] = asks[k]
      BY <2>2, <3>1, <3>2
    <3> QED BY <1>0, <3>3, <3>4, <3>5 DEF ChallengeShapes
  <2>3. off = asks \/ x \in 1..Len(asks)
    <3>1. PICK S : asks \in Seq(S)
      BY <1>0 DEF ChallengeShapes
    <3> QED BY <3>1
  <2> HIDE DEF off
  <2> QED BY <1>1, <2>1, <2>2, <2>3
<1>7. ChallengeShapes'
  <2>1. \A w \in wire' : IsRequest(w)
    BY <1>0, <1>1, <1>3 DEF ChallengeShapes
  <2>2. \A k \in 1..Len(asks') : IsAsk(asks'[k]) /\ asks'[k].done \in Nat
    BY <1>0, <1>6 DEF ChallengeShapes
  <2>3. \A j \in 1..Len(cards') : IsCard(cards'[j])
    BY <1>0, <1>2, <1>4 DEF ChallengeShapes
  <2> QED BY <1>4, <1>6, <2>1, <2>2, <2>3 DEF ChallengeShapes
<1>8. Addressed'
  <2>1. \A w \in wire' : /\ w.ask \in 0..Len(asks) /\ w.card \in 0..Len(cards)
                         /\ w.what \in OfCard \cup {"send"} => w.card # 0
    BY <1>0, <1>1, <1>3, <1>5, Lengths DEF Addressed, OfCard
  <2> QED BY <1>0, <1>2, <1>4, <1>5, <1>6, <2>1 DEF Addressed
<1>9. Preparing'
  <2> SUFFICES ASSUME NEW w \in wire', w.what = "prepare"
               PROVE  /\ cards'[w.card].left = "no" /\ cards'[w.card].phase = "preparing"
                      /\ cards'[w.card].method = "none" /\ cards'[w.card].acc = << >>
                      /\ \A s \in wire' : s.card = w.card => s = w
    BY DEF Preparing
  <2>1. w \in wire /\ w.card \in 1..Len(cards) /\ w.card # i
    BY <1>0, <1>1, <1>3, Lengths DEF Addressed, OfCard, Preparing
  <2> QED BY <1>0, <1>1, <1>3, <1>4, <2>1 DEF Preparing
<1>10. \A k \in 1..Len(asks), j \in 1..Len(cards) : Holds(k, j)' => Holds(k, j) /\ j # i
  BY <1>1, <1>2, <1>3, <1>4 DEF Holds, OfCard
<1>11. x \in 1..Len(asks) => /\ \A w \in wire : ~(Carries(w) /\ w.ask = x)
                             /\ \A j \in 1..Len(cards) : Holds(x, j) => j = i
                             /\ asks[x].done = 0 /\ ~asks[x].off
  BY <1>0, <1>5 DEF OnePlace, One
<1>12. x \in 1..Len(asks') => One(x)' /\ asks'[x].done <= 1 /\ (asks'[x].off => asks'[x].done = 0)
  <2> SUFFICES ASSUME x \in 1..Len(asks) PROVE One(x)' /\ asks'[x].done <= 1 /\ asks'[x].done = 0
    BY <1>6
  <2>1. \A j \in 1..Len(cards') : ~Holds(x, j)'
    BY <1>4, <1>10, <1>11
  <2>2. asks'[x].done = 0
    BY <1>6, <1>11
  <2>3. \A w \in wire' : Carries(w)' /\ w.ask = x => w = q /\ asks' = asks
    BY <1>1, <1>11 DEF Carries
  <2>4. asks' = asks => ~asks'[x].off
    BY <1>11
  <2>5. One(x)'
    BY <2>1, <2>2, <2>3, <2>4 DEF One
  <2> QED BY <2>2, <2>5
<1>13. \A k \in 1..Len(asks') : k # x => k \in 1..Len(asks) /\ asks'[k] = asks[k]
  BY <1>6
<1>14. \A w \in wire' : Carries(w) /\ w.ask # x => w \in wire
  BY <1>1, <1>3
<1>15. \A k \in 1..Len(asks), j \in 1..Len(cards') : k # x /\ Holds(k, j)' => j \in 1..Len(cards) /\ Holds(k, j)
  BY <1>4, <1>10
<1> HIDE DEF Holds, Carries, One
<1> QED BY <1>7, <1>8, <1>9, <1>12, <1>13, <1>14, <1>15, OneMoved

\* A click asks for something nobody has yet.
LEMMA ClickOK == ASSUME ChallengeInv, NEW t, click(t) PROVE ChallengeInv'
<1>0. ChallengeShapes /\ Addressed /\ Preparing /\ OnePlace /\ AskedOnce
  BY DEF ChallengeInv
<1>k. PICK k \in Nat : k = Len(asks) + 1
  BY Lengths
<1> DEFINE a == [task |-> t, done |-> 0, off |-> FALSE]
<1>1. PICK what \in {"first", "check", "act"} : wire' = wire \cup {Req(what, k, 0)}
  BY <1>k DEF click, Send
<1> DEFINE q == Req(what, k, 0)
<1>2. asks' = Append(asks, a) /\ cards' = cards
  BY DEF click
<1>3. IsAsk(a) /\ a.done = 0 /\ a.off = FALSE
  BY DEF IsAsk
<1>4. IsRequest(q) /\ q.what = what /\ q.ask = k /\ q.card = 0 /\ wire' = wire \cup {q}
  BY <1>1, NewRequest
<1> HIDE DEF a, q
<1>5. /\ \E S : asks' \in Seq(S)
      /\ Len(asks') = k /\ asks'[k] = a /\ \A j \in 1..Len(asks) : asks'[j] = asks[j]
  <2>1. PICK S : asks \in Seq(S)
    BY <1>0 DEF ChallengeShapes
  <2>2. /\ asks' \in Seq(S \cup {a}) /\ Len(asks') = Len(asks) + 1 /\ asks'[Len(asks) + 1] = a
        /\ \A j \in 1..Len(asks) : asks'[j] = asks[j]
    BY <1>2, <2>1
  <2> QED BY <1>k, <2>2
<1>6. /\ 1..k = 1..Len(asks) \cup {k} /\ 0..Len(asks) \subseteq 0..k /\ k \notin 0..Len(asks) /\ k # 0 /\ k \in 0..k
  BY <1>k, Lengths
<1>7. ChallengeShapes'
  <2>1. \A j \in 1..Len(asks') : IsAsk(asks'[j]) /\ asks'[j].done \in Nat
    <3>1. \A j \in 1..Len(asks) : IsAsk(asks'[j]) /\ asks'[j].done \in Nat
      BY <1>0, <1>5 DEF ChallengeShapes
    <3>2. IsAsk(asks'[k]) /\ asks'[k].done \in Nat
      BY <1>3, <1>5
    <3> QED BY <1>5, <1>6, <3>1, <3>2
  <2> QED BY <1>0, <1>2, <1>4, <1>5, <2>1 DEF ChallengeShapes
<1>8. Addressed'
  <2>1. \A w \in wire : w.ask \in 0..k /\ \A i \in 1..Len(cards) : cards[i].next \in 0..k
    BY <1>0, <1>6 DEF Addressed
  <2>2. q.what \notin OfCard \cup {"send"} /\ 0 \in 0..Len(cards)
    BY <1>4, Lengths DEF OfCard
  <2>3. \A i \in 1..Len(cards) : cards[i].next \in 0..k
    BY <1>0, <1>6 DEF Addressed
  <2> QED BY <1>0, <1>2, <1>4, <1>5, <1>6, <2>1, <2>2, <2>3 DEF Addressed
<1>9. Preparing'
  <2> SUFFICES ASSUME NEW w \in wire', w.what = "prepare"
               PROVE  /\ cards'[w.card].left = "no" /\ cards'[w.card].phase = "preparing"
                      /\ cards'[w.card].method = "none" /\ cards'[w.card].acc = << >>
                      /\ \A s \in wire' : s.card = w.card => s = w
    BY DEF Preparing
  <2>1. w \in wire /\ w.card # 0
    BY <1>0, <1>4 DEF Addressed, OfCard
  <2> QED BY <1>0, <1>2, <1>4, <2>1 DEF Preparing
<1>10. \A j \in 1..Len(asks), i \in 1..Len(cards) : Holds(j, i)' => Holds(j, i)
  BY <1>2, <1>4 DEF Holds, OfCard
<1>11. \A i \in 1..Len(cards) : ~Holds(k, i)'
  BY <1>0, <1>2, <1>4, <1>6 DEF Holds, OfCard, Addressed
<1>12. \A w \in wire' : Carries(w)' /\ w.ask = k => w = q
  BY <1>0, <1>4, <1>6 DEF Addressed
<1>13. One(k)' /\ asks'[k].done <= 1 /\ (asks'[k].off => asks'[k].done = 0)
  BY <1>2, <1>3, <1>5, <1>11, <1>12 DEF One
<1>14. \A j \in 1..Len(asks') : j # k => j \in 1..Len(asks) /\ asks'[j] = asks[j]
  BY <1>5, <1>6
<1>15. \A w \in wire' : Carries(w) /\ w.ask # k => w \in wire
  BY <1>4
<1>16. \A j \in 1..Len(asks), i \in 1..Len(cards') : j # k /\ Holds(j, i)' => i \in 1..Len(cards) /\ Holds(j, i)
  BY <1>2, <1>10
<1> HIDE DEF Holds, Carries, One
<1> QED BY <1>7, <1>8, <1>9, <1>13, <1>14, <1>15, <1>16, OneMoved

\* The server carries out what a request asks for.
LEMMA CarriedOut ==
    ASSUME ChallengeInv, NEW r \in wire, Carries(r), r.what = "act", NEW ans \in {"ok", "error"},
           wire' = (wire \ {r}) \cup {Back(r, ans)}, Does(r.ask), cards' = cards
    PROVE  ChallengeInv'
<1>0. ChallengeShapes /\ Addressed /\ Preparing /\ OnePlace /\ AskedOnce /\ IsRequest(r)
  BY DEF ChallengeInv, ChallengeShapes
<1>x. PICK x \in 0..Len(asks) : x = r.ask
  BY <1>0 DEF Addressed
<1>q. PICK q : q = Back(r, ans)
  OBVIOUS
<1>1. IsRequest(q) /\ q.what = "act" /\ q.ask = x /\ q.card = r.card /\ ~Carries(q)
  BY <1>0, <1>x, <1>q, BackOf DEF Carries
<1> DEFINE a == [asks[x] EXCEPT !.done = @ + 1]
<1>2. asks' = [asks EXCEPT ![x] = a]
  BY <1>x DEF Does
<1>3. x \in 1..Len(asks) => IsAsk(a) /\ a.done = asks[x].done + 1 /\ a.off = asks[x].off
  BY <1>0 DEF ChallengeShapes, IsAsk
<1> HIDE DEF a
<1>4. x \in 1..Len(asks) => /\ One(x) /\ asks[x].done = 0 /\ ~asks[x].off
                            /\ \A w \in wire' : ~(Carries(w) /\ w.ask = x)
                            /\ \A i \in 1..Len(cards) : ~Holds(x, i)
  BY <1>0, <1>1, <1>x, <1>q DEF OnePlace, One
<1>5. /\ \E S : asks' \in Seq(S)
      /\ Len(asks') = Len(asks) /\ (x \in 1..Len(asks) => asks'[x] = a)
      /\ \A k \in 1..Len(asks) : k # x => asks'[k] = asks[k]
  <2>1. PICK S : asks \in Seq(S)
    BY <1>0 DEF ChallengeShapes
  <2>2. CASE x \in 1..Len(asks)
    <3>1. /\ asks' \in Seq(S \cup {a}) /\ Len(asks') = Len(asks) /\ asks'[x] = a
          /\ \A k \in 1..Len(asks) : k # x => asks'[k] = asks[k]
      BY <1>2, <2>1, <2>2
    <3> QED BY <3>1
  <2>3. CASE x \notin 1..Len(asks)
    <3>1. asks' = asks
      BY <1>2, <2>1, <2>3
    <3> QED BY <2>1, <2>3, <3>1
  <2> QED BY <2>2, <2>3
<1>6. ChallengeShapes'
  <2>1. \A k \in 1..Len(asks') : IsAsk(asks'[k]) /\ asks'[k].done \in Nat
    BY <1>0, <1>3, <1>4, <1>5 DEF ChallengeShapes
  <2> QED BY <1>0, <1>1, <1>5, <1>q, <2>1 DEF ChallengeShapes
<1>7. Addressed'
  <2>1. q.what \notin OfCard \cup {"send"}
    BY <1>1 DEF OfCard
  <2> QED BY <1>0, <1>1, <1>5, <1>x, <1>q, <2>1 DEF Addressed
<1>8. Preparing'
  <2> SUFFICES ASSUME NEW w \in wire', w.what = "prepare"
               PROVE  /\ cards[w.card].left = "no" /\ cards[w.card].phase = "preparing"
                      /\ cards[w.card].method = "none" /\ cards[w.card].acc = << >>
                      /\ \A s \in wire' : s.card = w.card => s = w
    BY DEF Preparing
  <2>1. w \in wire /\ w # r
    BY <1>1, <1>q
  <2>2. r.card # w.card
    BY <1>0, <2>1 DEF Preparing
  <2> QED BY <1>0, <1>1, <1>q, <2>1, <2>2 DEF Preparing
<1>9. \A k \in 1..Len(asks), i \in 1..Len(cards) : Holds(k, i)' => Holds(k, i)
  BY <1>1, <1>q DEF Holds, OfCard
<1>10. x \in 1..Len(asks') => One(x)' /\ asks'[x].done <= 1 /\ (asks'[x].off => asks'[x].done = 0)
  <2> SUFFICES ASSUME x \in 1..Len(asks) PROVE One(x)' /\ asks'[x].done <= 1 /\ ~asks'[x].off
    BY <1>5
  <2>1. asks'[x].done = 1 /\ ~asks'[x].off
    BY <1>3, <1>4, <1>5
  <2>2. (\A i \in 1..Len(cards') : ~Holds(x, i)') /\ \A w \in wire' : ~(Carries(w)' /\ w.ask = x)
    BY <1>4, <1>9 DEF Carries
  <2> QED BY <2>1, <2>2 DEF One
<1>11. \A k \in 1..Len(asks') : k # x => k \in 1..Len(asks) /\ asks'[k] = asks[k]
  BY <1>5
<1>12. \A w \in wire' : Carries(w) /\ w.ask # x => w \in wire
  BY <1>1, <1>q
<1>13. \A k \in 1..Len(asks), i \in 1..Len(cards') : k # x /\ Holds(k, i)' => i \in 1..Len(cards) /\ Holds(k, i)
  BY <1>9
<1> HIDE DEF Holds, Carries, One
<1> QED BY <1>6, <1>7, <1>8, <1>10, <1>11, <1>12, <1>13, OneMoved

LEMMA ServerAnswersOK ==
    ASSUME ChallengeInv, NEW r \in wire,
           \/ callFails(r) \/ status(r) \/ deliverCode(r) \/ action_challenge(r) \/ stepup_verify(r)
           \/ action_token(r) \/ guarded(r) \/ mfa_reset(r)
    PROVE  ChallengeInv'
<1>0. IsRequest(r) /\ (r.what \in OfCard \cup {"send"} => r.card # 0) /\ ~r.back /\ cards' = cards
  BY DEF ChallengeInv, ChallengeShapes, Addressed, callFails, status, deliverCode, action_challenge,
         stepup_verify, action_token, guarded, mfa_reset
<1>1. ASSUME NEW ans, wire' = (wire \ {r}) \cup {Back(r, ans)}, asks' = asks PROVE ChallengeInv'
  <2> DEFINE q == Back(r, ans)
  <2>1. IsRequest(q) /\ q.what = r.what /\ q.ask = r.ask /\ q.card = r.card
    BY <1>0, BackOf
  <2>2. Carries(q) => Carries(r)
    BY <1>0, <2>1 DEF Carries
  <2>3. wire' = (wire \ {r}) \cup {q}
    BY <1>1
  <2> HIDE DEF q
  <2> QED BY <1>0, <1>1, <2>1, <2>2, <2>3, Travels
<1>2. CASE callFails(r)
  BY <1>1, <1>2 DEF callFails, Swap
<1>3. CASE status(r)
  BY <1>1, <1>3 DEF status, Swap
<1>4. CASE deliverCode(r)
  BY <1>1, <1>4 DEF deliverCode, Swap
<1>5. CASE action_challenge(r)
  BY <1>1, <1>5 DEF action_challenge, Swap
<1>6. CASE stepup_verify(r)
  BY <1>1, <1>6 DEF stepup_verify, Swap
<1>7. CASE action_token(r)
  <2>1. CASE wire' = (wire \ {r}) \cup {[Back(r, "ok") EXCEPT !.tok = minted + 1]} /\ asks' = asks
    <3> DEFINE q == [Back(r, "ok") EXCEPT !.tok = minted + 1]
    <3>1. IsRequest(q) /\ q.what = r.what /\ q.ask = r.ask /\ q.card = r.card
      BY <1>0, BackOf DEF IsRequest
    <3>2. ~Carries(q)
      BY <1>7, <3>1 DEF Carries, action_token
    <3>3. wire' = (wire \ {r}) \cup {q}
      BY <2>1
    <3> HIDE DEF q
    <3> QED BY <1>0, <2>1, <3>1, <3>2, <3>3, Travels
  <2>2. CASE Swap(r, Back(r, "error")) /\ asks' = asks
    BY <1>1, <2>2 DEF Swap
  <2> QED BY <1>7, <2>1, <2>2 DEF action_token, Swap
<1>8. CASE guarded(r)
  <2>1. r.what = "act" /\ Carries(r)
    BY <1>0, <1>8 DEF guarded, Carries
  <2>2. CASE Swap(r, Back(r, "step_up_required")) /\ UNCHANGED asks
    BY <1>1, <2>2 DEF Swap
  <2>3. CASE Does(r.ask) /\ \E ans \in {"ok", "error"} : Swap(r, Back(r, ans))
    BY <1>0, <2>1, <2>3, CarriedOut DEF Swap
  <2> QED BY <1>8, <2>2, <2>3 DEF guarded
<1>9. CASE mfa_reset(r)
  <2>1. r.what = "act" /\ Carries(r)
    BY <1>0, <1>9 DEF mfa_reset, Carries
  <2>2. CASE \E ans \in {"step_up_required", "action_challenge_required"} : Swap(r, Back(r, ans)) /\ UNCHANGED asks
    BY <1>1, <2>2 DEF Swap
  <2>3. CASE Does(r.ask) /\ \E ans \in {"ok", "error"} : Swap(r, Back(r, ans))
    BY <1>0, <2>1, <2>3, CarriedOut DEF Swap
  <2> QED BY <1>9, <2>2, <2>3 DEF mfa_reset
<1> QED BY <1>2, <1>3, <1>4, <1>5, <1>6, <1>7, <1>8, <1>9

LEMMA ChallengeStep == ChallengeInv /\ [ChallengeNext]_challengeVars => ChallengeInv'
<1> SUFFICES ASSUME ChallengeInv, [ChallengeNext]_challengeVars PROVE ChallengeInv'
  OBVIOUS
<1>1. CASE UNCHANGED <<cards, wire, asks>>
  BY <1>1 DEF ChallengeInv, ChallengeShapes, Addressed, Preparing, OnePlace, One, Holds, Carries, AskedOnce
<1>2. CASE UserStep
  <2>1. CASE MethodRow \/ cancelAdd \/ confirmReset \/ leave
    BY <1>1, <2>1 DEF MethodRow, cancelAdd, confirmReset, leave
  <2> QED BY <1>2, <2>1, ClickOK DEF UserStep
<1>3. CASE CardStep
  BY <1>3, ButtonsOK, ExitOK DEF CardStep
<1>4. CASE PageStep
  BY <1>4, CeremonyOK, VerifiedOK, CodeSentOK, PagesOK, AnsweredOK, PreparedOK DEF PageStep
<1>5. CASE ServerStep
  <2>1. CASE windowLapses
    BY <1>1, <2>1 DEF windowLapses
  <2> QED BY <1>5, <2>1, ServerAnswersOK DEF ServerStep
<1> QED BY <1>1, <1>2, <1>3, <1>4, <1>5 DEF ChallengeNext, challengeVars

\* However many proofs of one card succeed and however late, whichever card is
\* cancelled, switched, left or given another action: what was asked for once
\* is carried out at most once, and never after its challenge was cancelled.
THEOREM AlwaysAskedOnce == ChallengeSpec => []AskedOnce
<1>1. ASSUME NEW v, NEW acc, NEW on, NEW fresh, ChallengeInit(v, acc, on, fresh) PROVE ChallengeInv
  <2>1. cards = << >> /\ asks = << >> /\ wire \subseteq {Req("gate", 0, 0)}
    BY <1>1 DEF ChallengeInit
  <2>2. Len(cards) = 0 /\ Len(asks) = 0 /\ cards \in Seq({}) /\ asks \in Seq({})
    BY <2>1
  <2>3. \A r \in wire : IsRequest(r) /\ r.what = "gate" /\ r.ask = 0 /\ r.card = 0
    BY <2>1, NewRequest
  <2> QED BY <2>2, <2>3 DEF ChallengeInv, ChallengeShapes, Addressed, Preparing, OnePlace, AskedOnce, OfCard
<1>2. ASSUME \E v \in Views, acc \in Seq(Ways), on, fresh \in BOOLEAN : ChallengeInit(v, acc, on, fresh)
      PROVE  ChallengeInv
  BY <1>1, <1>2
<1>3. ChallengeInv => AskedOnce
  BY DEF ChallengeInv
<1>4. (\E v \in Views, acc \in Seq(Ways), on, fresh \in BOOLEAN : ChallengeInit(v, acc, on, fresh)) => ChallengeInv
  BY <1>2
<1> QED BY <1>3, <1>4, ChallengeStep, PTL DEF ChallengeSpec
=============================================================================
