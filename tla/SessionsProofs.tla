--------------------------- MODULE SessionsProofs ---------------------------
(***************************************************************************)
(* Proofs about the step-up and the Security pane, and about master        *)
(* sessions: guesses stay within the limit, a strong factor stays unless   *)
(* two removals raced, an application is left with a session of a deleted  *)
(* master session only when its login overlapped the deletion, and         *)
(* last_seen moves forward within the session's window.                    *)
(***************************************************************************)
EXTENDS SsoSessions, StepUp, FiniteSetTheorems, TLAPS

-----------------------------------------------------------------------------
(* The step-up: types, as loose as the proofs can do with.                 *)

StepUpSpec == StepUpInit /\ [][StepUpNext]_stepUpVars

AnyStepUp == [pc : StepUpLabels, user : Users \cup {None},
              method : Proofs \cup Changes \cup {"none"},
              item : Authenticators \cup Passkeys \cup {None}]

ReqType == req \in [Requests -> AnyStepUp]

\* A request past "idle" has a user, and a removal the factor it removes.
ReqOf(r) ==
    /\ req[r].pc # "idle" => req[r].user \in Users
    /\ req[r].pc \in {"check", "change"} => req[r].method \in Changes

CounterType ==
    /\ fails \in [Users -> [count : Nat, ttl : BOOLEAN]]
    /\ tries \in [Users -> Nat]

OwnerType ==
    /\ totpOf \in [Authenticators -> Users \cup {None}]
    /\ passkeyOf \in [Passkeys -> Users \cup {None}]
    /\ setup \in [Authenticators -> Users \cup {None}]
    /\ \A a \in Authenticators : None \in {setup[a], totpOf[a]}

-----------------------------------------------------------------------------
(* Guesses.                                                                *)

\* The counter counts at least what began since it was cleared.
GuessInv == \A u \in Users : tries[u] <= fails[u].count /\ tries[u] <= MaxFails

GuessesInv == ReqType /\ (\A r \in Requests : ReqOf(r)) /\ CounterType /\ GuessInv

-----------------------------------------------------------------------------
(* Factors.                                                                *)

\* A removal that has passed its check.
Removing(r, u) ==
    /\ req[r].pc = "change"
    /\ req[r].user = u
    /\ req[r].method \in Removals

\* While a removal has passed its check, its user has two factors and no other
\* removal under way, except the users with racing removals.
RemovalOf(u) ==
    \A r \in Requests :
        Removing(r, u) =>
            /\ countAuthenticators(u) + countPasskeys(u) >= 2
            /\ \A q \in Requests : Removing(q, u) => q = r

FactorInv ==
    /\ OwnerType
    /\ \A u \in Users : u \in MayDisable \cup raced \/ RemovalOf(u)

StepUpInv == GuessesInv /\ FactorInv

-----------------------------------------------------------------------------
(* Requests of the step-up.                                                *)

LEMMA GuessInitial == StepUpInit => GuessesInv
BY StepUpAssumption DEF StepUpInit, GuessesInv, ReqType, ReqOf, CounterType, GuessInv,
   AnyStepUp, StepUpLabels, Waiting, Proofs, Changes

LEMMA StepUpAction ==
    ASSUME StepUpNext
    PROVE  \/ \E r \in Requests, u \in Users : passkeyOptions(r, u)
           \/ \E r \in Requests, u \in Users, m \in Proofs : verify(r, u, m)
           \/ \E r \in Requests, u \in Users, change \in Changes : enterChange(r, u, change)
           \/ \E r \in Requests : expireWindow(r)
           \/ \E r \in Requests : takeChallenge(r)
           \/ \E r \in Requests : prove(r)
           \/ \E r \in Requests : stampSession(r)
           \/ \E r \in Requests : clearFails(r)
           \/ \E r \in Requests : checkChange(r)
           \/ \E r \in Requests : applyChange(r)
           \/ \E u \in Users : WindowEnds(u)
           \/ \E u \in Users : StampAges(u)
BY DEF StepUpNext

LEMMA WaitingTyped == Waiting \in AnyStepUp
BY DEF Waiting, AnyStepUp, StepUpLabels

\* Ending a request, and moving one on, keep the requests well formed.
LEMMA FinishKeeps ==
    ASSUME ReqType, \A r \in Requests : ReqOf(r), NEW r \in Requests, Finish(r)
    PROVE  ReqType' /\ \A q \in Requests : ReqOf(q)'
<1>1. Waiting \in AnyStepUp /\ Waiting.pc = "idle"
  BY WaitingTyped DEF Waiting
<1> QED BY <1>1 DEF ReqType, ReqOf, Finish

LEMMA GotoKeeps ==
    ASSUME ReqType, \A r \in Requests : ReqOf(r), NEW r \in Requests, NEW l \in StepUpLabels,
           req[r].pc # "idle", l = "change" => req[r].pc = "check", l # "check", Goto(r, l)
    PROVE  ReqType' /\ \A q \in Requests : ReqOf(q)'
<1>1. req[r] \in AnyStepUp
  BY DEF ReqType
<1>2. [req[r] EXCEPT !.pc = l] \in AnyStepUp
  BY <1>1 DEF AnyStepUp
<1> DEFINE s == [req[r] EXCEPT !.pc = l]
<1>3. s.pc = l /\ s.user = req[r].user /\ s.method = req[r].method
  BY <1>1 DEF AnyStepUp
<1>4. req' = [req EXCEPT ![r] = s]
  BY DEF Goto
<1> HIDE DEF s
<1>5. ReqType'
  BY <1>2, <1>4 DEF ReqType, s
<1>6. \A q \in Requests : q # r => req'[q] = req[q]
  BY <1>4 DEF ReqType
<1>7. req'[r] = s
  BY <1>4 DEF ReqType
<1> QED BY <1>3, <1>5, <1>6, <1>7 DEF ReqOf

\* What a step of a session's pages leaves alone keeps its part of the
\* invariant.
LEMMA RequestsKept ==
    ASSUME ReqType, \A r \in Requests : ReqOf(r), UNCHANGED req
    PROVE  ReqType' /\ \A q \in Requests : ReqOf(q)'
BY DEF ReqType, ReqOf

LEMMA ActionMovesRequests ==
    ASSUME ReqType, \A r \in Requests : ReqOf(r), StepUpNext
    PROVE  ReqType' /\ \A q \in Requests : ReqOf(q)'
<1>1. ASSUME NEW r \in Requests, NEW u \in Users, passkeyOptions(r, u)
      PROVE  ReqType' /\ \A q \in Requests : ReqOf(q)'
  BY <1>1, RequestsKept DEF passkeyOptions
<1>2. ASSUME NEW r \in Requests, NEW u \in Users, NEW m \in Proofs, verify(r, u, m)
      PROVE  ReqType' /\ \A q \in Requests : ReqOf(q)'
  <2>1. CASE UNCHANGED req
    BY <2>1, RequestsKept
  <2>2. ASSUME req' # req
        PROVE  ReqType' /\ \A q \in Requests : ReqOf(q)'
    <3> DEFINE l == IF fails[u].count = 0 THEN "expire" ELSE Begin(m)
               s == [req[r] EXCEPT !.user = u, !.method = m, !.pc = l]
    <3>1. l \in {"expire", "take", "prove"}
      BY DEF Begin
    <3>2. req[r] \in AnyStepUp
      BY DEF ReqType
    <3>3. s \in AnyStepUp /\ s.pc = l /\ s.user = u
      BY <3>1, <3>2 DEF AnyStepUp, StepUpLabels
    <3>4. req' = [req EXCEPT ![r] = s]
      BY <1>2, <2>2 DEF verify
    <3> HIDE DEF s, l
    <3> QED BY <3>1, <3>3, <3>4 DEF ReqType, ReqOf
  <2> QED BY <2>1, <2>2
<1>3. ASSUME NEW r \in Requests, NEW u \in Users, NEW change \in Changes, enterChange(r, u, change)
      PROVE  ReqType' /\ \A q \in Requests : ReqOf(q)'
  <2>1. PICK i \in Authenticators \cup Passkeys \cup {None} :
           req' = [req EXCEPT ![r].pc = "check", ![r].user = u, ![r].method = change,
                              ![r].item = i]
    BY <1>3 DEF enterChange
  <2> DEFINE s == [req[r] EXCEPT !.pc = "check", !.user = u, !.method = change, !.item = i]
  <2>2. req[r] \in AnyStepUp
    BY DEF ReqType
  <2>3. s \in AnyStepUp /\ s.pc = "check" /\ s.user = u /\ s.method = change
    BY <2>2 DEF AnyStepUp, StepUpLabels
  <2>4. req' = [req EXCEPT ![r] = s]
    BY <2>1
  <2> HIDE DEF s
  <2> QED BY <2>3, <2>4 DEF ReqType, ReqOf
<1>4. ASSUME NEW r \in Requests, expireWindow(r)
      PROVE  ReqType' /\ \A q \in Requests : ReqOf(q)'
  <2>1. CASE Finish(r)
    BY <2>1, FinishKeeps
  <2>2. CASE Goto(r, Begin(req[r].method))
    <3>1. Begin(req[r].method) \in {"take", "prove"}
      BY DEF Begin
    <3> QED BY <1>4, <2>2, <3>1, GotoKeeps DEF expireWindow, StepUpLabels
  <2> QED BY <1>4, <2>1, <2>2 DEF expireWindow
<1>5. ASSUME NEW r \in Requests, takeChallenge(r)
      PROVE  ReqType' /\ \A q \in Requests : ReqOf(q)'
  BY <1>5, FinishKeeps, GotoKeeps DEF takeChallenge, StepUpLabels
<1>6. ASSUME NEW r \in Requests, prove(r)
      PROVE  ReqType' /\ \A q \in Requests : ReqOf(q)'
  BY <1>6, FinishKeeps, GotoKeeps DEF prove, StepUpLabels
<1>7. ASSUME NEW r \in Requests, stampSession(r)
      PROVE  ReqType' /\ \A q \in Requests : ReqOf(q)'
  BY <1>7, GotoKeeps DEF stampSession, StepUpLabels
<1>8. ASSUME NEW r \in Requests, clearFails(r)
      PROVE  ReqType' /\ \A q \in Requests : ReqOf(q)'
  BY <1>8, FinishKeeps DEF clearFails
<1>9. ASSUME NEW r \in Requests, checkChange(r)
      PROVE  ReqType' /\ \A q \in Requests : ReqOf(q)'
  <2>1. Finish(r) \/ (req[r].pc = "check" /\ Goto(r, "change"))
    BY <1>9 DEF checkChange
  <2> QED BY <2>1, FinishKeeps, GotoKeeps DEF StepUpLabels
<1>10. ASSUME NEW r \in Requests, applyChange(r)
       PROVE  ReqType' /\ \A q \in Requests : ReqOf(q)'
  BY <1>10, FinishKeeps DEF applyChange
<1>11. ASSUME NEW u \in Users, WindowEnds(u) \/ StampAges(u)
       PROVE  ReqType' /\ \A q \in Requests : ReqOf(q)'
  BY <1>11, RequestsKept DEF WindowEnds, StampAges
<1> QED
  BY StepUpAction, <1>1, <1>2, <1>3, <1>4, <1>5, <1>6, <1>7, <1>8, <1>9, <1>10, <1>11

-----------------------------------------------------------------------------
(* Guesses.                                                                *)

LEMMA GuessStep ==
    ASSUME GuessesInv, [StepUpNext]_stepUpVars
    PROVE  GuessesInv'
<1> USE StepUpAssumption DEF GuessesInv
<1>1. CASE UNCHANGED stepUpVars
  BY <1>1 DEF stepUpVars, ReqType, ReqOf, CounterType, GuessInv
<1>2. ASSUME StepUpNext
      PROVE  GuessesInv'
  <2>1. ReqType' /\ \A q \in Requests : ReqOf(q)'
    BY <1>2, ActionMovesRequests
  <2>2. ASSUME NEW u \in Users, fails' = [fails EXCEPT ![u] = [count |-> 0, ttl |-> FALSE]],
               tries' = [tries EXCEPT ![u] = 0]
        PROVE  CounterType' /\ GuessInv'
    BY <2>2 DEF CounterType, GuessInv
  <2>3. ASSUME UNCHANGED <<fails, tries>>
        PROVE  CounterType' /\ GuessInv'
    BY <2>3 DEF CounterType, GuessInv
  <2>4. ASSUME NEW r \in Requests, NEW u \in Users, NEW m \in Proofs, verify(r, u, m)
        PROVE  CounterType' /\ GuessInv'
    <3>1. fails[u] \in [count : Nat, ttl : BOOLEAN] /\ tries[u] \in Nat /\ MaxFails \in Nat
      BY DEF CounterType
    <3>2. fails' = [fails EXCEPT ![u].count = fails[u].count + 1]
      BY <2>4 DEF verify
    <3>3. CounterType'
      BY <2>4, <3>1, <3>2 DEF CounterType, verify
    <3>4. \A v \in Users : fails'[v].count = IF v = u THEN fails[u].count + 1 ELSE fails[v].count
      BY <3>1, <3>2 DEF CounterType
    <3>5. CASE Reserved(u)
      <4>1. tries' = [tries EXCEPT ![u] = @ + 1]
        BY <2>4, <3>5 DEF verify
      <4> QED BY <3>1, <3>3, <3>4, <3>5, <4>1 DEF GuessInv, CounterType, Reserved
    <3>6. CASE ~Reserved(u)
      <4>1. tries' = tries
        BY <2>4, <3>6 DEF verify
      <4> QED BY <3>1, <3>3, <3>4, <4>1 DEF GuessInv, CounterType
    <3> QED BY <3>5, <3>6
  <2>5. ASSUME NEW r \in Requests, expireWindow(r)
        PROVE  CounterType' /\ GuessInv'
    <3>1. CASE UNCHANGED fails
      BY <2>3, <2>5, <3>1 DEF expireWindow
    <3>2. ASSUME fails' # fails
          PROVE  CounterType' /\ GuessInv'
      <4>1. PICK u \in Users : u = req[r].user
        BY <2>5 DEF expireWindow, ReqOf
      <4>2. fails' = [fails EXCEPT ![u].ttl = fails[u].count > 0] /\ tries' = tries
        BY <2>5, <3>2, <4>1 DEF expireWindow
      <4>3. fails[u] \in [count : Nat, ttl : BOOLEAN]
        BY DEF CounterType
      <4> DEFINE t == fails[u].count > 0
      <4>4. t \in BOOLEAN
        OBVIOUS
      <4> HIDE DEF t
      <4>5. fails' = [fails EXCEPT ![u].ttl = t]
        BY <4>2 DEF t
      <4> QED BY <4>2, <4>3, <4>4, <4>5 DEF CounterType, GuessInv
    <3> QED BY <3>1, <3>2
  <2>6. ASSUME NEW r \in Requests, clearFails(r)
        PROVE  CounterType' /\ GuessInv'
    <3>1. req[r].user \in Users
      BY <2>6 DEF clearFails, ReqOf
    <3> QED BY <2>2, <2>6, <3>1 DEF clearFails
  <2>7. ASSUME NEW u \in Users, WindowEnds(u)
        PROVE  CounterType' /\ GuessInv'
    BY <2>2, <2>7 DEF WindowEnds
  <2>8. ASSUME NEW r \in Requests,
               \/ \E u \in Users : passkeyOptions(r, u)
               \/ \E u \in Users, change \in Changes : enterChange(r, u, change)
               \/ takeChallenge(r) \/ prove(r) \/ stampSession(r)
        PROVE  UNCHANGED <<fails, tries>>
    BY <2>8 DEF passkeyOptions, enterChange, takeChallenge, prove, stampSession
  <2>9. ASSUME NEW r \in Requests, checkChange(r) \/ applyChange(r)
        PROVE  UNCHANGED <<fails, tries>>
    BY <2>9 DEF checkChange, applyChange
  <2>10. ASSUME NEW u \in Users, StampAges(u)
         PROVE  UNCHANGED <<fails, tries>>
    BY <2>10 DEF StampAges
  <2>11. CounterType' /\ GuessInv'
    BY <1>2, StepUpAction, <2>3, <2>4, <2>5, <2>6, <2>7, <2>8, <2>9, <2>10
  <2> QED BY <2>1, <2>11
<1> QED BY <1>1, <1>2

\* However many requests verify at the same time, no more than MaxFails
\* verifications begin between two clearings of the counter (INCR before the
\* verification, stepup.ts).
THEOREM GuessesAlwaysBounded == StepUpSpec => []GuessesBounded
<1>1. GuessesInv => GuessesBounded
  BY DEF GuessesInv, GuessInv, GuessesBounded
<1> QED BY <1>1, GuessInitial, GuessStep, PTL DEF StepUpSpec

-----------------------------------------------------------------------------
(* Factors.                                                                *)

LEMMA Grows ==
    ASSUME NEW S, NEW T, IsFiniteSet(T), S \subseteq T
    PROVE  Cardinality(S) \in Nat /\ Cardinality(T) \in Nat /\ Cardinality(S) <= Cardinality(T)
BY FS_Subset, FS_CardinalityType

LEMMA Shrinks ==
    ASSUME NEW S, NEW T, NEW x, IsFiniteSet(S), IsFiniteSet(T), S \ {x} \subseteq T
    PROVE  Cardinality(S) <= Cardinality(T) + 1
<1>1. Cardinality(S \ {x}) = IF x \in S THEN Cardinality(S) - 1 ELSE Cardinality(S)
  BY FS_RemoveElement
<1>2. Cardinality(S) \in Nat /\ Cardinality(T) \in Nat
  BY FS_CardinalityType
<1>3. Cardinality(S \ {x}) <= Cardinality(T)
  BY Grows
<1> QED BY <1>1, <1>2, <1>3

\* The rows of a user.
Totps(f, u) == {a \in Authenticators : f[a] = u}
Keys(f, u) == {p \in Passkeys : f[p] = u}
Count(u) == countAuthenticators(u) + countPasskeys(u)

LEMMA RowsFinite ==
    ASSUME NEW f, NEW u
    PROVE  /\ IsFiniteSet(Totps(f, u)) /\ Cardinality(Totps(f, u)) \in Nat
           /\ IsFiniteSet(Keys(f, u)) /\ Cardinality(Keys(f, u)) \in Nat
<1>1. Totps(f, u) \subseteq Authenticators /\ Keys(f, u) \subseteq Passkeys
  BY DEF Totps, Keys
<1> QED BY <1>1, StepUpAssumption, FS_Subset, FS_CardinalityType

LEMMA CountIs ==
    ASSUME NEW u
    PROVE  /\ Count(u) = Cardinality(Totps(totpOf, u)) + Cardinality(Keys(passkeyOf, u))
           /\ Count(u)' = Cardinality(Totps(totpOf', u)) + Cardinality(Keys(passkeyOf', u))
           /\ Count(u) \in Nat /\ Count(u)' \in Nat
<1>1. /\ Count(u) = Cardinality(Totps(totpOf, u)) + Cardinality(Keys(passkeyOf, u))
      /\ Count(u)' = Cardinality(Totps(totpOf', u)) + Cardinality(Keys(passkeyOf', u))
  BY DEF Count, countAuthenticators, countPasskeys, Totps, Keys
<1>2. /\ Cardinality(Totps(totpOf, u)) \in Nat /\ Cardinality(Keys(passkeyOf, u)) \in Nat
      /\ Cardinality(Totps(totpOf', u)) \in Nat /\ Cardinality(Keys(passkeyOf', u)) \in Nat
  BY RowsFinite
<1> QED BY <1>1, <1>2

\* A user has a strong factor when a row is left.
LEMMA StrongIs ==
    ASSUME NEW u
    PROVE  /\ StrongOf(u) # {} <=> Count(u) > 0
           /\ (StrongOf(u) # {})' <=> Count(u)' > 0
<1>1. /\ countAuthenticators(u) \in Nat /\ countPasskeys(u) \in Nat
      /\ countAuthenticators(u)' \in Nat /\ countPasskeys(u)' \in Nat
  <2>1. /\ countAuthenticators(u) = Cardinality(Totps(totpOf, u))
        /\ countPasskeys(u) = Cardinality(Keys(passkeyOf, u))
        /\ countAuthenticators(u)' = Cardinality(Totps(totpOf', u))
        /\ countPasskeys(u)' = Cardinality(Keys(passkeyOf', u))
    BY DEF countAuthenticators, countPasskeys, Totps, Keys
  <2> QED BY <2>1, RowsFinite
<1>2. StrongOf(u) # {} <=> countPasskeys(u) > 0 \/ countAuthenticators(u) > 0
  BY DEF StrongOf
<1>3. (StrongOf(u) # {})' <=> countPasskeys(u)' > 0 \/ countAuthenticators(u)' > 0
  BY DEF StrongOf
<1>4. Count(u) = countAuthenticators(u) + countPasskeys(u)
  BY DEF Count
<1>5. Count(u)' = countAuthenticators(u)' + countPasskeys(u)'
  BY DEF Count
<1> QED BY <1>1, <1>2, <1>3, <1>4, <1>5

\* A change takes no factor from anyone, but a removal at most one from its
\* user.
LEMMA ChangeTakesOne ==
    ASSUME OwnerType, NEW r \in Requests, req[r].user \in Users, applyChange(r),
           NEW u \in Users
    PROVE  /\ Count(u) <= Count(u)' + 1
           /\ ~Removing(r, u) => Count(u) <= Count(u)'
<1> DEFINE i == req[r].item
           v == req[r].user
           change == req[r].method
<1>0. v \in Users
  OBVIOUS
<1>1. \A a \in Authenticators :
         totpOf[a] = u /\ totpOf'[a] # u => change = "dropTotp" /\ v = u /\ a = i
  <2>1. totpOf' = CASE change = "confirm" /\ setup[i] = v -> [totpOf EXCEPT ![i] = v]
                    [] change = "dropTotp" -> [totpOf EXCEPT ![i] = IF @ = v THEN None ELSE @]
                    [] OTHER -> totpOf
    BY DEF applyChange
  <2> HIDE DEF i, v, change
  <2>2. CASE change = "confirm" /\ setup[i] = v
    <3>1. totpOf' = [totpOf EXCEPT ![i] = v]
      BY <2>1, <2>2
    <3>2. i \in Authenticators => totpOf[i] = None \/ setup[i] = None
      BY DEF OwnerType
    <3> QED BY <1>0, <2>2, <3>1, <3>2, StepUpAssumption DEF OwnerType
  <2>3. CASE change = "dropTotp"
    BY <2>1, <2>3 DEF OwnerType
  <2>4. CASE change # "dropTotp" /\ ~(change = "confirm" /\ setup[i] = v)
    BY <2>1, <2>4
  <2> QED BY <2>2, <2>3, <2>4
<1>2. \A p \in Passkeys :
         passkeyOf[p] = u /\ passkeyOf'[p] # u => change = "dropPasskey" /\ v = u /\ p = i
  BY StepUpAssumption DEF applyChange, OwnerType
<1>3. Removing(r, u) <=> v = u /\ change \in Removals
  BY DEF applyChange, Removing
<1> HIDE DEF i, v, change
<1>4. CASE ~Removing(r, u)
  <2>1. Totps(totpOf, u) \subseteq Totps(totpOf', u) /\ Keys(passkeyOf, u) \subseteq Keys(passkeyOf', u)
    BY <1>1, <1>2, <1>3, <1>4 DEF Totps, Keys, Removals
  <2>2. /\ Cardinality(Totps(totpOf, u)) <= Cardinality(Totps(totpOf', u))
        /\ Cardinality(Keys(passkeyOf, u)) <= Cardinality(Keys(passkeyOf', u))
    BY <2>1, RowsFinite, Grows
  <2> QED BY <2>2, CountIs, RowsFinite
<1>5. CASE Removing(r, u) /\ change = "dropTotp"
  <2>1. Totps(totpOf, u) \ {i} \subseteq Totps(totpOf', u) /\ Keys(passkeyOf, u) \subseteq Keys(passkeyOf', u)
    BY <1>1, <1>2, <1>5 DEF Totps, Keys
  <2>2. /\ Cardinality(Totps(totpOf, u)) <= Cardinality(Totps(totpOf', u)) + 1
        /\ Cardinality(Keys(passkeyOf, u)) <= Cardinality(Keys(passkeyOf', u))
    BY <2>1, RowsFinite, Grows, Shrinks
  <2> QED BY <1>5, <2>2, CountIs, RowsFinite
<1>6. CASE Removing(r, u) /\ change = "dropPasskey"
  <2>1. Totps(totpOf, u) \subseteq Totps(totpOf', u) /\ Keys(passkeyOf, u) \ {i} \subseteq Keys(passkeyOf', u)
    BY <1>1, <1>2, <1>6 DEF Totps, Keys
  <2>2. /\ Cardinality(Totps(totpOf, u)) <= Cardinality(Totps(totpOf', u))
        /\ Cardinality(Keys(passkeyOf, u)) <= Cardinality(Keys(passkeyOf', u)) + 1
    BY <2>1, RowsFinite, Grows, Shrinks
  <2> QED BY <1>6, <2>2, CountIs, RowsFinite
<1> QED BY <1>3, <1>4, <1>5, <1>6 DEF Removals

LEMMA FactorInitial == StepUpInit => FactorInv
BY StepUpAssumption DEF StepUpInit, FactorInv, OwnerType, RemovalOf, Removing, Waiting

\* Every action but a check that passes brings no removal past its check, and
\* every action but a change leaves the rows alone.
LEMMA ActionKeepsRows ==
    ASSUME StepUpNext
    PROVE  UNCHANGED <<totpOf, passkeyOf, setup>> \/ \E r \in Requests : applyChange(r)
<1>1. ASSUME NEW r \in Requests,
             \/ \E u \in Users : passkeyOptions(r, u)
             \/ \E u \in Users, m \in Proofs : verify(r, u, m)
             \/ \E u \in Users, change \in Changes : enterChange(r, u, change)
             \/ expireWindow(r) \/ takeChallenge(r) \/ prove(r) \/ stampSession(r)
             \/ clearFails(r) \/ checkChange(r)
      PROVE  UNCHANGED <<totpOf, passkeyOf, setup>>
  BY <1>1 DEF passkeyOptions, verify, enterChange, expireWindow, takeChallenge, prove,
              stampSession, clearFails, checkChange, factors
<1>2. ASSUME NEW u \in Users, WindowEnds(u) \/ StampAges(u)
      PROVE  UNCHANGED <<totpOf, passkeyOf, setup>>
  BY <1>2 DEF WindowEnds, StampAges, factors
<1> QED BY <1>1, <1>2, StepUpAction

LEMMA ActionKeepsRemovals ==
    ASSUME ReqType, StepUpNext
    PROVE  \/ \E r \in Requests : checkChange(r)
           \/ /\ raced' = raced
              /\ \A q \in Requests, u \in Users : Removing(q, u)' => Removing(q, u)
<1> DEFINE Kept == raced' = raced /\ \A q \in Requests, u \in Users : Removing(q, u)' => Removing(q, u)
<1>1. ASSUME NEW r \in Requests, NEW s \in AnyStepUp, s.pc # "change",
             req' = [req EXCEPT ![r] = s], raced' = raced
      PROVE  Kept
  BY <1>1 DEF ReqType, Removing
<1>2. ASSUME UNCHANGED <<req, raced>>
      PROVE  Kept
  BY <1>2 DEF Removing
<1>3. ASSUME NEW r \in Requests, Finish(r), raced' = raced
      PROVE  Kept
  BY <1>1, <1>3, WaitingTyped DEF Finish, Waiting
<1>4. ASSUME NEW r \in Requests, NEW l \in StepUpLabels, l # "change", Goto(r, l), raced' = raced
      PROVE  Kept
  BY <1>4 DEF Goto, ReqType, AnyStepUp, Removing
<1> HIDE DEF Kept
<1>5. ASSUME NEW r \in Requests, NEW u \in Users, passkeyOptions(r, u)
      PROVE  Kept
  BY <1>2, <1>5 DEF passkeyOptions
<1>6. ASSUME NEW r \in Requests, NEW u \in Users, NEW m \in Proofs, verify(r, u, m)
      PROVE  Kept
  <2>1. raced' = raced
    BY <1>6 DEF verify
  <2>2. CASE req' = req
    BY <1>2, <2>1, <2>2
  <2>3. CASE req' # req
    <3> DEFINE l == IF fails[u].count = 0 THEN "expire" ELSE Begin(m)
               s == [req[r] EXCEPT !.user = u, !.method = m, !.pc = l]
    <3>1. l \in {"expire", "take", "prove"}
      BY DEF Begin
    <3>2. s \in AnyStepUp /\ s.pc # "change"
      BY <3>1 DEF ReqType, AnyStepUp, StepUpLabels
    <3>3. req' = [req EXCEPT ![r] = s]
      BY <1>6, <2>3 DEF verify
    <3> HIDE DEF s, l
    <3> QED BY <1>1, <2>1, <3>2, <3>3
  <2> QED BY <2>2, <2>3
<1>7. ASSUME NEW r \in Requests, NEW u \in Users, NEW change \in Changes, enterChange(r, u, change)
      PROVE  Kept
  <2>1. PICK i \in Authenticators \cup Passkeys \cup {None} :
           req' = [req EXCEPT ![r].pc = "check", ![r].user = u, ![r].method = change,
                              ![r].item = i]
    BY <1>7 DEF enterChange
  <2> DEFINE s == [req[r] EXCEPT !.pc = "check", !.user = u, !.method = change, !.item = i]
  <2>2. s \in AnyStepUp /\ s.pc # "change"
    BY DEF ReqType, AnyStepUp, StepUpLabels
  <2>3. req' = [req EXCEPT ![r] = s] /\ raced' = raced
    BY <1>7, <2>1 DEF enterChange
  <2> HIDE DEF s
  <2> QED BY <1>1, <2>2, <2>3
<1>8. ASSUME NEW r \in Requests, expireWindow(r)
      PROVE  Kept
  <2>1. Begin(req[r].method) \in StepUpLabels /\ Begin(req[r].method) # "change"
    BY DEF Begin, StepUpLabels
  <2> QED BY <1>3, <1>4, <1>8, <2>1 DEF expireWindow
<1>9. ASSUME NEW r \in Requests,
             takeChallenge(r) \/ prove(r) \/ stampSession(r) \/ clearFails(r) \/ applyChange(r)
      PROVE  Kept
  BY <1>3, <1>4, <1>9 DEF takeChallenge, prove, stampSession, clearFails, applyChange, StepUpLabels
<1>10. ASSUME NEW u \in Users, WindowEnds(u) \/ StampAges(u)
       PROVE  Kept
  BY <1>2, <1>10 DEF WindowEnds, StampAges
<1>11. Kept \/ \E r \in Requests : checkChange(r)
  BY <1>5, <1>6, <1>7, <1>8, <1>9, <1>10, StepUpAction
<1> QED BY <1>11 DEF Kept

LEMMA OwnerStep ==
    ASSUME StepUpInv, StepUpNext
    PROVE  OwnerType'
<1>1. CASE UNCHANGED <<totpOf, passkeyOf, setup>>
  BY <1>1 DEF StepUpInv, FactorInv, OwnerType
<1>2. ASSUME NEW r \in Requests, applyChange(r)
      PROVE  OwnerType'
  <2> DEFINE i == req[r].item
             u == req[r].user
             change == req[r].method
  <2>1. u \in Users /\ u # None
    BY <1>2, StepUpAssumption DEF StepUpInv, GuessesInv, ReqOf, applyChange
  <2>2. OwnerType
    BY DEF StepUpInv, FactorInv
  <2>3. /\ setup' = SetupAfter(u, change, i)
        /\ totpOf' = CASE change = "confirm" /\ setup[i] = u -> [totpOf EXCEPT ![i] = u]
                       [] change = "dropTotp" -> [totpOf EXCEPT ![i] = IF @ = u THEN None ELSE @]
                       [] OTHER -> totpOf
        /\ passkeyOf' = CASE change = "register" /\ u \in registering /\ passkeyOf[i] = None ->
                               [passkeyOf EXCEPT ![i] = u]
                          [] change = "dropPasskey" ->
                               [passkeyOf EXCEPT ![i] = IF @ = u THEN None ELSE @]
                          [] OTHER -> passkeyOf
    BY <1>2 DEF applyChange
  <2> HIDE DEF i, u, change
  <2>4. passkeyOf' \in [Passkeys -> Users \cup {None}]
    BY <2>1, <2>2, <2>3 DEF OwnerType
  <2>5. CASE change = "setup"
    <3>1. totpOf' = totpOf
      BY <2>3, <2>5
    <3>2. setup' = [a \in Authenticators |->
                      IF a = i /\ totpOf[a] = None /\ setup[a] \in {u, None} THEN u
                      ELSE IF setup[a] = u THEN None ELSE setup[a]]
      BY <2>3, <2>5 DEF SetupAfter
    <3> QED BY <2>1, <2>2, <2>4, <3>1, <3>2 DEF OwnerType
  <2>6. CASE change = "confirm"
    <3>1. setup' = [setup EXCEPT ![i] = IF @ = u THEN None ELSE @]
      BY <2>3, <2>6 DEF SetupAfter
    <3>2. CASE setup[i] = u
      <4>1. totpOf' = [totpOf EXCEPT ![i] = u]
        BY <2>3, <2>6, <3>2
      <4> QED BY <2>1, <2>2, <2>4, <3>1, <3>2, <4>1 DEF OwnerType
    <3>3. CASE setup[i] # u
      <4>1. totpOf' = totpOf
        BY <2>3, <2>6, <3>3
      <4> QED BY <2>1, <2>2, <2>4, <3>1, <3>3, <4>1 DEF OwnerType
    <3> QED BY <3>2, <3>3
  <2>7. CASE change = "dropTotp"
    <3>1. setup' = [setup EXCEPT ![i] = IF @ = u THEN None ELSE @]
      BY <2>3, <2>7 DEF SetupAfter
    <3>2. totpOf' = [totpOf EXCEPT ![i] = IF @ = u THEN None ELSE @]
      BY <2>3, <2>7
    <3> QED BY <2>1, <2>2, <2>4, <3>1, <3>2 DEF OwnerType
  <2>8. CASE change \notin {"setup", "confirm", "dropTotp"}
    <3>1. totpOf' = totpOf /\ setup' = setup
      BY <2>3, <2>8 DEF SetupAfter
    <3> QED BY <2>2, <2>4, <3>1 DEF OwnerType
  <2> QED BY <2>5, <2>6, <2>7, <2>8
<1> QED BY <1>1, <1>2, ActionKeepsRows

\* A passed check counts two rows, and finds every other removal of the user.
LEMMA CheckStep ==
    ASSUME StepUpInv, NEW r \in Requests, checkChange(r), NEW u \in Users, u \notin MayDisable,
           u \notin raced'
    PROVE  RemovalOf(u)'
<1>1. u \notin raced /\ RemovalOf(u)
  BY DEF checkChange, StepUpInv, FactorInv
<1>2. Count(u)' = Count(u) /\ Count(u) \in Nat
  BY CountIs DEF checkChange, factors
<1>3. CASE Finish(r)
  <2>1. \A q \in Requests : Removing(q, u)' => Removing(q, u)
    BY <1>3 DEF Finish, Waiting, Removing, StepUpInv, GuessesInv, ReqType
  <2> QED BY <1>1, <1>2, <2>1 DEF RemovalOf, Count
<1>4. CASE ~Finish(r)
  <2>1. /\ Goto(r, "change")
        /\ req[r].method \in Removals => ~blocksLastFactor(req[r].user)
        /\ raced' = IF /\ req[r].method \in Removals
                       /\ \E q \in Requests \ {r} : Removing(q, req[r].user)
                    THEN raced \cup {req[r].user} ELSE raced
    BY <1>4 DEF checkChange, Removing, Removals
  <2>2. /\ req'[r].user = req[r].user /\ req'[r].method = req[r].method
        /\ \A q \in Requests \ {r} : req'[q] = req[q]
    BY <2>1 DEF Goto, StepUpInv, GuessesInv, ReqType, AnyStepUp
  <2>3. \A q \in Requests \ {r} : Removing(q, u)' <=> Removing(q, u)
    BY <2>2 DEF Removing
  <2>4. ~Removing(r, u)
    BY DEF checkChange, Removing
  <2>5. CASE ~Removing(r, u)'
    BY <1>1, <1>2, <2>3, <2>4, <2>5 DEF RemovalOf, Count
  <2>6. CASE Removing(r, u)'
    <3>1. req[r].user = u /\ req[r].method \in Removals
      BY <2>2, <2>6 DEF Removing
    <3>2. \A q \in Requests \ {r} : ~Removing(q, u)
      BY <2>1, <3>1
    <3>3. ~(Count(u) <= 1)
      BY <2>1, <3>1 DEF blocksLastFactor, Count
    <3>4. Count(u) >= 2
      BY <1>2, <3>3
    <3> QED BY <1>2, <2>3, <3>2, <3>4 DEF RemovalOf, Count
  <2> QED BY <2>5, <2>6
<1> QED BY <1>3, <1>4

LEMMA ChangeStep ==
    ASSUME StepUpInv, NEW r \in Requests, applyChange(r), NEW u \in Users, RemovalOf(u)
    PROVE  RemovalOf(u)'
<1>1. OwnerType /\ req[r].user \in Users
  BY DEF StepUpInv, FactorInv, GuessesInv, ReqOf, applyChange
<1>2. \A q \in Requests : Removing(q, u)' => q # r /\ Removing(q, u)
  BY DEF applyChange, Finish, Waiting, Removing, StepUpInv, GuessesInv, ReqType
<1>3. ASSUME NEW q \in Requests, Removing(q, u)'
      PROVE  Count(u)' >= 2
  <2>1. ~Removing(r, u) /\ Count(u) >= 2
    BY <1>2, <1>3 DEF RemovalOf, Count
  <2>2. Count(u) <= Count(u)'
    BY <1>1, <2>1, ChangeTakesOne
  <2> QED BY <2>1, <2>2, CountIs
<1> QED BY <1>2, <1>3 DEF RemovalOf, Count

LEMMA RemovalStep ==
    ASSUME StepUpInv, StepUpNext, NEW u \in Users, u \notin MayDisable, u \notin raced'
    PROVE  RemovalOf(u)'
<1>1. CASE \E r \in Requests : checkChange(r)
  BY <1>1, CheckStep
<1>2. ASSUME raced' = raced,
             \A q \in Requests, v \in Users : Removing(q, v)' => Removing(q, v)
      PROVE  RemovalOf(u)'
  <2>1. RemovalOf(u)
    BY <1>2 DEF StepUpInv, FactorInv
  <2>2. CASE \E r \in Requests : applyChange(r)
    BY <2>1, <2>2, ChangeStep
  <2>3. CASE UNCHANGED <<totpOf, passkeyOf, setup>>
    <3>1. Count(u)' = Count(u)
      BY <2>3, CountIs
    <3> QED BY <1>2, <2>1, <3>1 DEF RemovalOf, Count
  <2> QED BY <2>2, <2>3, ActionKeepsRows
<1> QED BY <1>1, <1>2, ActionKeepsRemovals DEF StepUpInv, GuessesInv

LEMMA StepUpStep ==
    ASSUME StepUpInv, [StepUpNext]_stepUpVars
    PROVE  StepUpInv'
<1>1. CASE UNCHANGED stepUpVars
  <2>1. GuessesInv'
    BY <1>1, GuessStep DEF StepUpInv
  <2>2. OwnerType'
    BY <1>1 DEF stepUpVars, factors, OwnerType, StepUpInv, FactorInv
  <2>3. ASSUME NEW u \in Users
        PROVE  u \in MayDisable \cup raced' \/ RemovalOf(u)'
    <3>1. Count(u)' = Count(u)
      BY <1>1, CountIs DEF stepUpVars, factors
    <3> QED BY <1>1, <3>1 DEF StepUpInv, FactorInv, RemovalOf, Removing, Count, stepUpVars
  <2> QED BY <2>1, <2>2, <2>3 DEF StepUpInv, FactorInv
<1>2. CASE StepUpNext
  <2>1. GuessesInv'
    BY <1>2, GuessStep DEF StepUpInv
  <2>2. OwnerType'
    BY <1>2, OwnerStep
  <2>3. \A u \in Users : u \in MayDisable \cup raced' \/ RemovalOf(u)'
    BY <1>2, RemovalStep
  <2> QED BY <2>1, <2>2, <2>3 DEF StepUpInv, FactorInv
<1> QED BY <1>1, <1>2

LEMMA RacedStays ==
    ASSUME StepUpNext
    PROVE  raced \subseteq raced'
<1>1. ASSUME NEW r \in Requests,
             \/ \E u \in Users : passkeyOptions(r, u)
             \/ \E u \in Users, m \in Proofs : verify(r, u, m)
             \/ \E u \in Users, change \in Changes : enterChange(r, u, change)
             \/ expireWindow(r) \/ takeChallenge(r) \/ prove(r) \/ stampSession(r)
             \/ clearFails(r) \/ checkChange(r) \/ applyChange(r)
      PROVE  raced \subseteq raced'
  BY <1>1 DEF passkeyOptions, verify, enterChange, expireWindow, takeChallenge, prove,
              stampSession, clearFails, checkChange, applyChange
<1>2. ASSUME NEW u \in Users, WindowEnds(u) \/ StampAges(u)
      PROVE  raced \subseteq raced'
  BY <1>2 DEF WindowEnds, StampAges
<1> QED BY <1>1, <1>2, StepUpAction

\* A step leaves a strong factor to a user who has one.
LEMMA KeepsStep ==
    ASSUME StepUpInv, StepUpNext, NEW u \in Users \ (MayDisable \cup raced'),
           StrongOf(u) # {}
    PROVE  (StrongOf(u) # {})'
<1>1. Count(u) > 0 /\ Count(u) \in Nat /\ Count(u)' \in Nat
  BY StrongIs, CountIs
<1>2. CASE UNCHANGED <<totpOf, passkeyOf, setup>>
  <2>1. Count(u)' = Count(u)
    BY <1>2, CountIs
  <2> QED BY <1>1, <2>1, StrongIs
<1>3. ASSUME NEW r \in Requests, applyChange(r)
      PROVE  (StrongOf(u) # {})'
  <2>1. OwnerType /\ req[r].user \in Users
    BY <1>3 DEF StepUpInv, FactorInv, GuessesInv, ReqOf, applyChange
  <2>2. RemovalOf(u)
    BY RacedStays DEF StepUpInv, FactorInv
  <2>3. Count(u) <= Count(u)' + 1 /\ (~Removing(r, u) => Count(u) <= Count(u)')
    BY <1>3, <2>1, ChangeTakesOne
  <2>4. Removing(r, u) => Count(u) >= 2
    BY <2>2 DEF RemovalOf, Count
  <2>5. Count(u)' > 0
    BY <1>1, <2>3, <2>4
  <2> QED BY <2>5, StrongIs
<1> QED BY <1>2, <1>3, ActionKeepsRows

\* A user who may not disable MFA and has a strong factor keeps one through
\* any sequence of changes, except when two removals passed their check at the
\* same time (blocksLastFactor, security.ts).
THEOREM LastFactorAlwaysKept == StepUpSpec => LastFactorKept
<1>1. StepUpInit => StepUpInv
  BY GuessInitial, FactorInitial DEF StepUpInv
<1>2. StepUpInv /\ [StepUpNext]_stepUpVars =>
        [\A u \in Users \ (MayDisable \cup raced') :
            StrongOf(u) # {} => StrongOf(u)' # {}]_stepUpVars
  BY KeepsStep
<1>3. StepUpInv /\ [StepUpNext]_stepUpVars => StepUpInv'
  BY StepUpStep
<1> QED BY <1>1, <1>2, <1>3, PTL DEF StepUpSpec, LastFactorKept

-----------------------------------------------------------------------------
(* Master sessions: types, as loose as the proofs can do with.             *)

SsoSpec == SessionInit /\ [][SessionNext]_sessionVars

AnySession == [state : {"unused", "live", "gone"}, clients : SUBSET Apps,
               persistent : BOOLEAN, created : Nat, seen : Nat]
AnyCode == [state : {"unused", "issued", "gone"}, pair : Pairs \cup {Nobody}, uses : Nat]
AnyRedeem == [pc : {"idle", "got", "check"}, code : Codes \cup {Nobody},
              pair : Pairs \cup {Nobody}]

RowType ==
    /\ now \in Nat
    /\ row \in [Sids -> AnySession]
    /\ \A s \in Sids : row[s].seen <= now

\* A code that can be redeemed, and a request that redeems one, have a pair.
CodeType ==
    /\ code \in [Codes -> AnyCode]
    /\ redeem \in [Redeemers -> AnyRedeem]
    /\ \A c \in Codes : code[c].state = "issued" => code[c].pair \in Pairs
    /\ \A r \in Redeemers :
         redeem[r].pc # "idle" => redeem[r].pair \in Pairs /\ redeem[r].code \in Codes

EventType ==
    /\ appends \subseteq Pairs /\ local \subseteq Pairs /\ authorizing \subseteq Pairs
    /\ removing \in [Removers -> SUBSET Pairs]

-----------------------------------------------------------------------------
(* Logout.                                                                 *)

\* The pairs whose login is under way.
Arriving(p) ==
    \/ p \in authorizing \cup appends
    \/ \E c \in Codes : code[c].state = "issued" /\ code[c].pair = p
    \/ \E r \in Redeemers : redeem[r].pc # "idle" /\ redeem[r].pair = p

Told(p) == p \in queued \cup excused \/ \E w \in Removers : p \in removing[w]

\* A login that is under way when its session is gone overlapped the deletion;
\* it may still open a session of the application.
ArrivalInv == \A p \in Pairs : Arriving(p) /\ row[p[2]].state = "gone" => p \in excused

LocalInv == \A p \in local : row[p[2]].state = "gone" => Told(p)

SsoInv == RowType /\ CodeType /\ EventType /\ ArrivalInv /\ LocalInv

LEMMA SsoInitial == SessionInit => SsoInv
<1> SUFFICES ASSUME SessionInit PROVE SsoInv
  OBVIOUS
<1>1. RowType
  BY DEF SessionInit, RowType, AnySession, NoSession
<1>2. CodeType
  BY DEF SessionInit, CodeType, AnyCode, AnyRedeem, NoCode, NoRequest
<1>3. EventType /\ LocalInv
  BY DEF SessionInit, EventType, LocalInv
<1>4. ASSUME NEW p \in Pairs PROVE row[p[2]].state # "gone"
  BY DEF SessionInit, NoSession, Pairs
<1> QED BY <1>1, <1>2, <1>3, <1>4 DEF SsoInv, ArrivalInv

LEMMA PairSid == ASSUME NEW p \in Pairs PROVE p[1] \in Apps /\ p[2] \in Sids
BY DEF Pairs

LEMMA SessionAction ==
    ASSUME SessionNext
    PROVE  \/ HourPasses
           \/ Suspend
           \/ Crash
           \/ \E s \in Sids, for \in SUBSET Apps : createSession(s, for)
           \/ \E s \in Sids : persistSession(s)
           \/ \E s \in Sids : touchSession(s)
           \/ \E p \in Pairs : loadSession(p)
           \/ \E p \in Pairs : authorizationEnds(p)
           \/ \E c \in Codes, p \in Pairs : createCode(c, p)
           \/ \E c \in Codes : CodeExpires(c)
           \/ \E c \in Codes, r \in Redeemers : getCode(r, c)
           \/ \E r \in Redeemers : delCode(r)
           \/ \E r \in Redeemers : mintTokens(r)
           \/ \E w \in Removers, gone \in SUBSET LiveRows : remove(w, gone)
           \/ \E w \in Removers, p \in Pairs : fanOutLogout(w, p)
           \/ \E p \in Pairs : recordClient(p)
           \/ \E p \in Pairs : LogoutDelivered(p)
           \/ \E p \in Pairs : reportActivity(p)
<1>1. ASSUME NEW w \in Removers,
             \/ logout(w) \/ terminate(w) \/ terminateOthers(w)
             \/ changePassword(w) \/ cleanExpiredSessions(w)
      PROVE  \E gone \in SUBSET LiveRows : remove(w, gone)
  <2>1. CASE logout(w)
    <3>1. PICK s \in Sids : Live(s) /\ remove(w, {s})
      BY <2>1 DEF logout
    <3>2. {s} \in SUBSET LiveRows
      BY <3>1 DEF LiveRows, Live
    <3> QED BY <3>1, <3>2
  <2>2. CASE terminate(w)
    <3>1. PICK s \in LiveRows : remove(w, {s})
      BY <2>2 DEF terminate
    <3>2. {s} \in SUBSET LiveRows
      BY <3>1
    <3> QED BY <3>1, <3>2
  <2>3. CASE terminateOthers(w) \/ changePassword(w)
    <3>1. PICK keep : remove(w, LiveRows \ {keep})
      BY <2>3 DEF terminateOthers, changePassword
    <3>2. LiveRows \ {keep} \in SUBSET LiveRows
      OBVIOUS
    <3> QED BY <3>1, <3>2
  <2>4. CASE cleanExpiredSessions(w)
    <3>1. {s \in Sids : Expired(s)} \in SUBSET LiveRows
      BY DEF LiveRows, Expired
    <3> QED BY <2>4, <3>1 DEF cleanExpiredSessions
  <2> QED BY <1>1, <2>1, <2>2, <2>3, <2>4
<1>2. ASSUME NEW s \in Sids, \E for \in {{}} \cup {{a} : a \in Apps} : createSession(s, for)
      PROVE  \E for \in SUBSET Apps : createSession(s, for)
  <2>1. PICK for \in {{}} \cup {{a} : a \in Apps} : createSession(s, for)
    BY <1>2
  <2>2. for \in SUBSET Apps
    OBVIOUS
  <2> QED BY <2>1, <2>2
<1> QED BY <1>1, <1>2 DEF SessionNext

-----------------------------------------------------------------------------
(* Rows.                                                                   *)

\* Every row stays, is changed in place, or is gone.
LEMMA RowChanged ==
    ASSUME RowType, NEW s \in Sids, NEW x \in AnySession, x.seen <= now,
           now' = now, row' = [row EXCEPT ![s] = x]
    PROVE  RowType'
BY DEF RowType

\* What the time, last_seen and the window of a session do in a step.
SeenOf(s) ==
    row[s].state = "live" /\ row'[s].state = "live" =>
        /\ row'[s].seen >= row[s].seen
        /\ row'[s].seen # row[s].seen => row'[s].seen < row[s].created + Window(s)

RowsForward == RowType' /\ \A s \in Sids : SeenOf(s)

LEMMA Reported ==
    ASSUME RowType, NEW p \in Pairs, NEW t \in 0..(MaxTime + 1), Live(p[2])
    PROVE  /\ ReportedSeen(p, t) \in Nat
           /\ ReportedSeen(p, t) <= now
           /\ ReportedSeen(p, t) >= row[p[2]].seen
           /\ ReportedSeen(p, t) < row[p[2]].created + Window(p[2])
<1>1. p[2] \in Sids
  BY PairSid
<1>2. row[p[2]].seen \in Nat /\ row[p[2]].created \in Nat /\ row[p[2]].seen <= now /\ now \in Nat
  BY <1>1 DEF RowType, AnySession
<1>3. t \in Nat
  BY WindowsAssumption
<1>4. Window(p[2]) \in Nat
  BY WindowsAssumption DEF Window
<1>5. row[p[2]].created + Window(p[2]) > now
  BY DEF Live
<1> QED BY <1>2, <1>3, <1>4, <1>5 DEF ReportedSeen

LEMMA RowStep ==
    ASSUME RowType, CodeType, EventType, SessionNext
    PROVE  RowsForward
<1>a. ASSUME NEW s \in Sids, NEW x \in AnySession, x.seen <= now,
             now' = now, row' = [row EXCEPT ![s] = x],
             row[s].state = "live" =>
                 /\ x.seen >= row[s].seen
                 /\ x.seen # row[s].seen => x.seen < row[s].created + Window(s)
      PROVE  RowsForward
  <2>1. RowType'
    BY <1>a, RowChanged
  <2>2. ASSUME NEW q \in Sids PROVE SeenOf(q)
    <3>1. row[q].seen \in Nat
      BY DEF RowType, AnySession
    <3>2. CASE q = s
      <4>1. row'[q] = x
        BY <1>a, <3>2 DEF RowType
      <4> QED BY <1>a, <3>2, <4>1 DEF SeenOf
    <3>3. CASE q # s
      <4>1. row'[q] = row[q]
        BY <1>a, <3>3 DEF RowType
      <4> QED BY <3>1, <4>1 DEF SeenOf
    <3> QED BY <3>2, <3>3
  <2> QED BY <2>1, <2>2 DEF RowsForward
<1>b. ASSUME row' = row, now' = now \/ now' = now + 1
      PROVE  RowsForward
  BY <1>b DEF RowType, SeenOf, AnySession, RowsForward
<1>c. \A s \in Sids : row[s] \in AnySession /\ row[s].seen \in Nat /\ row[s].seen <= now
  BY DEF RowType, AnySession
<1>1. CASE HourPasses
  BY <1>1, <1>b DEF HourPasses
<1>2. ASSUME NEW s \in Sids, NEW for \in SUBSET Apps, createSession(s, for)
      PROVE  RowsForward
  <2> DEFINE x == [NoSession EXCEPT !.state = "live", !.created = now, !.seen = now]
  <2>1. x \in AnySession /\ x.seen = now /\ now \in Nat
    BY DEF RowType, NoSession, AnySession
  <2>2. row' = [row EXCEPT ![s] = x] /\ now' = now /\ row[s].state = "unused"
    BY <1>2 DEF createSession
  <2> HIDE DEF x
  <2>3. x.seen <= now
    BY <2>1
  <2>4. row[s].state = "live" =>
             /\ x.seen >= row[s].seen
             /\ x.seen # row[s].seen => x.seen < row[s].created + Window(s)
    BY <2>2
  <2> QED BY <1>a, <2>1, <2>2, <2>3, <2>4
<1>3. ASSUME NEW s \in Sids, persistSession(s)
      PROVE  RowsForward
  <2> DEFINE x == [row[s] EXCEPT !.persistent = TRUE]
  <2>1. x \in AnySession /\ x.seen = row[s].seen
    BY <1>c DEF AnySession
  <2>2. row' = [row EXCEPT ![s] = x] /\ now' = now
    BY <1>3 DEF persistSession
  <2> HIDE DEF x
  <2>3. x.seen <= now
    BY <1>c, <2>1
  <2>4. row[s].state = "live" =>
             /\ x.seen >= row[s].seen
             /\ x.seen # row[s].seen => x.seen < row[s].created + Window(s)
    BY <1>c, <2>1
  <2> QED BY <1>a, <2>1, <2>2, <2>3, <2>4
<1>4. ASSUME NEW s \in Sids, touchSession(s)
      PROVE  RowsForward
  <2> DEFINE x == [row[s] EXCEPT !.seen = now]
  <2>1. x \in AnySession /\ x.seen = now /\ now \in Nat
    BY <1>c DEF AnySession, RowType
  <2>2. row' = [row EXCEPT ![s] = x] /\ now' = now
    BY <1>4 DEF touchSession
  <2>3. row[s].created + Window(s) > now /\ Window(s) \in Nat /\ row[s].created \in Nat
    BY <1>4, <1>c, WindowsAssumption DEF touchSession, Live, Window, AnySession
  <2> HIDE DEF x
  <2>4. x.seen <= now
    BY <2>1
  <2>5. row[s].state = "live" =>
             /\ x.seen >= row[s].seen
             /\ x.seen # row[s].seen => x.seen < row[s].created + Window(s)
    BY <1>c, <2>1, <2>3
  <2> QED BY <1>a, <2>1, <2>2, <2>4, <2>5
<1>5. ASSUME NEW p \in Pairs, recordClient(p)
      PROVE  RowsForward
  <2>1. CASE row' = row
    BY <1>5, <1>b, <2>1 DEF recordClient
  <2>2. CASE row' = [row EXCEPT ![p[2]].clients = @ \cup {p[1]}]
    <3> DEFINE x == [row[p[2]] EXCEPT !.clients = row[p[2]].clients \cup {p[1]}]
    <3>1. p[2] \in Sids /\ p[1] \in Apps
      BY PairSid
    <3>2. x \in AnySession /\ x.seen = row[p[2]].seen
      BY <1>c, <3>1 DEF AnySession
    <3>3. row' = [row EXCEPT ![p[2]] = x] /\ now' = now
      BY <1>5, <2>2 DEF recordClient
    <3> HIDE DEF x
    <3>4. x.seen <= now
      BY <1>c, <3>1, <3>2
    <3>5. row[p[2]].state = "live" =>
               /\ x.seen >= row[p[2]].seen
               /\ x.seen # row[p[2]].seen => x.seen < row[p[2]].created + Window(p[2])
      BY <1>c, <3>1, <3>2
    <3> QED BY <1>a, <3>1, <3>2, <3>3, <3>4, <3>5
  <2> QED BY <1>5, <2>1, <2>2 DEF recordClient
<1>6. ASSUME NEW p \in Pairs, reportActivity(p)
      PROVE  RowsForward
  <2>1. CASE row' = row
    BY <1>6, <1>b, <2>1 DEF reportActivity
  <2>2. CASE Accepts(p)
    <3>1. PICK t \in 0..(MaxTime + 1) : row' = [row EXCEPT ![p[2]].seen = ReportedSeen(p, t)]
      BY <1>6, <2>2 DEF reportActivity
    <3>2. Live(p[2]) /\ p[2] \in Sids
      BY <2>2, PairSid DEF Accepts
    <3> DEFINE n == ReportedSeen(p, t)
    <3>3. /\ n \in Nat /\ n <= now /\ n >= row[p[2]].seen
          /\ n < row[p[2]].created + Window(p[2])
      BY <3>2, Reported
    <3> HIDE DEF n
    <3> DEFINE x == [row[p[2]] EXCEPT !.seen = n]
    <3>4. x \in AnySession /\ x.seen = n
      BY <1>c, <3>2, <3>3 DEF AnySession
    <3>5. row' = [row EXCEPT ![p[2]] = x] /\ now' = now
      BY <1>6, <3>1 DEF reportActivity, n
    <3> HIDE DEF x
    <3> QED BY <1>a, <3>2, <3>3, <3>4, <3>5
  <2> QED BY <1>6, <2>1, <2>2 DEF reportActivity
<1>7. ASSUME NEW w \in Removers, NEW gone \in SUBSET LiveRows, remove(w, gone)
      PROVE  RowsForward
  <2> DEFINE x == [NoSession EXCEPT !.state = "gone"]
  <2>1. x \in AnySession /\ x.seen = 0 /\ x.state = "gone"
    BY DEF NoSession, AnySession
  <2>2. row' = [s \in Sids |-> IF s \in gone THEN x ELSE row[s]] /\ now' = now
    BY <1>7 DEF remove
  <2> HIDE DEF x
  <2>3. RowType'
    BY <2>1, <2>2 DEF RowType
  <2>4. \A s \in Sids : SeenOf(s)
    BY <1>c, <2>1, <2>2 DEF SeenOf
  <2> QED BY <2>3, <2>4 DEF RowsForward
<1>8. ASSUME NEW c \in Codes,
             \/ \E p \in Pairs : createCode(c, p)
             \/ CodeExpires(c)
             \/ \E r \in Redeemers : getCode(r, c)
      PROVE  RowsForward
  BY <1>8, <1>b DEF createCode, CodeExpires, getCode
<1>9. ASSUME NEW r \in Redeemers, delCode(r) \/ mintTokens(r)
      PROVE  RowsForward
  BY <1>9, <1>b DEF delCode, mintTokens
<1>10. ASSUME NEW p \in Pairs,
              \/ loadSession(p) \/ authorizationEnds(p) \/ LogoutDelivered(p)
              \/ \E w \in Removers : fanOutLogout(w, p)
       PROVE  RowsForward
  BY <1>10, <1>b DEF loadSession, authorizationEnds, LogoutDelivered, fanOutLogout
<1>11. CASE Suspend \/ Crash
  BY <1>11, <1>b DEF Suspend, Crash
<1> QED
  BY SessionAction, <1>1, <1>2, <1>3, <1>4, <1>5, <1>6, <1>7, <1>8, <1>9, <1>10, <1>11

-----------------------------------------------------------------------------
(* Codes and events.                                                       *)

LEMMA CodeStep ==
    ASSUME RowType, CodeType, EventType, SessionNext
    PROVE  CodeType'
<1>1. ASSUME NEW c \in Codes, NEW p \in Pairs, createCode(c, p)
      PROVE  CodeType'
  <2> DEFINE x == [NoCode EXCEPT !.state = "issued", !.pair = p]
  <2>1. x \in AnyCode /\ x.state = "issued" /\ x.pair \in Pairs
    BY DEF NoCode, AnyCode
  <2>2. code' = [code EXCEPT ![c] = x] /\ redeem' = redeem
    BY <1>1 DEF createCode
  <2> HIDE DEF x
  <2> QED BY <2>1, <2>2 DEF CodeType
<1>2. ASSUME NEW c \in Codes, code' = [code EXCEPT ![c].state = "gone", ![c].pair = Nobody]
      PROVE  /\ code' \in [Codes -> AnyCode]
             /\ \A d \in Codes : code'[d].state = "issued" => code'[d].pair \in Pairs
  <2> DEFINE x == [code[c] EXCEPT !.state = "gone", !.pair = Nobody]
  <2>1. x \in AnyCode /\ x.state = "gone"
    BY DEF CodeType, AnyCode
  <2>2. code' = [code EXCEPT ![c] = x]
    BY <1>2
  <2> HIDE DEF x
  <2> QED BY <2>1, <2>2 DEF CodeType
<1>3. ASSUME NEW c \in Codes, CodeExpires(c)
      PROVE  CodeType'
  BY <1>2, <1>3 DEF CodeExpires, CodeType
<1>4. ASSUME NEW r \in Redeemers, redeem' = [redeem EXCEPT ![r] = NoRequest]
      PROVE  /\ redeem' \in [Redeemers -> AnyRedeem]
             /\ \A q \in Redeemers :
                  redeem'[q].pc # "idle" => redeem'[q].pair \in Pairs /\ redeem'[q].code \in Codes
  BY <1>4 DEF CodeType, NoRequest, AnyRedeem
<1>5. ASSUME NEW c \in Codes, NEW r \in Redeemers, getCode(r, c)
      PROVE  CodeType'
  <2> DEFINE x == [pc |-> "got", code |-> c, pair |-> code[c].pair]
  <2>1. x \in AnyRedeem /\ x.code \in Codes /\ x.pair \in Pairs
    BY <1>5 DEF AnyRedeem, getCode, CodeType
  <2>2. redeem' = [redeem EXCEPT ![r] = x] /\ code' = code
    BY <1>5 DEF getCode
  <2> HIDE DEF x
  <2> QED BY <2>1, <2>2 DEF CodeType
<1>6. ASSUME NEW r \in Redeemers, delCode(r)
      PROVE  CodeType'
  <2>1. redeem[r].code \in Codes
    BY <1>6 DEF delCode, CodeType
  <2>2. code' = [code EXCEPT ![redeem[r].code].state = "gone", ![redeem[r].code].pair = Nobody]
    BY <1>6 DEF delCode
  <2>3. /\ code' \in [Codes -> AnyCode]
        /\ \A d \in Codes : code'[d].state = "issued" => code'[d].pair \in Pairs
    BY <1>2, <2>1, <2>2
  <2>4. CASE redeem' = [redeem EXCEPT ![r] = NoRequest]
    BY <1>4, <2>3, <2>4 DEF CodeType
  <2>5. CASE redeem' = [redeem EXCEPT ![r].pc = "check"]
    BY <1>6, <2>3, <2>5 DEF CodeType, AnyRedeem, delCode
  <2> QED BY <1>6, <2>4, <2>5 DEF delCode
<1>7. ASSUME NEW r \in Redeemers, mintTokens(r)
      PROVE  CodeType'
  <2>1. redeem[r].code \in Codes /\ redeem' = [redeem EXCEPT ![r] = NoRequest]
    BY <1>7 DEF mintTokens, CodeType
  <2>2. CASE suspended
    BY <1>4, <1>7, <2>1, <2>2 DEF mintTokens, CodeType
  <2>3. CASE ~suspended
    <3>1. code' = [code EXCEPT ![redeem[r].code].uses = @ + 1]
      BY <1>7, <2>3 DEF mintTokens
    <3>2. /\ code' \in [Codes -> AnyCode]
          /\ \A d \in Codes : code'[d].state = code[d].state /\ code'[d].pair = code[d].pair
      BY <2>1, <3>1 DEF CodeType, AnyCode
    <3> QED BY <1>4, <2>1, <3>2 DEF CodeType
  <2> QED BY <2>2, <2>3
<1>8. CASE Crash
  BY <1>8 DEF Crash, CodeType, NoRequest, AnyRedeem
<1>9. CASE UNCHANGED <<code, redeem>>
  BY <1>9 DEF CodeType
<1>10. ASSUME NEW s \in Sids,
              \/ persistSession(s) \/ touchSession(s)
              \/ \E for \in SUBSET Apps : createSession(s, for)
       PROVE  UNCHANGED <<code, redeem>>
  BY <1>10 DEF createSession, persistSession, touchSession
<1>11. ASSUME NEW p \in Pairs,
              \/ loadSession(p) \/ authorizationEnds(p)
              \/ recordClient(p) \/ LogoutDelivered(p) \/ reportActivity(p)
              \/ \E w \in Removers : fanOutLogout(w, p)
       PROVE  UNCHANGED <<code, redeem>>
  BY <1>11 DEF loadSession, authorizationEnds, recordClient, LogoutDelivered, reportActivity, fanOutLogout
<1>12. ASSUME NEW w \in Removers, NEW gone \in SUBSET LiveRows, remove(w, gone)
       PROVE  UNCHANGED <<code, redeem>>
  BY <1>12 DEF remove
<1>13. CASE HourPasses \/ Suspend
  BY <1>9, <1>13 DEF HourPasses, Suspend
<1> QED
  BY SessionAction, <1>1, <1>3, <1>5, <1>6, <1>7, <1>8, <1>9, <1>10, <1>11, <1>12, <1>13

LEMMA EventStep ==
    ASSUME RowType, CodeType, EventType, SessionNext
    PROVE  EventType'
<1>1. ASSUME NEW r \in Redeemers, delCode(r)
      PROVE  EventType'
  BY <1>1 DEF delCode, EventType, CodeType
<1>2. ASSUME NEW r \in Redeemers, mintTokens(r)
      PROVE  EventType'
  <2>1. redeem[r].pair \in Pairs
    BY <1>2 DEF mintTokens, CodeType
  <2> QED BY <1>2, <2>1 DEF mintTokens, EventType
<1>3. ASSUME NEW w \in Removers, NEW gone \in SUBSET LiveRows, remove(w, gone)
      PROVE  EventType'
  <2>1. Returned(gone) \subseteq Pairs
    BY DEF Returned
  <2> QED BY <1>3, <2>1 DEF remove, EventType
<1>4. ASSUME NEW w \in Removers, NEW p \in Pairs, fanOutLogout(w, p)
      PROVE  EventType'
  BY <1>4 DEF fanOutLogout, EventType
<1>5. ASSUME NEW p \in Pairs,
             \/ loadSession(p) \/ authorizationEnds(p)
             \/ recordClient(p) \/ LogoutDelivered(p) \/ reportActivity(p)
      PROVE  EventType'
  BY <1>5 DEF loadSession, authorizationEnds, recordClient, LogoutDelivered, reportActivity,
              EventType
<1>6. CASE Crash
  BY <1>6 DEF Crash, EventType
<1>7. CASE UNCHANGED <<appends, local, removing>> /\ authorizing' \subseteq Pairs
  BY <1>7 DEF EventType
<1>8. ASSUME NEW s \in Sids,
             \/ persistSession(s) \/ touchSession(s)
             \/ \E for \in SUBSET Apps : createSession(s, for)
      PROVE  UNCHANGED <<appends, local, removing>> /\ authorizing' \subseteq Pairs
  BY <1>8 DEF createSession, persistSession, touchSession, EventType, Pairs
<1>9. ASSUME NEW c \in Codes,
             \/ \E p \in Pairs : createCode(c, p)
             \/ CodeExpires(c)
             \/ \E r \in Redeemers : getCode(r, c)
      PROVE  UNCHANGED <<appends, local, removing>> /\ authorizing' \subseteq Pairs
  BY <1>9 DEF createCode, CodeExpires, getCode, EventType
<1>10. CASE HourPasses \/ Suspend
  BY <1>10 DEF HourPasses, Suspend, EventType
<1> QED
  BY SessionAction, <1>1, <1>2, <1>3, <1>4, <1>5, <1>6, <1>7, <1>8, <1>9, <1>10

-----------------------------------------------------------------------------
(* Logout.                                                                 *)

\* Only a removal ends a session.
LEMMA GoneByRemoval ==
    ASSUME RowType, SessionNext
    PROVE  \/ \E w \in Removers, gone \in SUBSET LiveRows : remove(w, gone)
           \/ \A s \in Sids : row'[s].state = "gone" => row[s].state = "gone"
<1> DEFINE Kept == \A s \in Sids : row'[s].state = "gone" => row[s].state = "gone"
<1>1. ASSUME NEW s \in Sids,
             \/ persistSession(s) \/ touchSession(s)
             \/ \E for \in SUBSET Apps : createSession(s, for)
      PROVE  Kept
  BY <1>1 DEF createSession, persistSession, touchSession, NoSession, RowType, AnySession
<1>2. ASSUME NEW p \in Pairs, recordClient(p) \/ LogoutDelivered(p) \/ reportActivity(p)
      PROVE  Kept
  <2>1. p[2] \in Sids
    BY PairSid
  <2>2. ASSUME recordClient(p)
        PROVE  Kept
    <3>1. row' = row \/ row' = [row EXCEPT ![p[2]].clients = @ \cup {p[1]}]
      BY <2>2 DEF recordClient
    <3> QED BY <2>1, <3>1 DEF RowType, AnySession
  <2>3. ASSUME LogoutDelivered(p)
        PROVE  Kept
    BY <2>3 DEF LogoutDelivered
  <2>4. ASSUME reportActivity(p)
        PROVE  Kept
    <3>1. row' = row \/ \E seen : row' = [row EXCEPT ![p[2]].seen = seen]
      BY <2>4 DEF reportActivity
    <3> QED BY <2>1, <3>1 DEF RowType, AnySession
  <2> QED BY <1>2, <2>2, <2>3, <2>4
<1>3. ASSUME row' = row
      PROVE  Kept
  BY <1>3
<1>4. ASSUME NEW c \in Codes,
             \/ \E p \in Pairs : createCode(c, p)
             \/ CodeExpires(c)
             \/ \E r \in Redeemers : getCode(r, c)
      PROVE  row' = row
  BY <1>4 DEF createCode, CodeExpires, getCode
<1>5. ASSUME NEW r \in Redeemers, delCode(r) \/ mintTokens(r)
      PROVE  row' = row
  BY <1>5 DEF delCode, mintTokens
<1>6. ASSUME NEW p \in Pairs,
             \/ loadSession(p) \/ authorizationEnds(p)
             \/ \E w \in Removers : fanOutLogout(w, p)
      PROVE  row' = row
  BY <1>6 DEF fanOutLogout, loadSession, authorizationEnds
<1>7. HourPasses \/ Suspend \/ Crash => row' = row
  BY DEF HourPasses, Suspend, Crash
<1> HIDE DEF Kept
<1>8. Kept \/ \E w \in Removers, gone \in SUBSET LiveRows : remove(w, gone)
  BY SessionAction, <1>1, <1>2, <1>3, <1>4, <1>5, <1>6, <1>7
<1> QED BY <1>8 DEF Kept

\* A login begins with a session that is live: created by it, or found by it; no
\* other step begins one.
LEMMA ArrivalByCode ==
    ASSUME RowType, CodeType, EventType, SessionNext, NEW p \in Pairs, Arriving(p)'
    PROVE  Arriving(p) \/ row'[p[2]].state # "gone"
<1>1. CASE UNCHANGED <<authorizing, appends, code, redeem>>
  BY <1>1 DEF Arriving
<1>2. ASSUME NEW s \in Sids, persistSession(s) \/ touchSession(s)
      PROVE  UNCHANGED <<authorizing, appends, code, redeem>>
  BY <1>2 DEF persistSession, touchSession
<1>3. ASSUME NEW c \in Codes, NEW q \in Pairs, createCode(c, q)
      PROVE  Arriving(p)
  <2>1. /\ appends' = appends /\ redeem' = redeem /\ authorizing' \subseteq authorizing
        /\ code' = [code EXCEPT ![c] = [NoCode EXCEPT !.state = "issued", !.pair = q]]
        /\ q \in authorizing
    BY <1>3 DEF createCode
  <2>2. \A d \in Codes : d # c => code'[d] = code[d]
    BY <2>1 DEF CodeType
  <2>3. code'[c].pair = q
    BY <2>1 DEF CodeType, NoCode
  <2> QED BY <2>1, <2>2, <2>3 DEF Arriving
<1>13. ASSUME NEW s \in Sids, NEW for \in SUBSET Apps, createSession(s, for)
       PROVE  Arriving(p) \/ row'[p[2]].state # "gone"
  <2>1. /\ appends' = appends /\ redeem' = redeem /\ code' = code
        /\ authorizing' = authorizing \cup {<<a, s>> : a \in for}
        /\ row' = [row EXCEPT ![s] = [NoSession EXCEPT !.state = "live", !.created = now,
                                                       !.seen = now]]
    BY <1>13 DEF createSession
  <2>2. row'[s].state = "live"
    BY <2>1 DEF RowType, NoSession
  <2>3. Arriving(p) \/ p \in {<<a, s>> : a \in for}
    BY <2>1 DEF Arriving
  <2>4. p \in {<<a, s>> : a \in for} => p[2] = s
    OBVIOUS
  <2> QED BY <2>2, <2>3, <2>4
<1>14. ASSUME NEW q \in Pairs, loadSession(q)
       PROVE  Arriving(p) \/ row'[p[2]].state # "gone"
  <2>1. /\ appends' = appends /\ redeem' = redeem /\ code' = code /\ row' = row
        /\ authorizing' = authorizing \cup {q} /\ row[q[2]].state = "live"
    BY <1>14 DEF loadSession, Live
  <2> QED BY <2>1 DEF Arriving
<1>15. ASSUME NEW q \in Pairs, authorizationEnds(q)
       PROVE  Arriving(p)
  BY <1>15 DEF authorizationEnds, Arriving
<1>4. ASSUME NEW c \in Codes, CodeExpires(c)
      PROVE  Arriving(p)
  <2>1. \A d \in Codes : code'[d].state = "issued" => code'[d] = code[d]
    BY <1>4 DEF CodeExpires, CodeType, AnyCode
  <2> QED BY <1>4, <2>1 DEF CodeExpires, Arriving
<1>5. ASSUME NEW c \in Codes, NEW r \in Redeemers, getCode(r, c)
      PROVE  Arriving(p)
  <2>1. \A q \in Redeemers : redeem'[q] = redeem[q] \/ redeem'[q].pair = code[c].pair
    BY <1>5 DEF getCode, CodeType
  <2> QED BY <1>5, <2>1 DEF getCode, Arriving
<1>6. ASSUME NEW r \in Redeemers, delCode(r)
      PROVE  Arriving(p)
  <2>1. redeem[r].pc # "idle" /\ redeem[r].code \in Codes
    BY <1>6 DEF delCode, CodeType
  <2>2. \A d \in Codes : code'[d].state = "issued" => code'[d] = code[d]
    BY <1>6, <2>1 DEF delCode, CodeType, AnyCode
  <2>3. \A q \in Redeemers : redeem'[q].pc # "idle" =>
                                redeem[q].pc # "idle" /\ redeem'[q].pair = redeem[q].pair
    BY <1>6, <2>1 DEF delCode, CodeType, AnyRedeem, NoRequest
  <2>4. /\ \A x \in appends' : x \in appends \/ x = redeem[r].pair
        /\ authorizing' = authorizing
    BY <1>6 DEF delCode
  <2> QED BY <2>1, <2>2, <2>3, <2>4 DEF Arriving
<1>7. ASSUME NEW r \in Redeemers, mintTokens(r)
      PROVE  Arriving(p)
  <2>1. redeem[r].code \in Codes /\ appends' = appends /\ authorizing' = authorizing
    BY <1>7 DEF mintTokens, CodeType
  <2>2. \A d \in Codes : code'[d].state = code[d].state /\ code'[d].pair = code[d].pair
    BY <1>7, <2>1 DEF mintTokens, CodeType, AnyCode
  <2>3. \A q \in Redeemers : redeem'[q].pc # "idle" => redeem'[q] = redeem[q]
    BY <1>7 DEF mintTokens, CodeType, NoRequest
  <2> QED BY <2>1, <2>2, <2>3 DEF Arriving
<1>8. ASSUME Crash
      PROVE  Arriving(p)
  BY <1>8 DEF Crash, Arriving, NoRequest
<1>9. ASSUME NEW q \in Pairs, recordClient(q)
      PROVE  Arriving(p)
  BY <1>9 DEF recordClient, Arriving
<1>10. ASSUME NEW q \in Pairs,
              LogoutDelivered(q) \/ reportActivity(q) \/ \E w \in Removers : fanOutLogout(w, q)
       PROVE  UNCHANGED <<authorizing, appends, code, redeem>>
  BY <1>10 DEF LogoutDelivered, reportActivity, fanOutLogout
<1>11. ASSUME NEW w \in Removers, NEW gone \in SUBSET LiveRows, remove(w, gone)
       PROVE  UNCHANGED <<authorizing, appends, code, redeem>>
  BY <1>11 DEF remove
<1>12. CASE HourPasses \/ Suspend
  BY <1>1, <1>12 DEF HourPasses, Suspend
<1> QED
  BY SessionAction, <1>1, <1>2, <1>3, <1>4, <1>5, <1>6, <1>7, <1>8, <1>9, <1>10, <1>11, <1>12,
     <1>13, <1>14, <1>15

\* What an application is to be told stays known until it is told.
LEMMA ToldStays ==
    ASSUME EventType, SessionNext
    PROVE  /\ excused \subseteq excused'
           /\ \A p \in Pairs : Told(p) => Told(p)' \/ (p \notin local' /\ row' = row)
<1>1. CASE UNCHANGED <<excused, queued, removing>>
  BY <1>1 DEF Told
<1>2. ASSUME NEW w \in Removers, NEW gone \in SUBSET LiveRows, remove(w, gone)
      PROVE  /\ excused \subseteq excused'
             /\ \A p \in Pairs : Told(p) => Told(p)'
  <2>1. \A v \in Removers : removing[v] # {} => removing'[v] = removing[v]
    BY <1>2 DEF remove, EventType
  <2> QED BY <1>2, <2>1 DEF remove, Told
<1>3. ASSUME NEW w \in Removers, NEW q \in Pairs, fanOutLogout(w, q)
      PROVE  /\ excused \subseteq excused'
             /\ \A p \in Pairs : Told(p) => Told(p)'
  <2>1. \A v \in Removers : \A p \in removing[v] : p # q => p \in removing'[v]
    BY <1>3 DEF fanOutLogout, EventType
  <2>2. q \in queued' \cup excused'
    BY <1>3 DEF fanOutLogout
  <2>3. queued \subseteq queued' /\ excused \subseteq excused'
    BY <1>3 DEF fanOutLogout
  <2> QED BY <2>1, <2>2, <2>3 DEF Told
<1>4. ASSUME Crash
      PROVE  /\ excused \subseteq excused'
             /\ \A p \in Pairs : Told(p) => Told(p)'
  <2>1. queued' = queued /\ excused' = excused \cup UNION {removing[w] : w \in Removers} \cup appends
    BY <1>4 DEF Crash
  <2> QED BY <2>1 DEF Told
<1>5. ASSUME NEW q \in Pairs, LogoutDelivered(q)
      PROVE  /\ excused \subseteq excused'
             /\ \A p \in Pairs : Told(p) => Told(p)' \/ (p \notin local' /\ row' = row)
  BY <1>5 DEF LogoutDelivered, Told
<1>6. ASSUME NEW s \in Sids,
             \/ persistSession(s) \/ touchSession(s)
             \/ \E for \in SUBSET Apps : createSession(s, for)
      PROVE  UNCHANGED <<excused, queued, removing>>
  BY <1>6 DEF createSession, persistSession, touchSession
<1>7. ASSUME NEW c \in Codes,
             \/ \E p \in Pairs : createCode(c, p)
             \/ CodeExpires(c)
             \/ \E r \in Redeemers : getCode(r, c)
      PROVE  UNCHANGED <<excused, queued, removing>>
  BY <1>7 DEF createCode, CodeExpires, getCode
<1>8. ASSUME NEW r \in Redeemers, delCode(r) \/ mintTokens(r)
      PROVE  UNCHANGED <<excused, queued, removing>>
  BY <1>8 DEF delCode, mintTokens
<1>9. ASSUME NEW q \in Pairs,
             recordClient(q) \/ reportActivity(q) \/ loadSession(q) \/ authorizationEnds(q)
      PROVE  UNCHANGED <<excused, queued, removing>>
  BY <1>9 DEF recordClient, reportActivity, loadSession, authorizationEnds
<1>10. CASE HourPasses \/ Suspend
  BY <1>1, <1>10 DEF HourPasses, Suspend
<1> QED
  BY SessionAction, <1>1, <1>2, <1>3, <1>4, <1>5, <1>6, <1>7, <1>8, <1>9, <1>10

\* An application opens a session only at the end of a login.
LEMMA LocalByLogin ==
    ASSUME CodeType, SessionNext, NEW p \in local', p \notin local
    PROVE  Arriving(p) /\ row' = row
<1>1. ASSUME NEW r \in Redeemers, mintTokens(r)
      PROVE  Arriving(p) /\ row' = row
  <2>1. redeem[r].pc # "idle" /\ p = redeem[r].pair /\ row' = row
    BY <1>1 DEF mintTokens
  <2> QED BY <2>1 DEF Arriving
<1>2. ASSUME NEW s \in Sids,
             \/ persistSession(s) \/ touchSession(s)
             \/ \E for \in SUBSET Apps : createSession(s, for)
      PROVE  FALSE
  BY <1>2 DEF createSession, persistSession, touchSession
<1>3. ASSUME NEW c \in Codes,
             \/ \E q \in Pairs : createCode(c, q)
             \/ CodeExpires(c)
             \/ \E r \in Redeemers : getCode(r, c)
      PROVE  FALSE
  BY <1>3 DEF createCode, CodeExpires, getCode
<1>4. ASSUME NEW r \in Redeemers, delCode(r)
      PROVE  FALSE
  BY <1>4 DEF delCode
<1>5. ASSUME NEW q \in Pairs,
             \/ loadSession(q) \/ authorizationEnds(q)
             \/ recordClient(q) \/ LogoutDelivered(q) \/ reportActivity(q)
             \/ \E w \in Removers : fanOutLogout(w, q)
      PROVE  FALSE
  BY <1>5 DEF loadSession, authorizationEnds, recordClient, LogoutDelivered, reportActivity, fanOutLogout
<1>6. ASSUME NEW w \in Removers, NEW gone \in SUBSET LiveRows, remove(w, gone)
      PROVE  FALSE
  BY <1>6 DEF remove
<1>7. ~(HourPasses \/ Suspend \/ Crash)
  BY DEF HourPasses, Suspend, Crash
<1> QED BY SessionAction, <1>1, <1>2, <1>3, <1>4, <1>5, <1>6, <1>7

\* A deletion excuses the logins under way and hands the listed applications to
\* its remover.
LEMMA RemovalTells ==
    ASSUME SsoInv, NEW w \in Removers, NEW gone \in SUBSET LiveRows, remove(w, gone)
    PROVE  ArrivalInv' /\ LocalInv'
<1>1. /\ \A s \in Sids : s \notin gone => row'[s] = row[s]
      /\ removing' = [removing EXCEPT ![w] = Returned(gone)] /\ removing[w] = {}
      /\ excused' = excused \cup {p \in Pairs : p \in LoggingIn \cup Unlisted /\ p[2] \in gone}
      /\ local' = local /\ appends' = appends /\ code' = code /\ redeem' = redeem
      /\ queued' = queued /\ authorizing' = authorizing
  BY DEF remove
<1>2. ASSUME NEW p \in Pairs, Arriving(p)', row'[p[2]].state = "gone"
      PROVE  p \in excused'
  <2>1. Arriving(p) /\ p \in LoggingIn
    BY <1>1, <1>2 DEF Arriving, LoggingIn
  <2>2. CASE p[2] \in gone
    BY <1>1, <2>1, <2>2
  <2>3. CASE p[2] \notin gone
    BY <1>1, <1>2, <2>1, <2>3, PairSid DEF SsoInv, ArrivalInv
  <2> QED BY <2>2, <2>3
<1>3. ASSUME NEW p \in local, row'[p[2]].state = "gone"
      PROVE  Told(p)'
  <2>1. p \in Pairs /\ p[2] \in Sids
    BY PairSid DEF SsoInv, EventType
  <2>2. removing'[w] = Returned(gone)
    BY <1>1 DEF SsoInv, EventType
  <2>3. CASE p[2] \in gone /\ p[1] \in row[p[2]].clients
    <3>1. p \in removing'[w]
      BY <2>1, <2>2, <2>3 DEF Returned
    <3> QED BY <3>1 DEF Told
  <2>4. CASE p[2] \in gone /\ p[1] \notin row[p[2]].clients
    <3>1. p \in excused'
      BY <1>1, <2>1, <2>4 DEF Unlisted
    <3> QED BY <3>1 DEF Told
  <2>5. CASE p[2] \notin gone
    <3>1. Told(p)
      BY <1>1, <1>3, <2>1, <2>5 DEF SsoInv, LocalInv
    <3>2. \A v \in Removers : p \in removing[v] => p \in removing'[v]
      BY <1>1 DEF SsoInv, EventType
    <3> QED BY <1>1, <3>1, <3>2 DEF Told
  <2> QED BY <2>3, <2>4, <2>5
<1> QED BY <1>1, <1>2, <1>3 DEF ArrivalInv, LocalInv

LEMMA SsoStep ==
    ASSUME SsoInv, [SessionNext]_sessionVars
    PROVE  SsoInv'
<1>1. CASE UNCHANGED sessionVars
  BY <1>1 DEF sessionVars, SsoInv, RowType, CodeType, EventType, ArrivalInv, LocalInv, Arriving,
              Told
<1>2. ASSUME SessionNext
      PROVE  SsoInv'
  <2> USE DEF SsoInv
  <2>1. RowType' /\ CodeType' /\ EventType'
    BY <1>2, RowStep, CodeStep, EventStep DEF RowsForward
  <2>2. CASE \E w \in Removers, gone \in SUBSET LiveRows : remove(w, gone)
    BY <2>1, <2>2, RemovalTells
  <2>3. ASSUME \A s \in Sids : row'[s].state = "gone" => row[s].state = "gone"
        PROVE  ArrivalInv' /\ LocalInv'
    <3>1. ASSUME NEW p \in Pairs, Arriving(p)', row'[p[2]].state = "gone"
          PROVE  p \in excused'
      <4>1. row[p[2]].state = "gone"
        BY <2>3, <3>1, PairSid
      <4>2. Arriving(p)
        BY <1>2, <3>1, <4>1, ArrivalByCode
      <4>3. p \in excused
        BY <4>1, <4>2 DEF ArrivalInv
      <4> QED BY <1>2, <4>3, ToldStays
    <3>2. ASSUME NEW p \in local', row'[p[2]].state = "gone"
          PROVE  Told(p)'
      <4>1. p \in Pairs
        BY <2>1 DEF EventType
      <4>2. row[p[2]].state = "gone"
        BY <2>3, <3>2, <4>1, PairSid
      <4>3. CASE p \in local
        <5>1. Told(p)
          BY <4>2, <4>3 DEF LocalInv
        <5>2. Told(p)' \/ p \notin local
          BY <1>2, <4>1, <5>1, ToldStays
        <5> QED BY <4>3, <5>2
      <4>4. CASE p \notin local
        <5>1. Arriving(p)
          BY <1>2, <4>4, LocalByLogin
        <5>2. p \in excused
          BY <4>1, <4>2, <5>1 DEF ArrivalInv
        <5>3. p \in excused'
          BY <1>2, <5>2, ToldStays
        <5> QED BY <5>3 DEF Told
      <4> QED BY <4>3, <4>4
    <3> QED BY <3>1, <3>2 DEF ArrivalInv, LocalInv
  <2> QED BY <1>2, <2>1, <2>2, <2>3, GoneByRemoval
<1> QED BY <1>1, <1>2

\* An application keeps a session of a deleted master session without being
\* told only if its login overlapped the deletion, from the moment a request or
\* a transaction held the session's ID to the listing of the application, or
\* the event
\* was lost before it reached the outbox (sessions.ts, fanOutLogout).
THEOREM OnlyOverlapStrands == SsoSpec => []StrandedOnlyByOverlap
<1>1. SsoInv => StrandedOnlyByOverlap
  BY DEF SsoInv, LocalInv, Told, StrandedOnlyByOverlap
<1> QED BY <1>1, SsoInitial, SsoStep, PTL DEF SsoSpec

\* last_seen never moves backwards, whatever order reports arrive in, and no
\* report or request moves it past the session's absolute window
\* (sessionActivity.ts, touchSession).
THEOREM LastSeenAlwaysForward == SsoSpec => LastSeenForward
<1>1. SsoInv /\ [SessionNext]_sessionVars =>
        [\A s \in Sids :
            row[s].state = "live" /\ row'[s].state = "live" =>
               /\ row'[s].seen >= row[s].seen
               /\ row'[s].seen # row[s].seen => row'[s].seen < row[s].created + Window(s)]_sessionVars
  BY RowStep DEF SsoInv, RowsForward, SeenOf
<1>2. SsoInv /\ [SessionNext]_sessionVars => SsoInv'
  BY SsoStep
<1> QED BY <1>1, <1>2, SsoInitial, PTL DEF SsoSpec, LastSeenForward
=============================================================================
