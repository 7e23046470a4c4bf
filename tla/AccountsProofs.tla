---------------------------- MODULE AccountsProofs ----------------------------
(***************************************************************************)
(* Proofs about the flows that run over mailed links: password reset       *)
(* (PasswordReset), registration and changes of address (EmailChange).     *)
(***************************************************************************)
EXTENDS PasswordReset, EmailChange, FiniteSetTheorems, TLAPS

-----------------------------------------------------------------------------
(* Password reset.                                                         *)

ResetSpec == ResetInit /\ [][ResetNext]_resetVars

Requests == [pc : ResetLabels, link : Links \cup {NoLink}, attempts : Nat, password : Nat,
             admin : BOOLEAN]
Records == [live : BOOLEAN, attempts : Nat, expires : BOOLEAN]

\* The types the two invariants below need.
ResetType ==
    /\ token \in [Links -> Records]
    /\ pointer \in Links \cup {NoLink}
    /\ handler \in [Handlers -> Requests]
    /\ password \in Nat
    /\ tickets \subseteq Nat
    /\ died \subseteq Links

\* A link somebody remembers was issued: it is live, or it has died since.
Issued(l) == l \in Links => token[l].live \/ l \in died

\* Links that died are dead, but for the contested ones; the pointer, and what a handler
\* read from it, was issued; a confirmation holds a live link, or a contested one.
LinkInv ==
    /\ LinkStaysDead
    /\ Issued(pointer)
    /\ \A h \in Handlers : handler[h].pc = "replace" => Issued(handler[h].link)
    /\ \A h \in Handlers : handler[h].pc \in {"confirm", "consume"} =>
         handler[h].link \in Links /\ (token[handler[h].link].live \/ handler[h].link \in contested)

\* What rests on a password: sessions, and sign-ins and tickets that will open one.
Resting == opened \cup tickets \cup {handler[h].password : h \in SigningIn}

\* Sessions are still to be ended, or nobody will end them, or all of it rests on the
\* password in force or was under way when sessions were ended.
PasswordInv ==
    \/ unended
    \/ \E h \in Handlers : handler[h].pc \in {"consume", "revoke"}
    \/ Resting \subseteq {password} \cup inFlight

ResetInv == ResetType /\ LinkInv /\ PasswordInv

LEMMA ResetStart == ResetInit => ResetInv
<1> SUFFICES ASSUME ResetInit PROVE ResetInv
  OBVIOUS
<1>1. ResetType
  BY DEF ResetInit, ResetType, Records, Requests, Dead, AtRest, ResetLabels
<1>2. LinkInv
  BY ResetAssumption DEF ResetInit, LinkInv, LinkStaysDead, Issued, AtRest
<1>3. PasswordInv
  BY DEF ResetInit, PasswordInv, Resting, SigningIn, AtRest
<1>4. QED
  BY <1>1, <1>2, <1>3 DEF ResetInv

LEMMA ResetTypeStep == ASSUME ResetType, [ResetNext]_resetVars PROVE ResetType'
<1> USE DEF ResetType, Records, Requests
<1>1. AtRest \in Requests
  BY DEF AtRest, ResetLabels
<1>2. Dead \in Records
  BY DEF Dead
<1>3. ASSUME NEW h \in Handlers, NEW pc \in ResetLabels, goto(h, pc) \/ finish(h)
      PROVE  handler' \in [Handlers -> Requests]
  BY <1>1, <1>3 DEF goto, finish
<1>4. ASSUME NEW h \in Handlers, requestLink(h) \/ sendReset(h) \/ readPointer(h) PROVE ResetType'
  BY <1>3, <1>4 DEF requestLink, sendReset, readPointer, ResetLabels
<1>5. ASSUME NEW h \in Handlers, sendLink(h) PROVE ResetType'
  BY <1>1, <1>5 DEF sendLink, finish
<1>6. ASSUME NEW h \in Handlers, setPassword(h) \/ writePassword(h) PROVE ResetType'
  BY <1>6 DEF setPassword, writePassword, ResetLabels
<1>7. ASSUME NEW h \in Handlers, failChallenge(h) PROVE ResetType'
  <2>1. handler[h].attempts + 1 \in Nat
    OBVIOUS
  <2>2. token' \in [Links -> Records]
    <3>1. PICK n \in Nat : n = handler[h].attempts + 1
      BY <2>1
    <3>2. CASE token' = [token EXCEPT ![handler[h].link].live = TRUE, ![handler[h].link].attempts = n]
      BY <3>2
    <3>3. QED
      BY <1>7, <1>2, <3>1, <3>2 DEF failChallenge, kill
  <2>3. pointer' \in Links \cup {NoLink}
    BY <1>7 DEF failChallenge
  <2>4. QED
    BY <1>7, <1>1, <2>2, <2>3 DEF failChallenge, finish, kill, bury
<1>8. ASSUME NEW h \in Handlers, consumeResetToken(h) PROVE ResetType'
  BY <1>8, <1>2 DEF consumeResetToken, kill, bury, goto, ResetLabels
<1>9. ASSUME NEW h \in Handlers, revokeSessions(h) PROVE ResetType'
  <2>1. finish(h) \/ goto(h, "ticket")
    BY <1>9 DEF revokeSessions
  <2>2. handler' \in [Handlers -> Requests]
    BY <1>3, <2>1 DEF ResetLabels
  <2>3. QED
    BY <1>9, <2>2 DEF revokeSessions
<1>10. ASSUME NEW h \in Handlers, mintLoginTicket(h) \/ signIn(h) \/ signedIn(h) PROVE ResetType'
  <2>1. CASE mintLoginTicket(h) \/ signedIn(h)
    BY <2>1, <1>3 DEF mintLoginTicket, signedIn, ResetLabels
  <2>2. CASE signIn(h)
    <3>1. handler' = [handler EXCEPT ![h].pc = "login", ![h].password = password]
      BY <2>2 DEF signIn
    <3>2. [handler[h] EXCEPT !.pc = "login", !.password = password] \in Requests
      BY DEF ResetLabels
    <3>2a. handler' \in [Handlers -> Requests]
      BY <3>1, <3>2
    <3>3. QED
      BY <2>2, <3>2a DEF signIn
  <2>3. QED
    BY <1>10, <2>1, <2>2
<1>11. ASSUME NEW h \in Handlers, NEW l \in Links, issueResetToken(h, l) PROVE ResetType'
  <2>1. [Dead EXCEPT !.live = TRUE, !.expires = TRUE] \in Records
    BY DEF Dead
  <2>2. token' \in [Links -> Records]
    BY <1>11, <1>2, <2>1 DEF issueResetToken
  <2>3. handler' \in [Handlers -> Requests]
    <3>1. [handler[h] EXCEPT !.pc = "send", !.link = l] \in Requests
      BY DEF ResetLabels
    <3>2. QED
      BY <1>11, <3>1 DEF issueResetToken
  <2>4. QED
    BY <1>11, <2>2, <2>3 DEF issueResetToken, bury
<1>12. ASSUME NEW h \in Handlers, NEW l \in Links, NEW m, confirm(h, l, m) PROVE ResetType'
  BY <1>12 DEF confirm, AtRest, ResetLabels
<1>13. ASSUME NEW l \in Links, passkeyOptions(l) \/ linkExpires(l) PROVE ResetType'
  <2>1. CASE passkeyOptions(l)
    BY <2>1 DEF passkeyOptions
  <2>2. CASE linkExpires(l)
    <3>1. token' \in [Links -> Records] /\ died' \subseteq Links
      BY <2>2, <1>2 DEF linkExpires, kill, bury
    <3>2. pointer' \in Links \cup {NoLink} /\ UNCHANGED <<handler, password, tickets>>
      BY <2>2 DEF linkExpires
    <3>3. QED
      BY <3>1, <3>2
  <2>3. QED
    BY <1>13, <2>1, <2>2
<1>14. ASSUME NEW h \in Handlers, NEW p \in tickets, redeemLoginTicket(h, p) PROVE ResetType'
  <2>1. handler' = [handler EXCEPT ![h].pc = "login", ![h].password = p] /\ tickets' = tickets \ {p}
    BY <1>14 DEF redeemLoginTicket
  <2>2. [handler[h] EXCEPT !.pc = "login", !.password = p] \in Requests
    BY DEF ResetLabels
  <2>3. handler' \in [Handlers -> Requests]
    BY <2>1, <2>2
  <2>4. QED
    BY <1>14, <2>1, <2>3 DEF redeemLoginTicket
<1>15. ASSUME NEW h \in Handlers, resetFails(h) PROVE ResetType'
  BY <1>15, <1>1 DEF resetFails, finish
<1>16. CASE timePasses \/ UNCHANGED resetVars
  BY <1>16 DEF timePasses, resetVars
<1>17. QED
  BY <1>4, <1>5, <1>6, <1>7, <1>8, <1>9, <1>10, <1>11, <1>12, <1>13, <1>14, <1>15,
     <1>16
     DEF ResetNext

(* Steps that touch no link: a handler moves on, or takes the pointer.      *)
LEMMA LinksAlone ==
    ASSUME LinkInv, UNCHANGED <<token, died, contested>>, Issued(pointer'),
           \A h \in Handlers :
              \/ handler'[h].link = handler[h].link
                 /\ (handler'[h].pc = "replace" => handler[h].pc = "replace")
                 /\ (handler'[h].pc \in {"confirm", "consume"}
                       => handler[h].pc \in {"confirm", "consume"})
              \/ handler'[h].pc \notin {"replace", "confirm", "consume"}
              \/ handler'[h].pc = "replace" /\ Issued(handler'[h].link)
              \/ handler'[h].pc = "confirm" /\ handler'[h].link \in Links
                                           /\ token[handler'[h].link].live
    PROVE  LinkInv'
BY DEF LinkInv, LinkStaysDead, Issued

(* A link l dies by the hand of by; the handlers but by stay where they are *)
LEMMA LinkDies ==
    ASSUME LinkInv, ResetType, NEW l \in Links, NEW by, bury(by, l),
           token' = [token EXCEPT ![l] = Dead],
           pointer' \in {pointer, NoLink},
           \A h \in Handlers : \/ h # by /\ handler'[h] = handler[h]
                               \/ handler'[h].pc \notin {"replace", "confirm", "consume"}
    PROVE  LinkInv'
<1> USE ResetAssumption
<1>1. l \in died' /\ died \subseteq died' /\ contested \subseteq contested'
  BY DEF bury
<1>2. \A k \in Links : token'[k].live <=> (token[k].live /\ k # l)
  BY DEF ResetType, Records, Dead
<1>3. \A k \in Links : Issued(k) => Issued(k)'
  BY <1>1, <1>2 DEF Issued
<1>4. LinkStaysDead'
  <2>1. \A k \in died' \ contested' : k = l \/ k \in died \ contested
    BY <1>1 DEF bury
  <2>2. QED
    BY <2>1, <1>2, <1>1 DEF LinkInv, LinkStaysDead, bury
<1>5. ASSUME NEW h \in Handlers, handler'[h].pc \in {"confirm", "consume"}
      PROVE  handler'[h].link \in Links
             /\ (token'[handler'[h].link].live \/ handler'[h].link \in contested')
  <2>1. h # by /\ handler'[h] = handler[h]
    BY <1>5
  <2>2. handler[h].link \in Links /\ (token[handler[h].link].live \/ handler[h].link \in contested)
    BY <1>5, <2>1 DEF LinkInv
  <2>3. handler[h].link = l => l \in contested'
    BY <1>5, <2>1 DEF bury, Confirming
  <2>4. QED
    BY <1>1, <1>2, <2>1, <2>2, <2>3
<1>6. ASSUME NEW h \in Handlers, handler'[h].pc = "replace" PROVE Issued(handler[h].link)'
  BY <1>3, <1>6 DEF LinkInv, Issued
<1>7. Issued(pointer)'
  BY <1>3 DEF LinkInv, Issued
<1>8. QED
  BY <1>4, <1>5, <1>6, <1>7 DEF LinkInv

LEMMA LinkStep == ASSUME ResetType, LinkInv, [ResetNext]_resetVars PROVE LinkInv'
<1> USE DEF ResetType, Requests
<1>1. ASSUME NEW h \in Handlers,
             requestLink(h) \/ sendReset(h) \/ sendLink(h) \/ setPassword(h) \/ revokeSessions(h)
               \/ mintLoginTicket(h) \/ signIn(h) \/ signedIn(h) \/ resetFails(h)
               \/ \E p \in tickets : redeemLoginTicket(h, p)
      PROVE  LinkInv'
  <2>1. UNCHANGED <<token, died, contested, pointer>>
    BY <1>1 DEF requestLink, sendReset, sendLink, setPassword, revokeSessions, mintLoginTicket,
                signIn, signedIn, resetFails, redeemLoginTicket
  <2>2. \A k \in Handlers \ {h} : handler'[k] = handler[k]
    BY <1>1 DEF requestLink, sendReset, sendLink, setPassword, revokeSessions, mintLoginTicket,
                signIn, signedIn, resetFails, redeemLoginTicket, goto, finish
  <2>3. handler'[h].pc \notin {"replace", "confirm", "consume"}
    BY <1>1 DEF requestLink, sendReset, sendLink, setPassword, revokeSessions, mintLoginTicket,
                signIn, signedIn, resetFails, redeemLoginTicket, goto, finish, AtRest
  <2>4. QED
    BY <2>1, <2>2, <2>3, LinksAlone DEF LinkInv
<1>2. ASSUME NEW h \in Handlers, readPointer(h) PROVE LinkInv'
  <2>1. UNCHANGED <<token, died, contested, pointer>>
    BY <1>2 DEF readPointer
  <2>2. \A k \in Handlers \ {h} : handler'[k] = handler[k]
    BY <1>2 DEF readPointer
  <2>3. handler'[h].pc = "replace" /\ handler'[h].link = pointer
    BY <1>2 DEF readPointer
  <2>4. QED
    BY <2>1, <2>2, <2>3, LinksAlone DEF LinkInv
<1>3. ASSUME NEW h \in Handlers, writePassword(h) PROVE LinkInv'
  <2>1. UNCHANGED <<token, died, contested, pointer>>
    BY <1>3 DEF writePassword
  <2>2. \A k \in Handlers \ {h} : handler'[k] = handler[k]
    BY <1>3 DEF writePassword
  <2>3. handler[h].pc = "confirm" /\ handler'[h].pc = "consume" /\ handler'[h].link = handler[h].link
    BY <1>3 DEF writePassword
  <2>4. QED
    BY <2>1, <2>2, <2>3, LinksAlone DEF LinkInv
<1>4. ASSUME NEW h \in Handlers, NEW l \in Links, NEW m, confirm(h, l, m) PROVE LinkInv'
  <2>1. UNCHANGED <<token, died, contested, pointer>> /\ token[l].live
    BY <1>4 DEF confirm, Usable
  <2>2. \A k \in Handlers \ {h} : handler'[k] = handler[k]
    BY <1>4 DEF confirm
  <2>3. handler'[h].pc = "confirm" /\ handler'[h].link = l
    BY <1>4 DEF confirm, AtRest
  <2>4. QED
    BY <2>1, <2>2, <2>3, LinksAlone DEF LinkInv
<1>5. ASSUME NEW h \in Handlers, failChallenge(h) PROVE LinkInv'
  <2>1. PICK l \in Links : l = handler[h].link /\ (token[l].live \/ l \in contested)
    BY <1>5 DEF failChallenge, LinkInv
  <2>2. \A k \in Handlers \ {h} : handler'[k] = handler[k]
    BY <1>5 DEF failChallenge, finish
  <2>3. handler'[h].pc = "idle"
    BY <1>5 DEF failChallenge, finish, AtRest
  <2>4. CASE kill(h, l) /\ pointer' = NoLink
    BY <2>2, <2>3, <2>4, LinkDies DEF kill
  <2>5. CASE UNCHANGED <<pointer, died, contested>>
             /\ token' = [token EXCEPT ![l].live = TRUE, ![l].attempts = handler[h].attempts + 1]
    <3>1. \A k \in Links : token'[k].live <=> (token[k].live \/ k = l)
      BY <2>5 DEF Records
    <3>2. \A k \in Links : Issued(k) => Issued(k)'
      BY <2>5, <3>1 DEF Issued
    <3>3. l \notin died \ contested
      BY <2>1 DEF LinkInv, LinkStaysDead
    <3>4. LinkStaysDead'
      <4> SUFFICES ASSUME NEW k \in died' \ contested' PROVE ~token'[k].live
        BY DEF LinkStaysDead
      <4>1. k # l /\ ~token[k].live
        BY <2>5, <3>3 DEF LinkInv, LinkStaysDead
      <4>2. QED
        BY <4>1, <2>5, <3>1
    <3>5. Issued(pointer)'
      BY <2>5, <3>2 DEF LinkInv, Issued
    <3>6. \A k \in Handlers : handler'[k].pc = "replace" => Issued(handler[k].link)'
      BY <2>2, <2>3, <3>2 DEF LinkInv, Issued
    <3>7. \A k \in Handlers : handler'[k].pc \in {"confirm", "consume"} =>
            handler'[k].link \in Links
            /\ (token'[handler'[k].link].live \/ handler'[k].link \in contested')
      BY <2>2, <2>3, <2>5, <3>1 DEF LinkInv
    <3>8. QED
      BY <3>4, <3>5, <3>6, <3>7 DEF LinkInv
  <2>6. QED
    BY <1>5, <2>1, <2>4, <2>5 DEF failChallenge
<1>6. ASSUME NEW h \in Handlers, consumeResetToken(h) PROVE LinkInv'
  <2>1. PICK l \in Links : l = handler[h].link
    BY <1>6 DEF consumeResetToken, LinkInv
  <2>2. \A k \in Handlers \ {h} : handler'[k] = handler[k]
    BY <1>6 DEF consumeResetToken, goto
  <2>3. handler'[h].pc = "revoke"
    BY <1>6 DEF consumeResetToken, goto
  <2>4. QED
    BY <1>6, <2>1, <2>2, <2>3, LinkDies DEF consumeResetToken, kill
<1>7. ASSUME NEW l \in Links, linkExpires(l) PROVE LinkInv'
  <2>1. bury(NoLink, l) /\ token' = [token EXCEPT ![l] = Dead] /\ pointer' \in {pointer, NoLink}
    BY <1>7 DEF linkExpires, kill
  <2>2. \A h \in Handlers : h # NoLink /\ handler'[h] = handler[h]
    BY <1>7, ResetAssumption DEF linkExpires
  <2>3. QED
    BY <2>1, <2>2, LinkDies
<1>8. ASSUME NEW h \in Handlers, NEW l \in Links, issueResetToken(h, l) PROVE LinkInv'
  <2>1. PICK o \in Links \cup {NoLink} : o = handler[h].link
    OBVIOUS
  <2>2. o # l /\ ~token[l].live /\ l \notin died
    BY <1>8, <2>1 DEF issueResetToken, LinkInv, Issued
  <2>3. \A k \in Links : token'[k].live <=> k = l \/ (k # o /\ token[k].live)
    BY <1>8, <2>1 DEF issueResetToken, Dead, Records
  <2>4. died' = died \cup ({o} \ {NoLink}) /\ contested \subseteq contested'
    BY <1>8, <2>1 DEF issueResetToken, bury
  <2>5. \A k \in Links : Issued(k) => Issued(k)'
    BY <2>3, <2>4, ResetAssumption DEF Issued
  <2>6. LinkStaysDead'
    <3> SUFFICES ASSUME NEW k \in died' \ contested' PROVE ~token'[k].live
      BY DEF LinkStaysDead
    <3>1. k # l
      BY <2>2, <2>4
    <3>2. k = o \/ ~token[k].live
      BY <2>4 DEF LinkInv, LinkStaysDead
    <3>3. k \in Links
      BY <2>1, <2>4
    <3>4. QED
      BY <2>3, <3>1, <3>2, <3>3
  <2>7. \A k \in Handlers \ {h} : handler'[k] = handler[k]
    BY <1>8 DEF issueResetToken
  <2>8. handler'[h].pc = "send"
    BY <1>8 DEF issueResetToken
  <2>9. Issued(pointer)'
    BY <1>8, <2>3 DEF issueResetToken, Issued
  <2>10. \A k \in Handlers : handler'[k].pc = "replace" => Issued(handler[k].link)'
    BY <2>5, <2>7, <2>8 DEF LinkInv, Issued
  <2>11. ASSUME NEW k \in Handlers, handler'[k].pc \in {"confirm", "consume"}
         PROVE  handler'[k].link \in Links
                /\ (token'[handler'[k].link].live \/ handler'[k].link \in contested')
    <3>1. k # h /\ handler'[k] = handler[k]
      BY <2>7, <2>8, <2>11
    <3>2. handler[k].link \in Links /\ (token[handler[k].link].live \/ handler[k].link \in contested)
      BY <2>11, <3>1 DEF LinkInv
    <3>3. handler[k].link = o => o \in contested'
      BY <1>8, <2>1, <2>11, <3>1 DEF issueResetToken, bury, Confirming
    <3>4. QED
      BY <2>3, <2>4, <3>1, <3>2, <3>3
  <2>12. QED
    BY <2>6, <2>9, <2>10, <2>11 DEF LinkInv
<1>9. CASE (\E l \in Links : passkeyOptions(l)) \/ timePasses \/ UNCHANGED resetVars
  <2>1. UNCHANGED <<token, died, contested, pointer, handler>>
    BY <1>9 DEF passkeyOptions, timePasses, resetVars
  <2>2. QED
    BY <2>1, LinksAlone DEF LinkInv
<1>10. QED
  BY <1>1, <1>2, <1>3, <1>4, <1>5, <1>6, <1>7, <1>8, <1>9 DEF ResetNext

(* Steps that end no sessions add only what rests on the password in force,  *)
(* or leave a handler that has yet to end the sessions.                      *)
LEMMA PasswordStep == ASSUME ResetType, PasswordInv, [ResetNext]_resetVars PROVE PasswordInv'
<1> USE DEF ResetType, Requests
<1>1. ASSUME NEW h \in Handlers, writePassword(h) \/ setPassword(h) \/ consumeResetToken(h)
      PROVE  PasswordInv'
  <2>1. handler'[h].pc \in {"consume", "revoke"}
    BY <1>1 DEF writePassword, setPassword, consumeResetToken, goto
  <2>2. QED
    BY <2>1 DEF PasswordInv
<1>2. ASSUME NEW h \in Handlers, revokeSessions(h) PROVE PasswordInv'
  <2>1. UNCHANGED <<password, tickets>> /\ opened' = {}
        /\ inFlight' = inFlight \cup ((tickets \cup {handler[k].password : k \in SigningIn})
                                         \ {password})
    BY <1>2 DEF revokeSessions, SessionsLeft
  <2>2. \A k \in Handlers \ {h} : handler'[k] = handler[k]
    BY <1>2 DEF revokeSessions, finish, goto
  <2>3. handler[h].pc = "revoke" /\ (handler'[h].pc = "idle" \/ handler'[h].password = handler[h].password)
    BY <1>2 DEF revokeSessions, finish, goto, AtRest
  <2>4. \A k \in SigningIn' : k \in SigningIn /\ handler'[k].password = handler[k].password
    BY <2>2, <2>3 DEF SigningIn
  <2>5. Resting' \subseteq {password'} \cup inFlight'
    BY <2>1, <2>4 DEF Resting
  <2>6. QED
    BY <2>5 DEF PasswordInv
<1>3. ASSUME UNCHANGED <<password, inFlight, unended>>,
             \A h \in Handlers : handler[h].pc \in {"consume", "revoke"} => handler'[h] = handler[h],
             Resting' \subseteq Resting \cup {password}
      PROVE  PasswordInv'
  BY <1>3 DEF PasswordInv
<1>4. ASSUME NEW h \in Handlers, mintLoginTicket(h) \/ signedIn(h) PROVE PasswordInv'
  <2>1. UNCHANGED <<password, inFlight, unended>>
    BY <1>4 DEF mintLoginTicket, signedIn
  <2>2. \A k \in Handlers \ {h} : handler'[k] = handler[k]
    BY <1>4 DEF mintLoginTicket, signedIn, finish
  <2>3. handler[h].pc \in {"ticket", "login"} /\ handler'[h].pc = "idle"
    BY <1>4 DEF mintLoginTicket, signedIn, finish, AtRest
  <2>4. h \in SigningIn /\ SigningIn' \subseteq SigningIn \ {h}
    BY <2>2, <2>3 DEF SigningIn
  <2>5. opened' \cup tickets' \subseteq opened \cup tickets \cup {handler[h].password}
    BY <1>4 DEF mintLoginTicket, signedIn
  <2>6. Resting' \subseteq Resting
    BY <2>2, <2>4, <2>5 DEF Resting, SigningIn
  <2>7. QED
    BY <1>3, <2>1, <2>2, <2>3, <2>6
<1>5. ASSUME NEW h \in Handlers, signIn(h) PROVE PasswordInv'
  <2>1. UNCHANGED <<password, inFlight, unended, opened, tickets>>
    BY <1>5 DEF signIn
  <2>2. \A k \in Handlers \ {h} : handler'[k] = handler[k]
    BY <1>5 DEF signIn
  <2>3. handler[h].pc = "idle" /\ handler'[h].password = password
    BY <1>5 DEF signIn
  <2>4. SigningIn' \subseteq SigningIn \cup {h}
    BY <2>2 DEF SigningIn
  <2>5. Resting' \subseteq Resting \cup {password}
    BY <2>1, <2>2, <2>3, <2>4 DEF Resting, SigningIn
  <2>6. QED
    BY <1>3, <2>1, <2>2, <2>3, <2>5
<1>6. ASSUME NEW h \in Handlers, NEW l \in Links, NEW m,
             issueResetToken(h, l) \/ confirm(h, l, m)
      PROVE  PasswordInv'
  <2>1. UNCHANGED <<password, inFlight, unended, opened, tickets>>
    BY <1>6 DEF issueResetToken, confirm
  <2>2. \A k \in Handlers \ {h} : handler'[k] = handler[k]
    BY <1>6 DEF issueResetToken, confirm
  <2>3. handler[h].pc \notin {"consume", "revoke"}
        /\ handler'[h].pc \notin {"consume", "revoke", "ticket", "login"}
    <3>1. CASE issueResetToken(h, l)
      BY <3>1 DEF issueResetToken
    <3>2. CASE confirm(h, l, m)
      BY <3>2 DEF confirm, AtRest
    <3>3. QED
      BY <1>6, <3>1, <3>2
  <2>4. SigningIn' \subseteq SigningIn \ {h}
    BY <2>2, <2>3 DEF SigningIn
  <2>5. Resting' \subseteq Resting
    BY <2>1, <2>2, <2>4 DEF Resting, SigningIn
  <2>6. QED
    BY <1>3, <2>1, <2>2, <2>3, <2>5
<1>7. CASE (\E l \in Links : passkeyOptions(l) \/ linkExpires(l)) \/ timePasses \/ UNCHANGED resetVars
  <2>1. UNCHANGED <<password, inFlight, unended, handler>> /\ opened' \cup tickets' \subseteq opened \cup tickets
    BY <1>7 DEF passkeyOptions, linkExpires, timePasses, resetVars
  <2>2. Resting' \subseteq Resting
    BY <2>1 DEF Resting, SigningIn
  <2>3. QED
    BY <1>3, <2>1, <2>2
<1>8. ASSUME NEW h \in Handlers,
             requestLink(h) \/ sendReset(h) \/ readPointer(h) \/ sendLink(h) \/ failChallenge(h)
      PROVE  PasswordInv'
  <2>1. UNCHANGED <<password, inFlight, unended, opened, tickets>>
    BY <1>8 DEF requestLink, sendReset, readPointer, sendLink, failChallenge
  <2>2. \A k \in Handlers \ {h} : handler'[k] = handler[k]
    BY <1>8 DEF requestLink, sendReset, readPointer, sendLink, failChallenge, goto, finish
  <2>3. handler[h].pc \notin {"consume", "revoke"}
        /\ handler'[h].pc \notin {"consume", "revoke", "ticket", "login"}
    BY <1>8 DEF requestLink, sendReset, readPointer, sendLink, failChallenge, goto, finish, AtRest
  <2>4. SigningIn' \subseteq SigningIn \ {h}
    BY <2>2, <2>3 DEF SigningIn
  <2>5. Resting' \subseteq Resting
    BY <2>1, <2>2, <2>4 DEF Resting, SigningIn
  <2>6. QED
    BY <1>3, <2>1, <2>2, <2>3, <2>5
<1>9. ASSUME NEW h \in Handlers, NEW p \in tickets, redeemLoginTicket(h, p) PROVE PasswordInv'
  <2>1. UNCHANGED <<password, inFlight, unended, opened>> /\ tickets' \subseteq tickets
    BY <1>9 DEF redeemLoginTicket
  <2>2. \A k \in Handlers \ {h} : handler'[k] = handler[k]
    BY <1>9 DEF redeemLoginTicket
  <2>3. handler[h].pc = "idle" /\ handler'[h].password = p
    BY <1>9 DEF redeemLoginTicket
  <2>4. SigningIn' \subseteq SigningIn \cup {h}
    BY <2>2 DEF SigningIn
  <2>5. Resting' \subseteq Resting
    BY <2>1, <2>2, <2>3, <2>4 DEF Resting, SigningIn
  <2>6. QED
    BY <1>3, <2>1, <2>2, <2>3, <2>5
<1>10. ASSUME NEW h \in Handlers, resetFails(h) PROVE PasswordInv'
  <2>1. CASE Halfway(h)
    BY <1>10, <2>1 DEF resetFails, PasswordInv
  <2>2. CASE ~Halfway(h)
    <3>1. UNCHANGED <<password, inFlight, opened, tickets>> /\ (unended' <=> unended)
      BY <1>10, <2>2 DEF resetFails
    <3>2. \A k \in Handlers \ {h} : handler'[k] = handler[k]
      BY <1>10 DEF resetFails, finish
    <3>3. handler[h].pc \notin {"consume", "revoke"} /\ handler'[h].pc = "idle"
      BY <1>10, <2>2 DEF resetFails, Halfway, finish, AtRest
    <3>4. SigningIn' \subseteq SigningIn
      BY <3>2, <3>3 DEF SigningIn
    <3>5. Resting' \subseteq Resting
      BY <3>1, <3>2, <3>3, <3>4 DEF Resting, SigningIn
    <3>6. QED
      BY <3>1, <3>2, <3>3, <3>5 DEF PasswordInv
  <2>3. QED
    BY <2>1, <2>2
<1>11. QED
  BY <1>1, <1>2, <1>4, <1>5, <1>6, <1>7, <1>8, <1>9, <1>10 DEF ResetNext

(* The invariant of the password reset.                                    *)
LEMMA ResetAlways == ResetSpec => []ResetInv
<1>1. ResetInv /\ [ResetNext]_resetVars => ResetInv'
  BY ResetTypeStep, LinkStep, PasswordStep DEF ResetInv
<1>2. QED
  BY <1>1, ResetStart, PTL DEF ResetSpec

(* A reset link that was used, replaced, burned or expired never works      *)
(* again, unless a confirmation of it was under way when it died            *)
(* (passwordReset.ts, bumpResetAttempts).                                   *)
THEOREM LinkAlwaysStaysDead == ResetSpec => []LinkStaysDead
<1>1. ResetInv => LinkStaysDead
  BY DEF ResetInv, LinkInv
<1>2. QED
  BY <1>1, ResetAlways, PTL

(* Unless a request is between the new password and the end of the          *)
(* sessions, or has stopped there, what is signed in rests on the password  *)
(* in force or was under way while sessions were ended (routes/reset.ts,    *)
(* DELETE FROM sessions).                                                   *)
THEOREM OldPasswordAlwaysOut == ResetSpec => []OldPasswordOut
<1>1. ResetInv => OldPasswordOut
  BY DEF ResetInv, PasswordInv, OldPasswordOut, Halfway, Resting
<1>2. QED
  BY <1>1, ResetAlways, PTL

-----------------------------------------------------------------------------
(* Registration, with and without invitations, beside changes of address.   *)

AccountNext == ChangeNext \/ (RegistrationNext(Held, Invites \cup {Nil}) /\ UNCHANGED changeVars)

\* founders: the accounts there are at the start.  n: the requests to come.
AccountSpec(founders, n) ==
    /\ RegistrationInit(founders, n) /\ ChangeInit
    /\ [][AccountNext]_<<registrationVars, changeVars>>

\* Requests that will yet add a use to invitation c, by the count they read.
Uses(c) == {j \in Jobs : job[j].pc = "claim" /\ job[j].code = c /\ job[j].uses < MaxUses}

\* Completions of a registration with invitation c.
Completing(c) == {j \in Jobs : job[j].pc \in {"insert", "consume"} /\ job[j].code = c}

Fields == {"pc", "email", "code", "uses", "holder", "read", "kind", "found"}
IsJob(r) == r = [x \in Fields |-> r[x]]

\* What the pages of a registration rely on in their request.
JobOK(r) ==
    /\ IsJob(r)
    /\ r.code \in Invites \cup {Nil} /\ r.uses \in Nat
    /\ r.pc \in {"claim", "issue", "write", "send"} => r.email \in Addresses
    /\ r.pc = "claim" => r.code \in Invites
    /\ r.pc = "write" => r.read \in Pendings

InviteRows == [state : {"live", "voided", "expired", "used", "deleted"}, uses : Nat,
               pending : Addresses \cup {Nil}]

\* The types the invariants below need.
AccountType ==
    /\ invite \in [Invites -> InviteRows]
    /\ pending \in [Addresses -> Pendings]
    /\ linkOf \in [Members -> VerifyLinks \cup {Nil}]
    /\ bornOf \in [Members -> Invites \cup {Nil}]
    /\ job = [j \in Jobs |-> job[j]]
    /\ \A j \in Jobs : JobOK(job[j])

\* The uses in the row and those on their way stay within the bound.
UseInv ==
    \A c \in Invites : invite[c].uses + Cardinality(Uses(c)) <= MaxUses + Cardinality(Jobs) - 1

\* An invitation that is not loosened has one completion at most; once it has made an account,
\* none is about to make another, and it is closed or about to be.
BornOf(c) == {u \in Members : bornOf[u] = c}
BirthOf(c) ==
    /\ \A j, k \in Completing(c) : j = k
    /\ \A u, v \in BornOf(c) : u = v
    /\ BornOf(c) # {} => /\ \A j \in Completing(c) : job[j].pc = "consume"
                         /\ Completing(c) # {} \/ ~Open(c)
BirthInv == \A c \in Invites \ loosened : BirthOf(c)

\* An address that was never contested: one request claims it at most, a change that can be
\* redeemed holds it, and whoever claims it has found the other family's key absent.
HoldOf(e) ==
    /\ ~(pending[e].held /\ heldBy[e] # Nil)
    /\ e \notin Loose
    /\ \A j, k \in Claiming(e) : j = k
    /\ \A j \in Claiming(e) :
         /\ job[j].pc \in {"claim", "issue", "write"} => heldBy[e] = Nil
         /\ job[j].pc \in {"chgRead", "chgWrite"} /\ job[j].kind = "change" => ~pending[e].held
HoldInv == \A e \in Addresses \ overlapped : HoldOf(e)

AccountInv == AccountType /\ UseInv /\ BirthInv /\ HoldInv

LEMMA AccountStart ==
    ASSUME NEW founders, NEW n, RegistrationInit(founders, n), ChangeInit PROVE AccountInv
<1> USE RegistrationAssumption
<1>1. \A j \in Jobs : job[j] = NoJob
  BY DEF RegistrationInit
<1>2. IsJob(NoJob) /\ NoJob.pc = "idle" /\ NoJob.code = Nil /\ NoJob.uses = 0
  BY DEF NoJob, IsJob, Fields
<1>3. JobOK(NoJob)
  BY <1>2 DEF JobOK
<1>4. AccountType
  BY <1>1, <1>3 DEF AccountType, RegistrationInit, ChangeInit, InviteRows, Pendings, Vacant
<1>5. UseInv
  <2> SUFFICES ASSUME NEW c \in Invites
               PROVE  invite[c].uses + Cardinality(Uses(c)) <= MaxUses + Cardinality(Jobs) - 1
    BY DEF UseInv
  <2>1. Uses(c) = {} /\ invite[c].uses = 0
    BY <1>1, <1>2 DEF Uses, RegistrationInit
  <2>2. Cardinality({}) = 0 /\ Cardinality(Jobs) \in Nat
    BY FS_EmptySet, FS_CardinalityType
  <2>3. QED
    BY <2>1, <2>2
<1>6. BirthInv
  BY <1>1, <1>2 DEF BirthInv, BirthOf, BornOf, Completing, RegistrationInit
<1>7. HoldInv
  BY <1>1, <1>2 DEF HoldInv, HoldOf, Claiming, Loose, RegistrationInit, ChangeInit, Gone, Vacant
<1>8. QED
  BY <1>4, <1>5, <1>6, <1>7 DEF AccountInv

(* What changing one request does to the others, and to its own fields.    *)
LEMMA JobChanges ==
    ASSUME AccountType, NEW j \in Jobs, NEW r, job' = [job EXCEPT ![j] = r]
    PROVE  /\ job' = [k \in Jobs |-> job'[k]]
           /\ job'[j] = r
           /\ \A k \in Jobs \ {j} : job'[k] = job[k]
BY DEF AccountType

LEMMA JobMoves ==
    ASSUME AccountType, NEW j \in Jobs, NEW pc, step(j, pc)
    PROVE  /\ job' = [k \in Jobs |-> job'[k]]
           /\ \A k \in Jobs \ {j} : job'[k] = job[k]
           /\ IsJob(job'[j]) /\ job'[j].pc = pc
           /\ \A x \in Fields \ {"pc"} : job'[j][x] = job[j][x]
<1> DEFINE r == [job[j] EXCEPT !.pc = pc]
<1>1. job' = [job EXCEPT ![j] = r]
  BY DEF step
<1>2. IsJob(job[j])
  BY DEF AccountType, JobOK
<1>3. IsJob(r) /\ r.pc = pc /\ \A x \in Fields \ {"pc"} : r[x] = job[j][x]
  BY <1>2 DEF IsJob, Fields
<1> HIDE DEF r
<1>4. QED
  BY <1>1, <1>3, JobChanges

LEMMA JobEnds ==
    ASSUME AccountType, NEW j \in Jobs, done(j)
    PROVE  /\ job' = [k \in Jobs |-> job'[k]]
           /\ \A k \in Jobs \ {j} : job'[k] = job[k]
           /\ job'[j] = NoJob
BY JobChanges DEF done

LEMMA NoJobOK == JobOK(NoJob) /\ NoJob.pc = "idle"
<1>1. IsJob(NoJob) /\ NoJob.pc = "idle" /\ NoJob.code = Nil /\ NoJob.uses = 0
  BY DEF NoJob, IsJob, Fields
<1>2. QED
  BY <1>1 DEF JobOK

RegistrationSteps == {"claim", "issue", "write", "send", "insert", "consume"}

(* The steps of a change of address leave registrations alone.             *)
LEMMA ChangeLeaves ==
    ASSUME AccountType, ChangeNext
    PROVE  /\ UNCHANGED <<invite, pending, bornOf, loosened>>
           /\ linkOf' \in [Members -> VerifyLinks \cup {Nil}]
           /\ job' = [k \in Jobs |-> job'[k]]
           /\ \A k \in Jobs : \/ job'[k] = job[k]
                              \/ /\ JobOK(job'[k])
                                 /\ job[k].pc \notin RegistrationSteps
                                 /\ job'[k].pc \notin RegistrationSteps
<1> DEFINE Quiet(r) == JobOK(r) /\ r.pc \notin RegistrationSteps
           Goal == /\ UNCHANGED <<invite, pending, bornOf, loosened>>
                   /\ linkOf' \in [Members -> VerifyLinks \cup {Nil}]
                   /\ job' = [k \in Jobs |-> job'[k]]
                   /\ \A k \in Jobs : \/ job'[k] = job[k]
                                      \/ Quiet(job'[k]) /\ job[k].pc \notin RegistrationSteps
<1>0. Quiet(NoJob)
  BY NoJobOK DEF RegistrationSteps
<1>1. ASSUME NEW j \in Jobs, readChange(j) PROVE Goal
  <2>1. PICK v, rd : job' = [job EXCEPT ![j].pc = "chgWrite", ![j].found = v, ![j].read = rd]
    BY <1>1 DEF readChange
  <2> DEFINE r == [job[j] EXCEPT !.pc = "chgWrite", !.found = v, !.read = rd]
  <2>2. JobOK(job[j]) /\ job[j].pc = "chgRead"
    BY <1>1 DEF readChange, AccountType
  <2>3. IsJob(r) /\ r.pc = "chgWrite" /\ r.code = job[j].code /\ r.uses = job[j].uses
    BY <2>2 DEF JobOK, IsJob, Fields
  <2>4. Quiet(r)
    BY <2>2, <2>3 DEF JobOK, RegistrationSteps
  <2>5. job' = [job EXCEPT ![j] = r]
    BY <2>1
  <2> HIDE DEF r
  <2>6. UNCHANGED <<invite, pending, bornOf, loosened, linkOf>>
    BY <1>1 DEF readChange, changeVars
  <2>7. QED
    BY <2>2, <2>4, <2>5, <2>6, JobChanges DEF AccountType, RegistrationSteps
<1>2. ASSUME NEW j \in Jobs, sendChange(j) \/ commitChange(j) \/ assignEmail(j) PROVE Goal
  <2>1. done(j) /\ job[j].pc \notin RegistrationSteps
    BY <1>2 DEF sendChange, commitChange, assignEmail, RegistrationSteps
  <2>2. UNCHANGED <<invite, pending, bornOf, loosened, linkOf>>
    BY <1>2 DEF sendChange, commitChange, assignEmail
  <2>3. QED
    BY <1>0, <2>1, <2>2, JobEnds DEF AccountType
<1>3. ASSUME NEW j \in Jobs, NEW v \in VerifyLinks, issueEmailChange(j, v) PROVE Goal
  <2> DEFINE r == [job[j] EXCEPT !.pc = "chgSend", !.found = v]
  <2>1. JobOK(job[j]) /\ job[j].pc = "chgWrite"
    BY <1>3 DEF issueEmailChange, AccountType
  <2>2. IsJob(r) /\ r.pc = "chgSend" /\ r.code = job[j].code /\ r.uses = job[j].uses
    BY <2>1 DEF JobOK, IsJob, Fields
  <2>3. Quiet(r)
    BY <2>1, <2>2 DEF JobOK, RegistrationSteps
  <2>4. job' = [job EXCEPT ![j] = r]
    BY <1>3 DEF issueEmailChange
  <2> HIDE DEF r
  <2>5. UNCHANGED <<invite, pending, bornOf, loosened>>
    BY <1>3 DEF issueEmailChange
  <2>6. PICK u : linkOf' = linkOf \/ linkOf' = [linkOf EXCEPT ![u] = v]
    BY <1>3 DEF issueEmailChange
  <2>7. linkOf' \in [Members -> VerifyLinks \cup {Nil}]
    BY <2>6 DEF AccountType
  <2>8. QED
    BY <2>1, <2>3, <2>4, <2>5, <2>7, JobChanges DEF RegistrationSteps
<1>4. ASSUME NEW j \in Jobs, NEW v \in VerifyLinks, redeemEmailChange(j, v) PROVE Goal
  <2> DEFINE r == [NoJob EXCEPT !.pc = "chgCommit", !.read = link[v]]
  <2>1. job[j].pc = "idle" /\ job' = [job EXCEPT ![j] = r]
    BY <1>4 DEF redeemEmailChange, Ready
  <2>2. Quiet(r)
    <3>1. IsJob(r) /\ r.pc = "chgCommit" /\ r.code = Nil /\ r.uses = 0
      BY DEF NoJob, IsJob, Fields
    <3>2. QED
      BY <3>1 DEF JobOK, RegistrationSteps
  <2> HIDE DEF r
  <2>3. UNCHANGED <<invite, pending, bornOf, loosened>>
    BY <1>4 DEF redeemEmailChange
  <2>4. linkOf' = [linkOf EXCEPT ![link[v].member] = Nil]
    BY <1>4 DEF redeemEmailChange
  <2>5. linkOf' \in [Members -> VerifyLinks \cup {Nil}]
    BY <2>4 DEF AccountType
  <2>6. QED
    BY <2>1, <2>2, <2>3, <2>5, JobChanges DEF RegistrationSteps
<1>5. ASSUME NEW j \in Jobs, NEW u \in Members,
             \/ resendChange(j, u) \/ verifySend(j, u)
             \/ \E e \in Addresses : emailChangeStart(j, u, e) \/ editEmail(j, u, e)
      PROVE  Goal
  <2>1. PICK r : Quiet(r) /\ job' = [job EXCEPT ![j] = r]
    <3>1. ASSUME NEW kind, NEW a PROVE Quiet(change(u, kind, a))
      <4> DEFINE r == change(u, kind, a)
      <4>1. IsJob(r) /\ r.pc = "chgRead" /\ r.code = Nil /\ r.uses = 0
        BY DEF change, NoJob, IsJob, Fields
      <4> HIDE DEF r
      <4>2. Quiet(r)
        BY <4>1 DEF JobOK, RegistrationSteps
      <4>3. QED
        BY <4>2 DEF r
    <3>2. ASSUME NEW a PROVE Quiet([NoJob EXCEPT !.pc = "assign", !.email = a, !.holder = u])
      <4> DEFINE r == [NoJob EXCEPT !.pc = "assign", !.email = a, !.holder = u]
      <4>1. IsJob(r) /\ r.pc = "assign" /\ r.code = Nil /\ r.uses = 0
        BY DEF NoJob, IsJob, Fields
      <4> HIDE DEF r
      <4>2. Quiet(r)
        BY <4>1 DEF JobOK, RegistrationSteps
      <4>3. QED
        BY <4>2 DEF r
    <3> HIDE DEF Quiet
    <3>3. QED
      BY <1>5, <3>1, <3>2 DEF resendChange, verifySend, emailChangeStart, editEmail, enter
  <2>2. job[j].pc = "idle"
    BY <1>5 DEF resendChange, verifySend, emailChangeStart, editEmail, Ready
  <2>3. UNCHANGED <<invite, pending, bornOf, loosened, linkOf>>
    BY <1>5 DEF resendChange, verifySend, emailChangeStart, editEmail, changeVars
  <2>4. QED
    BY <2>1, <2>2, <2>3, JobChanges DEF RegistrationSteps, AccountType
<1>6. ASSUME NEW u \in Members, cancelEmailChange(u) PROVE Goal
  BY <1>6 DEF cancelEmailChange, AccountType
<1>7. ASSUME NEW v \in VerifyLinks, changeTime(v) PROVE Goal
  <2>1. UNCHANGED <<invite, pending, bornOf, loosened, job>>
    BY <1>7 DEF changeTime
  <2>2. PICK u : linkOf' = linkOf \/ linkOf' = [linkOf EXCEPT ![u] = IF @ = v THEN Nil ELSE @]
    BY <1>7 DEF changeTime
  <2>3. linkOf' \in [Members -> VerifyLinks \cup {Nil}]
    BY <2>2 DEF AccountType
  <2>4. QED
    BY <2>1, <2>3 DEF AccountType
<1>8. Goal
  <2> HIDE DEF Goal
  <2>1. QED
    BY <1>1, <1>2, <1>3, <1>4, <1>5, <1>6, <1>7 DEF ChangeNext
<1>9. QED
  BY <1>8

InvitesInv == UseInv /\ BirthInv

(* What invitation c has made stays as it was, and c is not opened again.  *)
LEMMA BirthKept ==
    ASSUME NEW c, BirthOf(c), bornOf' = bornOf, Completing(c)' = Completing(c),
           \A j \in Completing(c) : job'[j].pc = job[j].pc,
           invite'[c].state \in {"live", "expired"} => Open(c)
    PROVE  BirthOf(c)'
<1>1. BornOf(c)' = BornOf(c)
  BY DEF BornOf
<1>2. Open(c)' => Open(c)
  BY DEF Open
<1>3. QED
  BY <1>1, <1>2 DEF BirthOf

(* Steps that concern no claim and no completion of an invitation.         *)
LEMMA InvitesAlone ==
    ASSUME InvitesInv, UNCHANGED <<bornOf, loosened>>,
           \A c \in Invites : invite'[c].uses = invite[c].uses,
           \A c \in Invites : invite'[c].state \in {"live", "expired"} => Open(c),
           \A k \in Jobs : \/ job'[k] = job[k]
                           \/ /\ job[k].pc \notin {"claim", "insert", "consume"}
                              /\ job'[k].pc \notin {"claim", "insert", "consume"}
    PROVE  InvitesInv'
<1>1. ASSUME NEW c \in Invites
      PROVE  Uses(c)' = Uses(c) /\ Completing(c)' = Completing(c)
             /\ \A j \in Completing(c) : job'[j].pc = job[j].pc
  BY DEF Uses, Completing
<1>2. UseInv'
  <2>1. ASSUME NEW c \in Invites
        PROVE  invite'[c].uses + Cardinality(Uses(c)') <= MaxUses + Cardinality(Jobs) - 1
    <3>1. Uses(c)' = Uses(c)
      BY <1>1
    <3>2. invite'[c].uses = invite[c].uses
      OBVIOUS
    <3>3. invite[c].uses + Cardinality(Uses(c)) <= MaxUses + Cardinality(Jobs) - 1
      BY DEF InvitesInv, UseInv
    <3>4. QED
      BY <3>1, <3>2, <3>3
  <2>2. QED
    BY <2>1 DEF UseInv
<1>3. BirthInv'
  <2>1. ASSUME NEW c \in Invites \ loosened PROVE BirthOf(c)'
    <3>1. Completing(c)' = Completing(c) /\ \A j \in Completing(c) : job'[j].pc = job[j].pc
      BY <1>1
    <3>2. BirthOf(c)
      BY DEF InvitesInv, BirthInv
    <3>3. invite'[c].state \in {"live", "expired"} => Open(c)
      OBVIOUS
    <3>4. bornOf' = bornOf
      OBVIOUS
    <3>5. QED
      BY <3>1, <3>2, <3>3, <3>4, BirthKept
  <2>2. QED
    BY <2>1 DEF BirthInv
<1>4. QED
  BY <1>2, <1>3 DEF InvitesInv

(* A count of uses on their way, over the finite set of requests.          *)
LEMMA UsesCounted ==
    ASSUME NEW S \in SUBSET Jobs, NEW T \in SUBSET Jobs
    PROVE  /\ Cardinality(S) \in Nat /\ Cardinality(T) \in Nat /\ Cardinality(Jobs) \in Nat
           /\ S \subseteq T => Cardinality(S) <= Cardinality(T)
           /\ \A j \in T : S = T \ {j} => Cardinality(S) + 1 = Cardinality(T)
           /\ \A j \in Jobs \ S : Cardinality(S) <= Cardinality(Jobs) - 1
<1>1. IsFiniteSet(Jobs) /\ IsFiniteSet(S) /\ IsFiniteSet(T)
  BY RegistrationAssumption, FS_Subset
<1>2. Cardinality(S) \in Nat /\ Cardinality(T) \in Nat /\ Cardinality(Jobs) \in Nat
  BY <1>1, FS_CardinalityType
<1>3. S \subseteq T => Cardinality(S) <= Cardinality(T)
  BY <1>1, FS_Subset
<1>4. ASSUME NEW j \in T, S = T \ {j} PROVE Cardinality(S) + 1 = Cardinality(T)
  BY <1>1, <1>2, <1>4, FS_RemoveElement
<1>5. ASSUME NEW j \in Jobs \ S PROVE Cardinality(S) <= Cardinality(Jobs) - 1
  <2>1. S \subseteq Jobs \ {j} /\ IsFiniteSet(Jobs \ {j})
    BY <1>1, FS_RemoveElement
  <2>2. Cardinality(Jobs \ {j}) = Cardinality(Jobs) - 1
    BY <1>1, FS_RemoveElement
  <2>3. Cardinality(S) <= Cardinality(Jobs \ {j})
    BY <2>1, FS_Subset
  <2>4. QED
    BY <2>2, <2>3
<1>6. QED
  BY <1>2, <1>3, <1>4, <1>5

(* claimInviteUse: the use on its way becomes a use in the row, or is not.  *)
LEMMA ClaimStep ==
    ASSUME AccountType, InvitesInv, NEW j \in Jobs, claimInviteUse(j), UNCHANGED linkOf
    PROVE  AccountType' /\ InvitesInv'
<1> USE RegistrationAssumption
<1>1. PICK c \in Invites, e \in Addresses :
        /\ c = job[j].code /\ e = job[j].email /\ job[j].pc = "claim" /\ job[j].uses \in Nat
        /\ JobOK(job[j])
  BY DEF claimInviteUse, AccountType, JobOK
<1>2. /\ job' = [k \in Jobs |-> job'[k]]
      /\ \A k \in Jobs \ {j} : job'[k] = job[k]
      /\ JobOK(job'[j]) /\ job'[j].pc \in {"issue", "idle"}
  <2>1. CASE step(j, "issue")
    BY <1>1, <2>1, JobMoves DEF JobOK, Fields
  <2>2. CASE done(j)
    BY <2>2, JobEnds, NoJobOK
  <2>3. QED
    BY <2>1, <2>2 DEF claimInviteUse
<1>3. pending' \in [Addresses -> Pendings]
  <2>1. Vacant \in Pendings
    BY DEF Vacant, Pendings
  <2>2. \A a : without(a) \in [Addresses -> Pendings]
    BY <2>1 DEF without, AccountType
  <2>3. QED
    BY <2>2 DEF claimInviteUse, AccountType
<1>4. PICK n \in {0, 1} :
        /\ invite' \in [Invites -> InviteRows]
        /\ \A b \in Invites \ {c} : invite'[b] = invite[b]
        /\ invite'[c].uses = invite[c].uses + n
        /\ invite'[c].state \in {"live", "expired"} => Open(c)
        /\ n = 1 => job[j].uses < MaxUses
  <2>0. invite \in [Invites -> InviteRows] /\ invite[c].uses \in Nat
    BY DEF AccountType, InviteRows
  <2>1. CASE invite' = invite
    BY <2>0, <2>1 DEF Open
  <2>2. CASE invite' = voided(c)
    <3>1. [invite[c] EXCEPT !.state = "voided", !.pending = Nil] \in InviteRows
      BY <2>0 DEF InviteRows
    <3>2. [invite[c] EXCEPT !.state = "voided", !.pending = Nil].uses = invite[c].uses
      BY <2>0 DEF InviteRows
    <3>3. QED
      BY <2>0, <2>2, <3>1, <3>2, <2>1 DEF voided, Open
  <2>3. CASE invite' = [invite EXCEPT ![c].uses = @ + 1, ![c].pending = e] /\ ~Exhausted(job[j].uses)
    <3> DEFINE r == [invite[c] EXCEPT !.uses = invite[c].uses + 1, !.pending = e]
    <3>0. invite[c].uses + 1 \in Nat /\ e \in Addresses /\ invite[c] \in InviteRows
      BY <1>1, <2>0
    <3>1. r \in InviteRows /\ r.uses = invite[c].uses + 1 /\ r.state = invite[c].state
      BY <3>0 DEF InviteRows
    <3>2. invite' = [invite EXCEPT ![c] = r]
      BY <2>3
    <3> HIDE DEF r
    <3>3. job[j].uses < MaxUses
      BY <1>1, <2>3 DEF Exhausted
    <3>4. QED
      BY <2>0, <3>1, <3>2, <3>3 DEF Open
  <2>4. QED
    BY <1>1, <2>1, <2>2, <2>3 DEF claimInviteUse
<1>5. AccountType'
  BY <1>2, <1>3, <1>4 DEF AccountType, claimInviteUse
<1>6. ASSUME NEW b \in Invites
      PROVE  invite'[b].uses + Cardinality(Uses(b)') <= MaxUses + Cardinality(Jobs) - 1
  <2>1. Uses(b)' = Uses(b) \ {j} /\ Uses(b) \subseteq Jobs
    BY <1>2 DEF Uses
  <2>2. PICK m \in {0, 1} : invite'[b].uses = invite[b].uses + m /\ (m = 1 => j \in Uses(b))
    <3>1. invite[b].uses \in Nat
      BY DEF AccountType, InviteRows
    <3>2. QED
      BY <1>1, <1>4, <3>1 DEF Uses
  <2>3. PICK x, y : x = Cardinality(Uses(b)) /\ y = Cardinality(Uses(b)')
    OBVIOUS
  <2>4. x \in Nat /\ y \in Nat /\ y <= x /\ (j \in Uses(b) => y + 1 = x) /\ Cardinality(Jobs) \in Nat
    BY <2>1, <2>3, UsesCounted
  <2>5. invite[b].uses + x <= MaxUses + Cardinality(Jobs) - 1
    BY <2>3 DEF InvitesInv, UseInv
  <2>6. invite[b].uses \in Nat
    BY DEF AccountType, InviteRows
  <2>7. m + y <= x /\ m \in Nat
    BY <2>2, <2>4
  <2>8. PICK z : z = Cardinality(Jobs) /\ z \in Nat
    BY <2>4
  <2>9. MaxUses \in Nat
    OBVIOUS
  <2>10. invite[b].uses + m + y <= MaxUses + z - 1
    BY <2>4, <2>5, <2>6, <2>7, <2>8, <2>9
  <2>11. QED
    BY <2>2, <2>3, <2>8, <2>10
<1>7. ASSUME NEW b \in Invites \ loosened PROVE BirthOf(b)'
  <2>1. Completing(b)' = Completing(b) /\ \A k \in Completing(b) : job'[k].pc = job[k].pc
    BY <1>1, <1>2 DEF Completing
  <2>2. invite'[b].state \in {"live", "expired"} => Open(b)
    BY <1>4 DEF Open
  <2>3. QED
    BY <2>1, <2>2, BirthKept DEF InvitesInv, BirthInv, claimInviteUse
<1>8. QED
  BY <1>5, <1>6, <1>7 DEF InvitesInv, UseInv, BirthInv, claimInviteUse

LEMMA WithoutOK == ASSUME AccountType, NEW a PROVE without(a) \in [Addresses -> Pendings]
<1>1. Vacant \in Pendings
  BY DEF Vacant, Pendings
<1>2. QED
  BY <1>1 DEF without, AccountType

(* The pages and mails of a registration, which use no invitation.         *)
LEMMA PagesStep ==
    ASSUME AccountType, InvitesInv, NEW j \in Jobs,
           readPending(j) \/ issuePending(j) \/ sendRegistration(j), UNCHANGED linkOf
    PROVE  AccountType' /\ InvitesInv'
<1> USE RegistrationAssumption
<1>1. UNCHANGED <<invite, bornOf, loosened>>
  BY DEF readPending, issuePending, sendRegistration
<1>2. PICK e \in Addresses : e = job[j].email /\ JobOK(job[j])
  BY DEF readPending, issuePending, sendRegistration, AccountType, JobOK
<1>3. pending[e] \in Pendings
  BY <1>2 DEF AccountType
<1>4. /\ job' = [k \in Jobs |-> job'[k]]
      /\ \A k \in Jobs \ {j} : job'[k] = job[k]
      /\ JobOK(job'[j])
      /\ job[j].pc \in {"issue", "write", "send"} /\ job'[j].pc \in {"write", "send", "idle"}
  <2>1. CASE readPending(j)
    <3> DEFINE r == [job[j] EXCEPT !.pc = "write", !.read = pending[e]]
    <3>1. IsJob(r) /\ r.pc = "write" /\ r.read = pending[e] /\ r.email = e
          /\ r.code = job[j].code /\ r.uses = job[j].uses
      BY <1>2 DEF JobOK, IsJob, Fields
    <3>2. job' = [job EXCEPT ![j] = r]
      BY <1>2, <2>1 DEF readPending
    <3> HIDE DEF r
    <3>3. JobOK(r)
      BY <1>2, <1>3, <3>1 DEF JobOK
    <3>4. QED
      BY <2>1, <3>1, <3>2, <3>3, JobChanges DEF readPending
  <2>2. CASE issuePending(j)
    <3>1. step(j, "send") /\ job[j].pc = "write"
      BY <2>2 DEF issuePending
    <3>2. IsJob(job'[j]) /\ job'[j].pc = "send" /\ job'[j].email = e /\ job'[j].code = job[j].code
          /\ job'[j].uses = job[j].uses
      BY <1>2, <3>1, JobMoves DEF Fields
    <3>3. JobOK(job'[j])
      BY <1>2, <3>2 DEF JobOK
    <3>4. QED
      BY <3>1, <3>2, <3>3, JobMoves
  <2>3. CASE sendRegistration(j)
    BY <2>3, JobEnds, NoJobOK DEF sendRegistration
  <2>4. QED
    BY <2>1, <2>2, <2>3
<1>5. pending' \in [Addresses -> Pendings]
  <2>1. CASE pending' = pending
    BY <2>1 DEF AccountType
  <2>2. CASE issuePending(j)
    <3>1. job[j].read \in Pendings /\ job[j].code \in Invites \cup {Nil}
      BY <1>2, <2>2 DEF issuePending, JobOK
    <3>2. PICK r : r = job[j].read /\ r \in Pendings
      BY <3>1
    <3>3. [r EXCEPT !.expires = pending[e].expires] \in Pendings
      BY <1>3, <3>2 DEF Pendings
    <3>4. [code |-> job[j].code, recent |-> TRUE, mailed |-> FALSE, expires |-> TRUE, held |-> TRUE]
            \in Pendings
      BY <3>1 DEF Pendings
    <3>5. PICK n \in Pendings : pending' = [pending EXCEPT ![e] = n]
      BY <1>2, <2>2, <3>2, <3>3, <3>4 DEF issuePending
    <3>6. QED
      BY <3>5 DEF AccountType
  <2>3. CASE pending' = [pending EXCEPT ![e].mailed = TRUE]
    <3>1. [pending[e] EXCEPT !.mailed = TRUE] \in Pendings
      BY <1>3 DEF Pendings
    <3>2. QED
      BY <2>3, <3>1 DEF AccountType
  <2>4. QED
    BY <1>2, <2>1, <2>2, <2>3 DEF readPending, sendRegistration
<1>6. AccountType'
  BY <1>1, <1>4, <1>5 DEF AccountType
<1>7. InvitesInv'
  BY <1>1, <1>4, InvitesAlone DEF Open
<1>8. QED
  BY <1>6, <1>7

(* Administrators, the sweep and time.                                     *)
LEMMA InviteRowsStep ==
    ASSUME AccountType, InvitesInv, UNCHANGED linkOf,
           \/ \E c \in Invites : voidInvite(c) \/ expireInvite(c) \/ sweepInvitations(c)
           \/ \E e \in Addresses : registrationTime(e)
    PROVE  AccountType' /\ InvitesInv'
<1> USE RegistrationAssumption
<1>1. UNCHANGED <<bornOf, loosened, job>>
  BY DEF voidInvite, expireInvite, sweepInvitations, registrationTime
<1>2. pending' \in [Addresses -> Pendings]
  <2>1. CASE pending' = pending \/ \E a : pending' = without(a)
    BY <2>1, WithoutOK DEF AccountType
  <2>2. ASSUME NEW e \in Addresses, pending' = [pending EXCEPT ![e].recent = FALSE]
        PROVE  pending' \in [Addresses -> Pendings]
    <3>1. [pending[e] EXCEPT !.recent = FALSE] \in Pendings
      BY DEF AccountType, Pendings
    <3>2. QED
      BY <2>2, <3>1 DEF AccountType
  <2>3. QED
    BY <2>1, <2>2 DEF voidInvite, expireInvite, sweepInvitations, registrationTime
<1>3. /\ invite' \in [Invites -> InviteRows]
      /\ \A c \in Invites : invite'[c].uses = invite[c].uses
      /\ \A c \in Invites : invite'[c].state \in {"live", "expired"} => Open(c)
  <2>0. invite \in [Invites -> InviteRows]
    BY DEF AccountType
  <2>1. CASE invite' = invite
    BY <2>0, <2>1 DEF Open
  <2>2. ASSUME NEW c \in Invites, NEW r \in InviteRows, invite' = [invite EXCEPT ![c] = r],
               r.uses = invite[c].uses, r.state \in {"live", "expired"} => Open(c)
        PROVE  /\ invite' \in [Invites -> InviteRows]
               /\ \A b \in Invites : invite'[b].uses = invite[b].uses
               /\ \A b \in Invites : invite'[b].state \in {"live", "expired"} => Open(b)
    BY <2>0, <2>2 DEF Open
  <2>3. ASSUME NEW c \in Invites, voidInvite(c) \/ expireInvite(c) \/ sweepInvitations(c)
        PROVE  invite' = invite
               \/ \E r \in InviteRows : /\ invite' = [invite EXCEPT ![c] = r]
                                        /\ r.uses = invite[c].uses
                                        /\ (r.state \in {"live", "expired"} => Open(c))
    <3> DEFINE v == [invite[c] EXCEPT !.state = "voided", !.pending = Nil]
               x == [invite[c] EXCEPT !.state = "expired"]
               p == [invite[c] EXCEPT !.pending = Nil]
               d == [invite[c] EXCEPT !.state = "deleted", !.pending = Nil]
    <3>0. invite[c] \in InviteRows
      BY <2>0
    <3>1. v \in InviteRows /\ v.uses = invite[c].uses /\ v.state = "voided"
      BY <3>0 DEF InviteRows
    <3>2. x \in InviteRows /\ x.uses = invite[c].uses
      BY <3>0 DEF InviteRows
    <3>3. p \in InviteRows /\ p.uses = invite[c].uses /\ p.state = invite[c].state
      BY <3>0 DEF InviteRows
    <3>4. d \in InviteRows /\ d.uses = invite[c].uses /\ d.state = "deleted"
      BY <3>0 DEF InviteRows
    <3>5. CASE voidInvite(c)
      <4>1. invite' = [invite EXCEPT ![c] = v]
        BY <3>5 DEF voidInvite, voided
      <4> HIDE DEF v
      <4>2. QED
        BY <3>1, <4>1
    <3>6. CASE expireInvite(c)
      <4>1. invite' = [invite EXCEPT ![c] = x] /\ Open(c)
        BY <3>6 DEF expireInvite, Open
      <4> HIDE DEF x
      <4>2. QED
        BY <3>2, <4>1
    <3>7. CASE sweepInvitations(c)
      <4>1. invite' = [invite EXCEPT ![c] = p] \/ invite' = [invite EXCEPT ![c] = d]
        BY <3>7 DEF sweepInvitations
      <4> HIDE DEF p, d
      <4>2. QED
        BY <3>3, <3>4, <4>1 DEF Open
    <3>8. QED
      BY <2>3, <3>5, <3>6, <3>7
  <2>4. QED
    BY <2>1, <2>2, <2>3 DEF registrationTime
<1>4. AccountType'
  BY <1>1, <1>2, <1>3 DEF AccountType
<1>5. InvitesInv'
  BY <1>1, <1>3, InvitesAlone
<1>6. QED
  BY <1>4, <1>5

(* registerStart: a request reads the row, and may be about to add a use.  *)
LEMMA StartStep ==
    ASSUME AccountType, InvitesInv, NEW j \in Jobs, NEW e \in Addresses, NEW c \in Invites \cup {Nil},
           registerStart(j, e, c, Held), UNCHANGED linkOf
    PROVE  AccountType' /\ InvitesInv'
<1> USE RegistrationAssumption
<1>1. UNCHANGED <<invite, pending, bornOf, loosened>> /\ job[j].pc = "idle"
  BY DEF registerStart, Ready
<1>2. PICK n : n = IF c = Nil THEN 0 ELSE invite[c].uses
  OBVIOUS
<1>3. n \in Nat
  BY <1>2 DEF AccountType, InviteRows
<1>4. PICK r : /\ job' = [job EXCEPT ![j] = r] /\ IsJob(r)
               /\ r.pc = (IF c = Nil THEN "issue" ELSE "claim")
               /\ r.email = e /\ r.code = c /\ r.uses = n
  <2> DEFINE pc == IF c = Nil THEN "issue" ELSE "claim"
             h == IF c = Nil THEN Nil ELSE invite[c].pending
             r == [NoJob EXCEPT !.pc = pc, !.email = e, !.code = c, !.uses = n, !.holder = h]
  <2>1. job' = [job EXCEPT ![j] = r]
    BY <1>2 DEF registerStart, enter
  <2> HIDE DEF pc, h
  <2>2. IsJob(r) /\ r.pc = pc /\ r.email = e /\ r.code = c /\ r.uses = n
    BY DEF NoJob, IsJob, Fields
  <2> HIDE DEF r
  <2>3. QED
    BY <2>1, <2>2 DEF pc
<1>5. JobOK(r)
  BY <1>3, <1>4 DEF JobOK
<1>6. /\ job' = [k \in Jobs |-> job'[k]]
      /\ job'[j] = r
      /\ \A k \in Jobs \ {j} : job'[k] = job[k]
  BY <1>4, JobChanges
<1>7. AccountType'
  BY <1>1, <1>5, <1>6 DEF AccountType
<1>8. ASSUME NEW b \in Invites
      PROVE  invite'[b].uses + Cardinality(Uses(b)') <= MaxUses + Cardinality(Jobs) - 1
  <2>1. Uses(b) \subseteq Jobs /\ j \notin Uses(b)
    BY <1>1 DEF Uses
  <2>2. PICK u : u = invite[b].uses /\ u \in Nat
    BY DEF AccountType, InviteRows
  <2>3. invite'[b].uses = u
    BY <1>1, <2>2
  <2>4. PICK z : z = Cardinality(Jobs) /\ z \in Nat
    BY <2>1, UsesCounted
  <2>5. MaxUses \in Nat
    OBVIOUS
  <2>6. CASE b = c /\ n < MaxUses
    <3>1. Uses(b)' = Uses(b) \cup {j} /\ Uses(b) = Uses(b)' \ {j}
      BY <1>4, <1>6, <2>1, <2>6 DEF Uses
    <3>2. Uses(b)' \subseteq Jobs /\ j \in Uses(b)'
      BY <2>1, <3>1
    <3>3. PICK x, y : x = Cardinality(Uses(b)) /\ y = Cardinality(Uses(b)')
      OBVIOUS
    <3>4. x \in Nat /\ y \in Nat /\ x + 1 = y /\ x <= z - 1
      BY <2>1, <2>4, <3>1, <3>2, <3>3, UsesCounted
    <3>5. u < MaxUses
      BY <1>2, <2>2, <2>6
    <3>6. u + y <= MaxUses + z - 1
      BY <2>2, <2>4, <2>5, <3>4, <3>5
    <3>7. QED
      BY <2>3, <2>4, <3>3, <3>6
  <2>7. CASE ~(b = c /\ n < MaxUses)
    <3>1. Uses(b)' = Uses(b)
      BY <1>4, <1>6, <2>1, <2>7 DEF Uses
    <3>2. QED
      BY <2>2, <2>3, <3>1 DEF InvitesInv, UseInv
  <2>8. QED
    BY <2>6, <2>7
<1>9. ASSUME NEW b \in Invites \ loosened PROVE BirthOf(b)'
  <2>1. Completing(b)' = Completing(b) /\ \A k \in Completing(b) : job'[k].pc = job[k].pc
    BY <1>1, <1>4, <1>6 DEF Completing
  <2>2. invite'[b].state \in {"live", "expired"} => Open(b)
    BY <1>1 DEF Open
  <2>3. QED
    BY <1>1, <2>1, <2>2, BirthKept DEF InvitesInv, BirthInv
<1>10. QED
  BY <1>1, <1>7, <1>8, <1>9 DEF InvitesInv, UseInv, BirthInv

(* Uses on their way do not change with the completions.                   *)
LEMMA UsesAlone ==
    ASSUME UseInv, \A c \in Invites : invite'[c].uses = invite[c].uses,
           \A k \in Jobs : \/ job'[k] = job[k]
                           \/ job[k].pc # "claim" /\ job'[k].pc # "claim"
    PROVE  UseInv'
<1>1. ASSUME NEW c \in Invites
      PROVE  invite'[c].uses + Cardinality(Uses(c)') <= MaxUses + Cardinality(Jobs) - 1
  <2>1. Uses(c)' = Uses(c)
    BY DEF Uses
  <2>2. invite'[c].uses = invite[c].uses
    OBVIOUS
  <2>3. invite[c].uses + Cardinality(Uses(c)) <= MaxUses + Cardinality(Jobs) - 1
    BY DEF UseInv
  <2>4. QED
    BY <2>1, <2>2, <2>3
<1>2. QED
  BY <1>1 DEF UseInv

(* registerComplete: a completion of a live invitation; a second one at a  *)
(* time loosens it.                                                        *)
LEMMA CompleteStep ==
    ASSUME AccountType, InvitesInv, NEW j \in Jobs, NEW e \in Addresses, registerComplete(j, e),
           UNCHANGED linkOf
    PROVE  AccountType' /\ InvitesInv'
<1> USE RegistrationAssumption
<1>1. UNCHANGED <<invite, pending, bornOf>> /\ job[j].pc = "idle"
  BY DEF registerComplete, Ready
<1>2. PICK c \in Invites \cup {Nil} : c = pending[e].code
  BY DEF AccountType, Pendings
<1>3. PICK r : /\ job' = [job EXCEPT ![j] = r] /\ IsJob(r) /\ r.pc = "insert" /\ r.email = e
               /\ r.code = c /\ r.uses = 0
  <2> DEFINE r == [NoJob EXCEPT !.pc = "insert", !.email = e, !.code = c]
  <2>1. job' = [job EXCEPT ![j] = r]
    BY <1>2 DEF registerComplete
  <2>2. IsJob(r) /\ r.pc = "insert" /\ r.email = e /\ r.code = c /\ r.uses = 0
    BY DEF NoJob, IsJob, Fields
  <2> HIDE DEF r
  <2>3. QED
    BY <2>1, <2>2
<1>4. /\ job' = [k \in Jobs |-> job'[k]]
      /\ job'[j] = r
      /\ \A k \in Jobs \ {j} : job'[k] = job[k]
  BY <1>3, JobChanges
<1>5. AccountType'
  <2>1. JobOK(r)
    BY <1>3 DEF JobOK
  <2>2. QED
    BY <1>1, <1>4, <2>1 DEF AccountType
<1>6. UseInv'
  BY <1>1, <1>3, <1>4, UsesAlone DEF InvitesInv
<1>7. loosened \subseteq loosened' /\ (c \in Invites \ loosened' => Completing(c) = {} /\ Open(c))
  BY <1>2 DEF registerComplete, Completing, ValidLink, LiveInvite, Open
<1>8. ASSUME NEW b \in Invites \ loosened' PROVE BirthOf(b)'
  <2>1. BirthOf(b)
    BY <1>7 DEF InvitesInv, BirthInv
  <2>2. CASE b # c
    <3>1. Completing(b)' = Completing(b) /\ \A k \in Completing(b) : job'[k].pc = job[k].pc
      BY <1>1, <1>3, <1>4, <2>2 DEF Completing
    <3>2. invite'[b].state \in {"live", "expired"} => Open(b)
      BY <1>1 DEF Open
    <3>3. QED
      BY <1>1, <2>1, <3>1, <3>2, BirthKept
  <2>3. CASE b = c
    <3>1. Completing(b) = {} /\ Open(b)
      BY <1>7, <2>3
    <3>2. BornOf(b) = {}
      BY <2>1, <3>1 DEF BirthOf
    <3>3. BornOf(b)' = {}
      BY <1>1, <3>2 DEF BornOf
    <3>4. Completing(b)' = {j}
      BY <1>3, <1>4, <2>3, <3>1 DEF Completing
    <3>5. QED
      BY <3>3, <3>4 DEF BirthOf
  <2>4. QED
    BY <2>2, <2>3
<1>9. QED
  BY <1>5, <1>6, <1>8 DEF InvitesInv, BirthInv

(* insertIdentity: the account is made, or the address was taken.          *)
LEMMA InsertStep ==
    ASSUME AccountType, InvitesInv, NEW j \in Jobs, NEW u \in Members, insertIdentity(j, u),
           UNCHANGED linkOf
    PROVE  AccountType' /\ InvitesInv'
<1> USE RegistrationAssumption
<1>1. UNCHANGED <<invite, pending, loosened>> /\ job[j].pc = "insert"
  BY DEF insertIdentity
<1>2. PICK c \in Invites \cup {Nil} : c = job[j].code /\ JobOK(job[j])
  BY DEF AccountType, JobOK
<1>3. /\ job' = [k \in Jobs |-> job'[k]]
      /\ \A k \in Jobs \ {j} : job'[k] = job[k]
      /\ JobOK(job'[j])
      /\ \/ job'[j].pc = "idle" /\ bornOf' = bornOf
         \/ /\ job'[j].pc = "consume" /\ job'[j].code = c
            /\ bornOf' = [bornOf EXCEPT ![u] = c]
  <2>1. CASE done(j) /\ bornOf' = bornOf
    BY <2>1, JobEnds, NoJobOK
  <2>2. CASE step(j, "consume") /\ bornOf' = [bornOf EXCEPT ![u] = job[j].code]
    <3>1. /\ IsJob(job'[j]) /\ job'[j].pc = "consume" /\ job'[j].code = c
          /\ job'[j].uses = job[j].uses
      BY <1>2, <2>2, JobMoves DEF Fields
    <3>2. JobOK(job'[j])
      BY <1>2, <3>1 DEF JobOK
    <3>3. QED
      BY <1>2, <2>2, <3>1, <3>2, JobMoves
  <2>3. QED
    BY <2>1, <2>2 DEF insertIdentity
<1>4. AccountType'
  BY <1>1, <1>3 DEF AccountType
<1>5. UseInv'
  BY <1>1, <1>3, UsesAlone DEF InvitesInv
<1>6. ASSUME NEW b \in Invites \ loosened' PROVE BirthOf(b)'
  <2>1. BirthOf(b) /\ (Open(b)' <=> Open(b))
    BY <1>1 DEF InvitesInv, BirthInv, Open
  <2>2. CASE b # c
    <3>1. Completing(b)' = Completing(b) /\ \A k \in Completing(b) : job'[k].pc = job[k].pc
      BY <1>1, <1>2, <1>3, <2>2 DEF Completing
    <3>2. BornOf(b)' \subseteq BornOf(b)
      BY <1>3, <2>2 DEF BornOf, AccountType
    <3>3. QED
      BY <2>1, <3>1, <3>2 DEF BirthOf
  <2>3. CASE b = c
    <3>1. j \in Completing(b)
      BY <1>1, <1>2, <2>3 DEF Completing
    <3>2. BornOf(b) = {} /\ \A k \in Completing(b) : k = j
      BY <1>1, <2>1, <3>1 DEF BirthOf
    <3>3. Completing(b)' \subseteq {j}
      BY <1>3, <3>2 DEF Completing
    <3>4. CASE job'[j].pc = "idle" /\ bornOf' = bornOf
      <4>1. BornOf(b)' = {}
        BY <3>2, <3>4 DEF BornOf
      <4>2. QED
        BY <3>3, <4>1 DEF BirthOf
    <3>5. CASE job'[j].pc = "consume" /\ job'[j].code = c /\ bornOf' = [bornOf EXCEPT ![u] = c]
      <4>1. BornOf(b)' \subseteq {u}
        BY <3>2, <3>5 DEF BornOf, AccountType
      <4>2. j \in Completing(b)'
        BY <2>3, <3>5 DEF Completing
      <4>3. QED
        BY <3>3, <3>5, <4>1, <4>2 DEF BirthOf
    <3>6. QED
      BY <1>3, <3>4, <3>5
  <2>4. QED
    BY <2>2, <2>3
<1>7. QED
  BY <1>4, <1>5, <1>6 DEF InvitesInv, BirthInv

(* consumeInvite closes the invitation, whatever has become of it.         *)
LEMMA ConsumeStep ==
    ASSUME AccountType, InvitesInv, NEW j \in Jobs, consumeInvite(j), UNCHANGED linkOf
    PROVE  AccountType' /\ InvitesInv'
<1> USE RegistrationAssumption
<1>1. UNCHANGED <<bornOf, loosened>> /\ job[j].pc = "consume"
  BY DEF consumeInvite
<1>2. PICK c \in Invites \cup {Nil} : c = job[j].code
  BY DEF AccountType, JobOK
<1>3. /\ job' = [k \in Jobs |-> job'[k]]
      /\ \A k \in Jobs \ {j} : job'[k] = job[k]
      /\ JobOK(job'[j]) /\ job'[j].pc = "idle"
  BY JobEnds, NoJobOK DEF consumeInvite
<1>4. /\ invite' \in [Invites -> InviteRows]
      /\ \A b \in Invites : invite'[b].uses = invite[b].uses
      /\ \A b \in Invites : invite'[b].state \in {"live", "expired"} => Open(b)
      /\ c \in Invites => invite'[c].state \notin {"live", "expired"}
  <2>0. invite \in [Invites -> InviteRows]
    BY DEF AccountType
  <2>1. CASE c \in Invites /\ Open(c)
    <3> DEFINE r == [invite[c] EXCEPT !.state = "used", !.pending = Nil]
    <3>1. r \in InviteRows /\ r.uses = invite[c].uses /\ r.state = "used"
      BY <2>0, <2>1 DEF InviteRows
    <3>2. invite' = [invite EXCEPT ![c] = r]
      BY <1>2, <2>1 DEF consumeInvite, Consumed
    <3> HIDE DEF r
    <3>3. QED
      BY <2>0, <2>1, <3>1, <3>2 DEF Open
  <2>2. CASE ~(c \in Invites /\ Open(c))
    <3>1. invite' = invite
      BY <1>2, <2>2 DEF consumeInvite, Consumed
    <3>2. QED
      BY <2>0, <2>2, <3>1 DEF Open
  <2>3. QED
    BY <2>1, <2>2
<1>5. AccountType'
  <2>1. pending' \in [Addresses -> Pendings]
    BY WithoutOK DEF AccountType, consumeInvite
  <2>2. QED
    BY <1>1, <1>3, <1>4, <2>1 DEF AccountType
<1>6. UseInv'
  BY <1>1, <1>3, <1>4, UsesAlone DEF InvitesInv
<1>7. ASSUME NEW b \in Invites \ loosened' PROVE BirthOf(b)'
  <2>1. BirthOf(b)
    BY <1>1 DEF InvitesInv, BirthInv
  <2>2. BornOf(b)' = BornOf(b)
    BY <1>1 DEF BornOf
  <2>3. Completing(b)' \subseteq Completing(b) /\ \A k \in Completing(b)' : job'[k].pc = job[k].pc
    BY <1>3 DEF Completing
  <2>4. CASE b # c
    <3>1. Completing(b)' = Completing(b)
      BY <1>2, <1>3, <2>4 DEF Completing
    <3>2. Open(b)' => Open(b)
      BY <1>4 DEF Open
    <3>3. QED
      BY <2>1, <2>2, <2>3, <3>1, <3>2 DEF BirthOf
  <2>5. CASE b = c
    <3>1. ~Open(b)'
      BY <1>4, <2>5 DEF Open
    <3>2. QED
      BY <2>1, <2>2, <2>3, <3>1 DEF BirthOf
  <2>6. QED
    BY <2>4, <2>5
<1>8. QED
  BY <1>5, <1>6, <1>7 DEF InvitesInv, BirthInv

(* A request stops; an account made without consumeInvite loosens the      *)
(* invitation.                                                             *)
LEMMA FailStep ==
    ASSUME AccountType, InvitesInv, NEW j \in Jobs, requestFails(j), UNCHANGED linkOf
    PROVE  AccountType' /\ InvitesInv'
<1> USE RegistrationAssumption
<1>1. UNCHANGED <<bornOf, invite>> /\ loosened \subseteq loosened'
  BY DEF requestFails
<1>2. /\ job' = [k \in Jobs |-> job'[k]]
      /\ \A k \in Jobs \ {j} : job'[k] = job[k]
      /\ JobOK(job'[j]) /\ job'[j].pc = "idle"
  BY JobEnds, NoJobOK DEF requestFails
<1>3. AccountType'
  <2>1. pending' \in [Addresses -> Pendings]
    BY WithoutOK DEF AccountType, requestFails
  <2>2. QED
    BY <1>1, <1>2, <2>1 DEF AccountType
<1>4. ASSUME NEW b \in Invites
      PROVE  invite'[b].uses + Cardinality(Uses(b)') <= MaxUses + Cardinality(Jobs) - 1
  <2>1. Uses(b)' \subseteq Uses(b) /\ Uses(b) \subseteq Jobs
    BY <1>2 DEF Uses
  <2>2. PICK x, y : x = Cardinality(Uses(b)) /\ y = Cardinality(Uses(b)')
    OBVIOUS
  <2>3. x \in Nat /\ y \in Nat /\ y <= x /\ Cardinality(Jobs) \in Nat
    BY <2>1, <2>2, UsesCounted
  <2>4. PICK u : u = invite[b].uses /\ u \in Nat
    BY DEF AccountType, InviteRows
  <2>5. u + x <= MaxUses + Cardinality(Jobs) - 1
    BY <2>2, <2>4 DEF InvitesInv, UseInv
  <2>6. PICK z : z = Cardinality(Jobs) /\ z \in Nat
    BY <2>3
  <2>7. MaxUses \in Nat
    OBVIOUS
  <2>8. u + y <= MaxUses + z - 1
    BY <2>3, <2>4, <2>5, <2>6, <2>7
  <2>9. QED
    BY <1>1, <2>2, <2>4, <2>6, <2>8
<1>5. ASSUME NEW b \in Invites \ loosened' PROVE BirthOf(b)'
  <2>1. BirthOf(b)
    BY <1>1, <1>5 DEF InvitesInv, BirthInv
  <2>2. CASE j \notin Completing(b)
    <3>1. Completing(b)' = Completing(b) /\ \A k \in Completing(b) : job'[k].pc = job[k].pc
      BY <1>2, <2>2 DEF Completing
    <3>2. invite'[b].state \in {"live", "expired"} => Open(b)
      BY <1>1 DEF Open
    <3>3. QED
      BY <1>1, <2>1, <3>1, <3>2, BirthKept
  <2>3. CASE j \in Completing(b)
    <3>1. job[j].pc # "consume"
      BY <1>5, <2>3 DEF Completing, requestFails
    <3>2. BornOf(b) = {}
      BY <2>1, <2>3, <3>1 DEF BirthOf
    <3>3. BornOf(b)' = {} /\ Completing(b)' \subseteq Completing(b)
      BY <1>1, <1>2, <3>2 DEF BornOf, Completing
    <3>4. QED
      BY <2>1, <3>3 DEF BirthOf
  <2>4. QED
    BY <2>2, <2>3
<1>6. QED
  BY <1>3, <1>4, <1>5 DEF InvitesInv, UseInv, BirthInv

LEMMA InvitesStep ==
    ASSUME AccountType, InvitesInv, AccountNext
    PROVE  AccountType' /\ InvitesInv'
<1>1. CASE ChangeNext
  <2>1. AccountType'
    BY <1>1, ChangeLeaves DEF AccountType
  <2>2. InvitesInv'
    BY <1>1, ChangeLeaves, InvitesAlone DEF RegistrationSteps, Open
  <2>3. QED
    BY <2>1, <2>2
<1>2. CASE RegistrationNext(Held, Invites \cup {Nil}) /\ UNCHANGED changeVars
  <2>1. UNCHANGED linkOf
    BY <1>2 DEF changeVars
  <2>2. QED
    BY <1>2, <2>1, ClaimStep, PagesStep, InviteRowsStep, StartStep, CompleteStep, InsertStep,
       ConsumeStep, FailStep DEF RegistrationNext
<1>3. QED
  BY <1>1, <1>2 DEF AccountNext

-----------------------------------------------------------------------------
(* Who holds an address.                                                   *)

\* A request has moved on without a claim it did not have.
NoNewClaim(k) ==
    \/ job'[k] = job[k]
    \/ job'[k].pc \notin {"claim", "issue", "write", "chgRead", "chgWrite", "assign"}
    \/ /\ job'[k].email = job[k].email /\ job'[k].kind = job[k].kind
       /\ \/ job[k].pc = "claim" /\ job'[k].pc = "issue"
          \/ job[k].pc = "issue" /\ job'[k].pc = "write"
          \/ job[k].pc = "chgRead" /\ job'[k].pc = "chgWrite"

(* Steps that add no key and no claim.                                     *)
LEMMA HoldsAlone ==
    ASSUME HoldInv, overlapped \subseteq overlapped', \A k \in Jobs : NoNewClaim(k),
           \A e \in Addresses : pending'[e].held => pending[e].held,
           \A e \in Addresses : heldBy'[e] # Nil => heldBy[e] # Nil,
           UNCHANGED <<link, heldBy>> \/ Loose' \subseteq overlapped'
    PROVE  HoldInv'
<1> SUFFICES ASSUME NEW e \in Addresses \ overlapped' PROVE HoldOf(e)'
  BY DEF HoldInv
<1>1. HoldOf(e)
  BY DEF HoldInv
<1>2. e \notin Loose'
  BY <1>1 DEF HoldOf, Loose
<1>3. \A k \in Claiming(e)' :
        /\ k \in Claiming(e)
        /\ job'[k].pc \in {"claim", "issue", "write"} => job[k].pc \in {"claim", "issue", "write"}
        /\ job'[k].pc \in {"chgRead", "chgWrite"} /\ job'[k].kind = "change" =>
             job[k].pc \in {"chgRead", "chgWrite"} /\ job[k].kind = "change"
  BY DEF Claiming, NoNewClaim
<1>4. \A k \in Claiming(e)' :
         /\ job'[k].pc \in {"claim", "issue", "write"} => heldBy'[e] = Nil
         /\ job'[k].pc \in {"chgRead", "chgWrite"} /\ job'[k].kind = "change" => ~pending'[e].held
  BY <1>1, <1>3 DEF HoldOf
<1>5. \A j, k \in Claiming(e)' : j = k
  BY <1>1, <1>3 DEF HoldOf
<1>6. ~(pending'[e].held /\ heldBy'[e] # Nil)
  BY <1>1 DEF HoldOf
<1>7. QED
  BY <1>2, <1>4, <1>5, <1>6 DEF HoldOf

(* A new request for address a that has found the other key absent.        *)
LEMMA HoldsEntered ==
    ASSUME AccountType, HoldInv, NEW j \in Jobs, NEW a, NEW r, enter(j, a, r), job[j].pc = "idle",
           UNCHANGED <<pending, heldBy, link>>, r.email = a,
           r.pc \in {"claim", "issue", "write"} => heldBy[a] = Nil,
           r.pc \in {"chgRead", "chgWrite"} /\ r.kind = "change" /\ a \in Addresses \ overlapped
             => ~pending[a].held
    PROVE  HoldInv'
<1> SUFFICES ASSUME NEW e \in Addresses \ overlapped' PROVE HoldOf(e)'
  BY DEF HoldInv
<1>1. overlapped \subseteq overlapped' /\ (e = a => Claiming(a) = {})
  BY DEF enter
<1>2. HoldOf(e)
  BY <1>1 DEF HoldInv
<1>3. job'[j] = r /\ \A k \in Jobs \ {j} : job'[k] = job[k]
  BY JobChanges DEF enter
<1>4. e \notin Loose'
  BY <1>2 DEF HoldOf, Loose
<1>5. CASE e # a
  <2>1. Claiming(e)' = Claiming(e) /\ j \notin Claiming(e)
    BY <1>3, <1>5 DEF Claiming
  <2>2. \A k \in Claiming(e) : job'[k] = job[k]
    BY <1>3, <2>1 DEF Claiming
  <2>3. QED
    BY <1>2, <1>4, <2>1, <2>2 DEF HoldOf
<1>6. CASE e = a
  <2>1. Claiming(e)' \subseteq {j}
    BY <1>1, <1>3, <1>6 DEF Claiming
  <2>2. e \notin overlapped
    BY <1>1
  <2>3. QED
    BY <1>2, <1>3, <1>4, <1>6, <2>1, <2>2 DEF HoldOf
<1>7. QED
  BY <1>5, <1>6

LEMMA HoldRegistration ==
    ASSUME AccountType, HoldInv, RegistrationNext(Held, Invites \cup {Nil}), UNCHANGED changeVars
    PROVE  HoldInv'
<1>0. UNCHANGED <<link, linkOf, heldBy>>
  BY DEF changeVars
<1>1. \A a : \A e \in Addresses : without(a)[e].held => pending[e].held
  BY DEF without, Vacant
<1>2. ASSUME NEW j \in Jobs,
             claimInviteUse(j) \/ readPending(j) \/ sendRegistration(j) \/ consumeInvite(j)
               \/ requestFails(j)
               \/ (\E u \in Members : insertIdentity(j, u))
               \/ (\E e \in Addresses : registerComplete(j, e))
      PROVE  HoldInv'
  <2>1. \A e \in Addresses : pending'[e].held => pending[e].held
    <3>1. CASE pending' = pending \/ \E a : pending' = without(a)
      BY <1>1, <3>1
    <3>2. ASSUME NEW a, pending' = [pending EXCEPT ![a].mailed = TRUE], NEW e \in Addresses
          PROVE  pending'[e].held = pending[e].held
      BY <3>2 DEF AccountType, Pendings
    <3>3. QED
      BY <1>2, <3>1, <3>2 DEF claimInviteUse, readPending, sendRegistration, consumeInvite,
                              requestFails, insertIdentity, registerComplete
  <2>2. JobOK(job[j])
    BY DEF AccountType
  <2>3. /\ \A k \in Jobs \ {j} : job'[k] = job[k]
        /\ NoNewClaim(j)
    <3>1. CASE done(j)
      BY <3>1, JobEnds, NoJobOK DEF NoNewClaim
    <3>2. CASE claimInviteUse(j) /\ step(j, "issue")
      BY <3>2, JobMoves DEF NoNewClaim, claimInviteUse, Fields
    <3>3. CASE step(j, "consume")
      BY <3>3, JobMoves DEF NoNewClaim
    <3>4. CASE readPending(j)
      <4> DEFINE r == [job[j] EXCEPT !.pc = "write", !.read = pending[job[j].email]]
      <4>1. job' = [job EXCEPT ![j] = r] /\ job[j].pc = "issue"
        BY <3>4 DEF readPending
      <4>2. r.pc = "write" /\ r.email = job[j].email /\ r.kind = job[j].kind
        BY <2>2 DEF JobOK, IsJob, Fields
      <4> HIDE DEF r
      <4>3. QED
        BY <4>1, <4>2, JobChanges DEF NoNewClaim
    <3>5. ASSUME NEW e \in Addresses, registerComplete(j, e)
          PROVE  (\A k \in Jobs \ {j} : job'[k] = job[k]) /\ NoNewClaim(j)
      <4> DEFINE r == [NoJob EXCEPT !.pc = "insert", !.email = e, !.code = pending[e].code]
      <4>1. job' = [job EXCEPT ![j] = r]
        BY <3>5 DEF registerComplete
      <4>2. r.pc = "insert"
        BY DEF NoJob
      <4> HIDE DEF r
      <4>3. QED
        BY <4>1, <4>2, JobChanges DEF NoNewClaim
    <3>6. QED
      BY <1>2, <3>1, <3>2, <3>3, <3>4, <3>5
         DEF claimInviteUse, sendRegistration, consumeInvite, requestFails, insertIdentity
  <2>4. \A k \in Jobs : NoNewClaim(k)
    BY <2>3 DEF NoNewClaim
  <2>5. UNCHANGED overlapped
    BY <1>2 DEF claimInviteUse, readPending, sendRegistration, consumeInvite, requestFails,
                insertIdentity, registerComplete
  <2>6. QED
    BY <1>0, <2>1, <2>4, <2>5, HoldsAlone
<1>3. ASSUME \/ \E c \in Invites : voidInvite(c) \/ expireInvite(c) \/ sweepInvitations(c)
             \/ \E e \in Addresses : registrationTime(e)
      PROVE  HoldInv'
  <2>1. UNCHANGED <<job, overlapped>>
    BY <1>3 DEF voidInvite, expireInvite, sweepInvitations, registrationTime
  <2>2. \A e \in Addresses : pending'[e].held => pending[e].held
    <3>1. CASE pending' = pending \/ \E a : pending' = without(a)
      BY <1>1, <3>1
    <3>2. ASSUME NEW a, pending' = [pending EXCEPT ![a].recent = FALSE], NEW e \in Addresses
          PROVE  pending'[e].held = pending[e].held
      BY <3>2 DEF AccountType, Pendings
    <3>3. QED
      BY <1>3, <3>1, <3>2 DEF voidInvite, expireInvite, sweepInvitations, registrationTime
  <2>3. \A k \in Jobs : NoNewClaim(k)
    BY <2>1 DEF NoNewClaim
  <2>4. QED
    BY <1>0, <2>1, <2>2, <2>3, HoldsAlone
<1>4. ASSUME NEW j \in Jobs, NEW e \in Addresses, NEW c \in Invites \cup {Nil},
             registerStart(j, e, c, Held)
      PROVE  HoldInv'
  <2>1. heldBy[e] = Nil
    BY <1>4 DEF registerStart, Held
  <2> DEFINE pc == IF c = Nil THEN "issue" ELSE "claim"
             n == IF c = Nil THEN 0 ELSE invite[c].uses
             h == IF c = Nil THEN Nil ELSE invite[c].pending
  <2>2. /\ pc \in {"issue", "claim"}
        /\ enter(j, e, [NoJob EXCEPT !.pc = pc, !.email = e, !.code = c, !.uses = n, !.holder = h])
    BY <1>4 DEF registerStart
  <2> HIDE DEF pc, n, h
  <2> DEFINE r == [NoJob EXCEPT !.pc = pc, !.email = e, !.code = c, !.uses = n, !.holder = h]
  <2>3. r.pc = pc /\ r.email = e
    BY DEF NoJob
  <2>4. enter(j, e, r)
    BY <2>2
  <2> HIDE DEF r
  <2>5. UNCHANGED pending /\ job[j].pc = "idle"
    BY <1>4 DEF registerStart, Ready
  <2>6. QED
    BY <1>0, <2>1, <2>2, <2>3, <2>4, <2>5, HoldsEntered
<1>5. ASSUME NEW j \in Jobs, issuePending(j) PROVE HoldInv'
  <2>1. PICK a \in Addresses : a = job[j].email /\ job[j].pc = "write"
    BY <1>5 DEF issuePending, AccountType, JobOK
  <2>2. j \in Claiming(a)
    BY <2>1 DEF Claiming
  <2>3. \A e \in Addresses \ {a} : pending'[e] = pending[e]
    BY <1>5, <2>1 DEF issuePending, AccountType
  <2>4. step(j, "send") /\ UNCHANGED overlapped
    BY <1>5 DEF issuePending
  <2>5. job'[j].pc = "send" /\ \A k \in Jobs \ {j} : job'[k] = job[k]
    BY <2>4, JobMoves
  <2> SUFFICES ASSUME NEW e \in Addresses \ overlapped' PROVE HoldOf(e)'
    BY DEF HoldInv
  <2>6. HoldOf(e)
    BY <2>4 DEF HoldInv
  <2>7. e \notin Loose'
    BY <1>0, <2>6 DEF HoldOf, Loose
  <2>8. Claiming(e)' \subseteq Claiming(e) \ {j} /\ \A k \in Claiming(e)' : job'[k] = job[k]
    BY <2>5 DEF Claiming
  <2>9. CASE e # a
    BY <1>0, <2>3, <2>6, <2>7, <2>8, <2>9 DEF HoldOf
  <2>10. CASE e = a
    <3>1. Claiming(e)' = {}
      BY <2>2, <2>6, <2>8, <2>10 DEF HoldOf
    <3>2. heldBy'[e] = Nil
      BY <1>0, <2>1, <2>2, <2>6, <2>10 DEF HoldOf
    <3>3. QED
      BY <2>7, <3>1, <3>2 DEF HoldOf
  <2>11. QED
    BY <2>9, <2>10
<1>6. QED
  BY <1>2, <1>3, <1>4, <1>5 DEF RegistrationNext

LEMMA HoldChange == ASSUME AccountType, HoldInv, ChangeNext PROVE HoldInv'
<1>0. UNCHANGED pending
  BY ChangeLeaves
<1>1. \A rec : \A e \in Addresses : released(rec)[e] # Nil => heldBy[e] # Nil
  BY DEF released
<1>2. ASSUME NEW j \in Jobs,
             readChange(j) \/ sendChange(j) \/ commitChange(j) \/ assignEmail(j)
      PROVE  HoldInv'
  <2>1. JobOK(job[j])
    BY DEF AccountType
  <2>2. (\A k \in Jobs \ {j} : job'[k] = job[k]) /\ NoNewClaim(j)
    <3>1. CASE done(j)
      BY <3>1, JobEnds, NoJobOK DEF NoNewClaim
    <3>2. CASE readChange(j)
      <4>1. PICK v, rd : job' = [job EXCEPT ![j].pc = "chgWrite", ![j].found = v, ![j].read = rd]
        BY <3>2 DEF readChange
      <4> DEFINE r == [job[j] EXCEPT !.pc = "chgWrite", !.found = v, !.read = rd]
      <4>2. job' = [job EXCEPT ![j] = r] /\ job[j].pc = "chgRead"
        BY <3>2, <4>1 DEF readChange
      <4>3. r.pc = "chgWrite" /\ r.email = job[j].email /\ r.kind = job[j].kind
        BY <2>1 DEF JobOK, IsJob, Fields
      <4> HIDE DEF r
      <4>4. QED
        BY <4>2, <4>3, JobChanges DEF NoNewClaim
    <3>3. QED
      BY <1>2, <3>1, <3>2 DEF sendChange, commitChange, assignEmail
  <2>3. UNCHANGED <<overlapped, link, heldBy>>
    BY <1>2 DEF readChange, sendChange, commitChange, assignEmail, changeVars
  <2>4. \A k \in Jobs : NoNewClaim(k)
    BY <2>2 DEF NoNewClaim
  <2>5. QED
    BY <1>0, <2>3, <2>4, HoldsAlone
<1>3. ASSUME NEW j \in Jobs, NEW v \in VerifyLinks, redeemEmailChange(j, v) PROVE HoldInv'
  <2> DEFINE r == [NoJob EXCEPT !.pc = "chgCommit", !.read = link[v]]
  <2>1. job' = [job EXCEPT ![j] = r]
    BY <1>3 DEF redeemEmailChange
  <2>2. r.pc = "chgCommit"
    BY DEF NoJob
  <2> HIDE DEF r
  <2>3. \A k \in Jobs : NoNewClaim(k)
    BY <2>1, <2>2, JobChanges DEF NoNewClaim
  <2>4. overlapped \subseteq overlapped' /\ Loose' \subseteq overlapped'
    BY <1>3 DEF redeemEmailChange, noteLoose
  <2>5. heldBy' = released(link[v])
    BY <1>3 DEF redeemEmailChange
  <2>6. \A e \in Addresses : heldBy'[e] # Nil => heldBy[e] # Nil
    BY <1>1, <2>5
  <2>7. QED
    BY <1>0, <2>3, <2>4, <2>6, HoldsAlone
<1>4. ASSUME (\E u \in Members : cancelEmailChange(u)) \/ (\E v \in VerifyLinks : changeTime(v))
      PROVE  HoldInv'
  <2>1. UNCHANGED job /\ overlapped \subseteq overlapped' /\ Loose' \subseteq overlapped'
    BY <1>4 DEF cancelEmailChange, changeTime, noteLoose
  <2>2. heldBy' = heldBy \/ \E rec : heldBy' = released(rec)
    BY <1>4 DEF cancelEmailChange, changeTime
  <2>3. \A e \in Addresses : heldBy'[e] # Nil => heldBy[e] # Nil
    BY <1>1, <2>2
  <2>4. \A k \in Jobs : NoNewClaim(k)
    BY <2>1 DEF NoNewClaim
  <2>5. QED
    BY <1>0, <2>1, <2>3, <2>4, HoldsAlone
<1>5. ASSUME NEW j \in Jobs, NEW u \in Members, NEW kind, NEW a,
             enter(j, a, change(u, kind, a)), job[j].pc = "idle", UNCHANGED changeVars,
             kind = "change" /\ a \in Addresses \ overlapped => ~pending[a].held
      PROVE  HoldInv'
  <2> DEFINE r == change(u, kind, a)
  <2>1. r.pc = "chgRead" /\ r.email = a /\ r.kind = kind
    BY DEF change, NoJob
  <2>2. enter(j, a, r)
    BY <1>5
  <2> HIDE DEF r
  <2>3. UNCHANGED <<link, heldBy>>
    BY <1>5 DEF changeVars
  <2>4. QED
    BY <1>0, <1>5, <2>1, <2>2, <2>3, HoldsEntered
<1>6. ASSUME NEW j \in Jobs, NEW u \in Members, NEW e \in Addresses, emailChangeStart(j, u, e)
      PROVE  HoldInv'
  <2>1. ~pending[e].held /\ job[j].pc = "idle" /\ enter(j, e, change(u, "change", e))
        /\ UNCHANGED changeVars
    BY <1>6 DEF emailChangeStart, Free, Ready
  <2>2. QED
    BY <1>5, <2>1
<1>7. ASSUME NEW j \in Jobs, NEW u \in Members, verifySend(j, u) PROVE HoldInv'
  <2>1. job[j].pc = "idle" /\ enter(j, emailOf[u], change(u, "confirm", emailOf[u]))
        /\ UNCHANGED changeVars
    BY <1>7 DEF verifySend, Ready
  <2>2. QED
    BY <1>5, <2>1
<1>8. ASSUME NEW j \in Jobs, NEW u \in Members, resendChange(j, u) PROVE HoldInv'
  <2>1. PICK v \in VerifyLinks : v = Current(u) /\ link[v].live
    BY <1>8 DEF resendChange, Current, AccountType
  <2>2. PICK a, kind : a = link[v].email /\ kind = link[v].kind
    OBVIOUS
  <2>3. job[j].pc = "idle" /\ enter(j, a, change(u, kind, a)) /\ UNCHANGED changeVars
    BY <1>8, <2>1, <2>2 DEF resendChange, Ready
  <2>4. ASSUME kind = "change", a \in Addresses \ overlapped PROVE ~pending[a].held
    <3>1. HoldOf(a)
      BY <2>4 DEF HoldInv
    <3>2. heldBy[a] # Nil
      BY <2>1, <2>2, <2>4, <3>1 DEF HoldOf, Loose
    <3>3. QED
      BY <3>1, <3>2 DEF HoldOf
  <2>5. QED
    BY <1>5, <2>3, <2>4
<1>9. ASSUME NEW j \in Jobs, NEW u \in Members, NEW e \in Addresses, editEmail(j, u, e)
      PROVE  HoldInv'
  <2> DEFINE r == [NoJob EXCEPT !.pc = "assign", !.email = e, !.holder = u]
  <2>1. r.pc = "assign" /\ r.email = e
    BY DEF NoJob
  <2>2. enter(j, e, r) /\ job[j].pc = "idle" /\ UNCHANGED <<link, heldBy>>
    BY <1>9 DEF editEmail, Ready, changeVars
  <2> HIDE DEF r
  <2>3. QED
    BY <1>0, <2>1, <2>2, HoldsEntered
<1>10. ASSUME NEW j \in Jobs, NEW v \in VerifyLinks, issueEmailChange(j, v) PROVE HoldInv'
  <2>1. PICK a : a = job[j].email /\ job[j].pc = "chgWrite"
    BY <1>10 DEF issueEmailChange
  <2>2. JobOK(job[j])
    BY DEF AccountType
  <2>3. job'[j].pc = "chgSend" /\ \A k \in Jobs \ {j} : job'[k] = job[k]
    <3> DEFINE r == [job[j] EXCEPT !.pc = "chgSend", !.found = v]
    <3>1. job' = [job EXCEPT ![j] = r]
      BY <1>10 DEF issueEmailChange
    <3>2. r.pc = "chgSend"
      BY <2>2 DEF JobOK, IsJob, Fields
    <3> HIDE DEF r
    <3>3. QED
      BY <3>1, <3>2, JobChanges
  <2>4. overlapped \subseteq overlapped' /\ Loose' \subseteq overlapped'
    BY <1>10 DEF issueEmailChange, noteLoose
  <2>5. PICK rec, u : heldBy' \in {heldBy, released(rec), [released(rec) EXCEPT ![a] = u]}
                      /\ (job[j].kind # "change" => heldBy' \in {heldBy, released(rec)})
    BY <1>10, <2>1 DEF issueEmailChange
  <2>6. \A e \in Addresses : heldBy'[e] # Nil => heldBy[e] # Nil \/ (e = a /\ job[j].kind = "change")
    <3>1. \A e \in Addresses : [released(rec) EXCEPT ![a] = u][e] = IF e = a THEN u ELSE released(rec)[e]
      BY DEF released
    <3>2. QED
      BY <1>1, <2>5, <3>1
  <2> SUFFICES ASSUME NEW e \in Addresses \ overlapped' PROVE HoldOf(e)'
    BY DEF HoldInv
  <2>7. HoldOf(e) /\ e \notin Loose'
    BY <2>4 DEF HoldInv
  <2>8. Claiming(e)' \subseteq Claiming(e) \ {j} /\ \A k \in Claiming(e)' : job'[k] = job[k]
    BY <2>3 DEF Claiming
  <2>9. CASE e = a /\ job[j].kind = "change"
    <3>1. j \in Claiming(e)
      BY <2>1, <2>9 DEF Claiming
    <3>2. Claiming(e)' = {}
      BY <2>7, <2>8, <3>1 DEF HoldOf
    <3>3. ~pending'[e].held
      BY <1>0, <2>1, <2>7, <2>9, <3>1 DEF HoldOf
    <3>4. QED
      BY <2>7, <3>2, <3>3 DEF HoldOf
  <2>10. CASE ~(e = a /\ job[j].kind = "change")
    <3>1. heldBy'[e] # Nil => heldBy[e] # Nil
      BY <2>6, <2>10
    <3>2. QED
      BY <1>0, <2>7, <2>8, <3>1 DEF HoldOf
  <2>11. QED
    BY <2>9, <2>10
<1>11. QED
  BY <1>2, <1>3, <1>4, <1>6, <1>7, <1>8, <1>9, <1>10 DEF ChangeNext

(* The invariant of registration and changes of address.                   *)
LEMMA AccountAlways ==
    ASSUME NEW CONSTANT founders, NEW CONSTANT n
    PROVE  AccountSpec(founders, n) => []AccountInv
<1>1. RegistrationInit(founders, n) /\ ChangeInit => AccountInv
  BY AccountStart
<1>2. AccountInv /\ [AccountNext]_<<registrationVars, changeVars>> => AccountInv'
  <2> SUFFICES ASSUME AccountInv, [AccountNext]_<<registrationVars, changeVars>> PROVE AccountInv'
    OBVIOUS
  <2>1. CASE AccountNext
    <3>1. AccountType' /\ InvitesInv'
      BY <2>1, InvitesStep DEF AccountInv, InvitesInv
    <3>2. HoldInv'
      BY <2>1, HoldChange, HoldRegistration DEF AccountInv, AccountNext
    <3>3. QED
      BY <3>1, <3>2 DEF AccountInv, InvitesInv
  <2>2. CASE UNCHANGED <<registrationVars, changeVars>>
    <3>1. UNCHANGED <<pending, invite, job, bornOf, loosened, overlapped, link, linkOf, heldBy>>
      BY <2>2 DEF registrationVars, changeVars
    <3>2. AccountType'
      BY <3>1 DEF AccountInv, AccountType
    <3>3. InvitesInv'
      BY <3>1, InvitesAlone DEF AccountInv, InvitesInv, Open
    <3>4. HoldInv'
      BY <3>1, HoldsAlone DEF AccountInv, NoNewClaim
    <3>5. QED
      BY <3>2, <3>3, <3>4 DEF AccountInv, InvitesInv
  <2>3. QED
    BY <2>1, <2>2
<1>3. QED
  BY <1>1, <1>2, PTL DEF AccountSpec

(* However many requests are under way, an invitation makes one account,   *)
(* unless two completions held it at one time or one stopped between its   *)
(* account and consumeInvite, and its count of uses stays within the cap   *)
(* and one per further request (registration.ts, claimInviteUse,           *)
(* consumeInvite).                                                         *)
THEOREM InvitesAlwaysBounded ==
    ASSUME NEW CONSTANT founders, NEW CONSTANT n
    PROVE  AccountSpec(founders, n) => []InviteBounded
<1>1. AccountInv => InviteBounded
  <2> SUFFICES ASSUME AccountInv PROVE InviteBounded
    OBVIOUS
  <2>1. ASSUME NEW c \in Invites \ loosened
        PROVE  Cardinality({u \in Members : bornOf[u] = c}) <= 1
    <3>1. \A u, v \in BornOf(c) : u = v
      BY DEF AccountInv, BirthInv, BirthOf
    <3>2. CASE BornOf(c) = {}
      BY <3>2, FS_EmptySet DEF BornOf
    <3>3. CASE BornOf(c) # {}
      <4>1. PICK u : BornOf(c) = {u}
        BY <3>1, <3>3
      <4>2. Cardinality({u}) = 1
        BY FS_Singleton
      <4>3. QED
        BY <4>1, <4>2 DEF BornOf
    <3>4. QED
      BY <3>2, <3>3
  <2>2. ASSUME NEW c \in Invites PROVE invite[c].uses <= MaxUses + Cardinality(Jobs) - 1
    <3>1. Uses(c) \subseteq Jobs
      BY DEF Uses
    <3>2. PICK x, z : x = Cardinality(Uses(c)) /\ x \in Nat /\ z = Cardinality(Jobs) /\ z \in Nat
      BY <3>1, UsesCounted
    <3>3. invite[c].uses \in Nat /\ invite[c].uses + x <= MaxUses + z - 1
      BY <3>2 DEF AccountInv, AccountType, InviteRows, UseInv
    <3>4. MaxUses \in Nat
      BY RegistrationAssumption
    <3>5. invite[c].uses <= MaxUses + z - 1
      BY <3>2, <3>3, <3>4
    <3>6. QED
      BY <3>2, <3>5
  <2>3. QED
    BY <2>1, <2>2 DEF InviteBounded
<1>2. QED
  BY <1>1, AccountAlways, PTL

(* A pending registration and a pending change do not hold the same        *)
(* address, unless two requests for it overlapped or a change link of it   *)
(* has outlived its hold (routes/register.ts, emailChangeRoutes.ts).       *)
THEOREM AddressAlwaysHeldOnce ==
    ASSUME NEW CONSTANT founders, NEW CONSTANT n
    PROVE  AccountSpec(founders, n) => []AddressHeldOnce
<1>1. AccountInv => AddressHeldOnce
  BY DEF AccountInv, HoldInv, HoldOf, AddressHeldOnce
<1>2. QED
  BY <1>1, AccountAlways, PTL
=============================================================================
