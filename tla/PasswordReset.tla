---------------------------- MODULE PasswordReset ----------------------------
(***************************************************************************)
(* The password reset of one user (src/passwordReset.ts,                   *)
(* src/routes/reset.ts): links by mail, the strong-factor challenge, the   *)
(* new password, the end of all sessions, and the ticket that signs the    *)
(* browser in.  All of it but sessions and password is in Redis, one       *)
(* command at a time; requests interleave between commands.                *)
(***************************************************************************)
EXTENDS SendLimiter, FiniteSets

CONSTANTS
    Links,          \* reset tokens
    Handlers,       \* requests being handled
    NoLink,
    MethodSets,     \* what challengeFor may answer: sets of strong methods
    MaxAttempts,    \* MAX_CHALLENGE_ATTEMPTS
    MaxResetSends,  \* RL_MAX_SENDS
    MaxPasswords,   \* bound: passwords the user has had
    MaxLogins       \* bound: sign-ins with a password

ASSUME ResetAssumption ==
    /\ NoLink \notin Links \cup Handlers
    /\ {MaxAttempts, MaxResetSends, MaxPasswords, MaxLogins} \subseteq Nat \ {0}
    /\ MethodSets \subseteq SUBSET {"totp", "passkey"}

VARIABLES
    limiter,        \* pwreset:rl:<email>
    token,          \* pwreset:tok:<hash>: failed attempts, and whether it will expire
    pointer,        \* pwreset:user:<sub>
    challenged,     \* pwreset:pk:<hash>: links with a challenge
    methods,        \* the strong factors asked of this user
    handler,        \* the requests
    mailed,         \* links in the user's mailbox
    password,       \* number of the password in force
    opened,         \* live sessions: the number of the password they rest on
    tickets,        \* pwreset:ticket:<hash>: likewise
    logins,         \* sign-ins so far
    died,           \* history: links that were live and no longer are
    contested,      \* history: links with a confirmation under way when they died
    inFlight,       \* history: passwords with a sign-in under way at a revocation
    unended         \* history: whether a request stopped between its new password and the
                    \* end of the sessions, and none has ended them since

resetVars == <<limiter, token, pointer, challenged, methods, handler, mailed, password,
               opened, tickets, logins, died, contested, inFlight, unended>>

Passwords == 0..MaxPasswords
Dead == [live |-> FALSE, attempts |-> 0, expires |-> FALSE]
AtRest == [pc |-> "idle", link |-> NoLink, attempts |-> 0, password |-> 0, admin |-> FALSE]
ResetLabels == {"idle", "issue", "replace", "send", "confirm", "consume", "revoke",
                "ticket", "login"}

ResetTypeOK ==
    /\ limiter \in Limiters(MaxResetSends)
    /\ token \in [Links -> [live : BOOLEAN, attempts : 0..MaxAttempts - 1, expires : BOOLEAN]]
    /\ pointer \in Links \cup {NoLink}
    /\ methods \in MethodSets
    /\ handler \in [Handlers -> [pc : ResetLabels, link : Links \cup {NoLink},
                                 attempts : 0..MaxAttempts - 1, password : Passwords,
                                 admin : BOOLEAN]]
    /\ UNION {challenged, mailed, died, contested} \subseteq Links
    /\ password \in Passwords
    /\ UNION {opened, tickets, inFlight} \subseteq Passwords
    /\ logins \in 0..MaxLogins
    /\ unended \in BOOLEAN

ResetInit ==
    /\ limiter = NoSends
    /\ token = [l \in Links |-> Dead]
    /\ pointer = NoLink
    /\ methods \in MethodSets
    /\ handler = [h \in Handlers |-> AtRest]
    /\ password = 0 /\ opened = {0} /\ logins = 0
    /\ challenged = {} /\ mailed = {} /\ tickets = {}
    /\ died = {} /\ contested = {} /\ inFlight = {} /\ unended = FALSE

-----------------------------------------------------------------------------
(* What several handlers do.                                               *)

goto(h, pc) == handler' = [handler EXCEPT ![h].pc = pc]
finish(h) == handler' = [handler EXCEPT ![h] = AtRest]

\* Confirmations that have read the record of a link and will still write or delete it.
Confirming(l) ==
    {h \in Handlers : handler[h].link = l
                        /\ handler[h].pc \in {"confirm", "consume"}}

\* What DEL of pwreset:tok and pwreset:pk by handler h means, but for the record itself.
bury(h, l) ==
    /\ challenged' = challenged \ {l}
    /\ died' = died \cup ({l} \ {NoLink})
    /\ contested' = IF Confirming(l) \subseteq {h} THEN contested ELSE contested \cup {l}

kill_Pointer(h, l) == bury(h, l) /\ UNCHANGED token
kill(h, l) == bury(h, l) /\ token' = [token EXCEPT ![l] = Dead]

-----------------------------------------------------------------------------
(* POST /internal/reset/request                                            *)

\* Checks, and the slot; an unknown user or a refused slot ends in silence.
requestLink(h) ==
    /\ handler[h].pc = "idle"
    /\ MayReserve(limiter, MaxResetSends)
    /\ \E l \in Links : ~token[l].live /\ l \notin died
    /\ limiter' = AfterReserve(limiter)
    /\ goto(h, "issue")
    /\ UNCHANGED <<token, pointer, challenged, methods, mailed, password, opened, tickets,
                   logins, died, contested, inFlight, unended>>

\* An administrator mails a link: no slot is taken, and none is given back.
sendReset(h) ==
    /\ handler[h].pc = "idle"
    /\ \E l \in Links : ~token[l].live /\ l \notin died
    /\ handler' = [handler EXCEPT ![h].pc = "issue", ![h].admin = TRUE]
    /\ UNCHANGED <<limiter, token, pointer, challenged, methods, mailed, password, opened,
                   tickets, logins, died, contested, inFlight, unended>>

\* issueResetToken: GET of the pointer.
readPointer(h) ==
    /\ handler[h].pc = "issue"
    /\ handler' = [handler EXCEPT ![h].pc = "replace", ![h].link = pointer]
    /\ UNCHANGED <<limiter, token, pointer, challenged, methods, mailed, password, opened,
                   tickets, logins, died, contested, inFlight, unended>>

\* issueResetToken: DEL of the previous link, SET of the new one and of the pointer.
issueResetToken(h, l) ==
    /\ handler[h].pc = "replace"
    /\ ~token[l].live /\ l \notin died
    /\ bury(h, handler[h].link)
    /\ token' = [k \in Links |-> CASE k = l -> [Dead EXCEPT !.live = TRUE, !.expires = TRUE]
                                   [] k # l /\ k = handler[h].link -> Dead
                                   [] OTHER -> token[k]]
    /\ pointer' = l
    /\ handler' = [handler EXCEPT ![h].pc = "send", ![h].link = l]
    /\ UNCHANGED <<limiter, methods, mailed, password, opened, tickets, logins, inFlight,
                   unended>>

sendLink(h) ==
    /\ handler[h].pc = "send"
    /\ \/ mailed' = mailed \cup {handler[h].link} /\ UNCHANGED limiter
       \/ /\ limiter' = IF handler[h].admin THEN limiter ELSE AfterRelease(limiter)
          /\ UNCHANGED mailed
    /\ finish(h)
    /\ UNCHANGED <<token, pointer, challenged, methods, password, opened, tickets, logins,
                   died, contested, inFlight, unended>>

-----------------------------------------------------------------------------
(* POST /internal/reset/passkey-options and /internal/reset/confirm         *)

\* What POST /internal/reset/validate answers: the link is in use by its owner, and live.
Usable(l) == l \in mailed /\ token[l].live

passkeyOptions(l) ==
    /\ Usable(l) /\ l \notin challenged
    /\ "passkey" \in methods
    /\ challenged' = challenged \cup {l}
    /\ UNCHANGED <<limiter, token, pointer, methods, handler, mailed, password, opened,
                   tickets, logins, died, contested, inFlight, unended>>

\* The method an answer brings: one that challengeFor names, or none where it names none.
Answers == IF methods = {} THEN {"none"} ELSE methods

\* getResetToken, liveIdentity, the password's form; a passkey answer takes its challenge.
confirm(h, l, m) ==
    /\ handler[h].pc = "idle"
    /\ Usable(l)
    /\ password < MaxPasswords
    /\ m = "passkey" => l \in challenged
    /\ challenged' = IF m = "passkey" THEN challenged \ {l} ELSE challenged
    /\ handler' = [handler EXCEPT ![h] = [AtRest EXCEPT !.pc = "confirm", !.link = l,
                                                        !.attempts = token[l].attempts]]
    /\ UNCHANGED <<limiter, token, pointer, methods, mailed, password, opened, tickets,
                   logins, died, contested, inFlight, unended>>

Burned_Late(attempts) == attempts > MaxAttempts
Burned(attempts) == attempts >= MaxAttempts

\* bumpResetAttempts after a wrong answer: the count read at the start plus one is
\* written, or the link is burned, pointer and all.
failChallenge(h) ==
    LET l == handler[h].link
        attempts == handler[h].attempts + 1 IN
    /\ handler[h].pc = "confirm" /\ methods # {}
    /\ IF Burned(attempts)
         THEN kill(h, l) /\ pointer' = NoLink
         ELSE /\ token' = [token EXCEPT ![l].live = TRUE, ![l].attempts = attempts]
              /\ UNCHANGED <<pointer, challenged, died, contested>>
    /\ finish(h)
    /\ UNCHANGED <<limiter, methods, mailed, password, opened, tickets, logins, inFlight,
                   unended>>

\* A right answer, or none needed: argon2 and the UPDATE.
writePassword(h) ==
    /\ handler[h].pc = "confirm" /\ password < MaxPasswords
    /\ password' = password + 1
    /\ handler' = [handler EXCEPT ![h].pc = "consume", ![h].password = password + 1]
    /\ UNCHANGED <<limiter, token, pointer, challenged, methods, mailed, opened, tickets,
                   logins, died, contested, inFlight, unended>>

\* An administrator sets the password; there is no link and no ticket.
setPassword(h) ==
    /\ handler[h].pc = "idle" /\ password < MaxPasswords
    /\ password' = password + 1
    /\ handler' = [handler EXCEPT ![h].pc = "revoke", ![h].password = password + 1,
                                  ![h].admin = TRUE]
    /\ UNCHANGED <<limiter, token, pointer, challenged, methods, mailed, opened, tickets,
                   logins, died, contested, inFlight, unended>>

consumeResetToken(h) ==
    /\ handler[h].pc = "consume"
    /\ kill(h, handler[h].link)
    /\ pointer' = NoLink
    /\ goto(h, "revoke")
    /\ UNCHANGED <<limiter, methods, mailed, password, opened, tickets, logins, inFlight,
                   unended>>

\* Handlers that will yet open a session, or mint a ticket for one.
SigningIn == {h \in Handlers : handler[h].pc \in {"consume", "revoke", "ticket", "login"}}

SessionsLeft_Recent == {p \in opened : p + 1 = password}
SessionsLeft == {}

\* DELETE FROM sessions; the fan-out is remove of SsoSessions.
revokeSessions(h) ==
    /\ handler[h].pc = "revoke"
    /\ opened' = SessionsLeft
    /\ inFlight' = inFlight \cup ((tickets \cup {handler[k].password : k \in SigningIn})
                                    \ {password})
    /\ unended' = FALSE
    /\ IF handler[h].admin THEN finish(h) ELSE goto(h, "ticket")
    /\ UNCHANGED <<limiter, token, pointer, challenged, methods, mailed, password, tickets,
                   logins, died, contested>>

mintLoginTicket(h) ==
    /\ handler[h].pc = "ticket"
    /\ tickets' = tickets \cup {handler[h].password}
    /\ finish(h)
    /\ UNCHANGED <<limiter, token, pointer, challenged, methods, mailed, password, opened,
                   logins, died, contested, inFlight, unended>>

\* GET /reset/complete: GETDEL of the ticket; signedIn is its createSession.
redeemLoginTicket(h, p) ==
    /\ handler[h].pc = "idle" /\ p \in tickets
    /\ tickets' = tickets \ {p}
    /\ handler' = [handler EXCEPT ![h].pc = "login", ![h].password = p]
    /\ UNCHANGED <<limiter, token, pointer, challenged, methods, mailed, password, opened,
                   logins, died, contested, inFlight, unended>>

Halfway(h) == handler[h].pc \in {"consume", "revoke"}

\* A query or a command fails, or the process dies: what was done stays done.
resetFails(h) ==
    /\ handler[h].pc # "idle"
    /\ unended' = (unended \/ Halfway(h))
    /\ finish(h)
    /\ UNCHANGED <<limiter, token, pointer, challenged, methods, mailed, password, opened,
                   tickets, logins, died, contested, inFlight>>

-----------------------------------------------------------------------------
(* Everything else that happens to this state.                             *)

\* A sign-in reads the password hash and opens its session later (LoginTxn).
signIn(h) ==
    /\ handler[h].pc = "idle" /\ logins < MaxLogins
    /\ logins' = logins + 1
    /\ handler' = [handler EXCEPT ![h].pc = "login", ![h].password = password]
    /\ UNCHANGED <<limiter, token, pointer, challenged, methods, mailed, password, opened,
                   tickets, died, contested, inFlight, unended>>

signedIn(h) ==
    /\ handler[h].pc = "login"
    /\ opened' = opened \cup {handler[h].password}
    /\ finish(h)
    /\ UNCHANGED <<limiter, token, pointer, challenged, methods, mailed, password, tickets,
                   logins, died, contested, inFlight, unended>>

linkExpires(l) ==
    /\ token[l].live /\ token[l].expires
    /\ kill(NoLink, l)
    /\ pointer' = IF pointer = l THEN NoLink ELSE pointer
    /\ UNCHANGED <<limiter, methods, handler, mailed, password, opened, tickets, logins,
                   inFlight, unended>>

timePasses ==
    /\ limiter' \in Later(limiter, MaxResetSends)
    /\ UNCHANGED <<token, pointer, challenged, methods, handler, mailed, password, opened,
                   tickets, logins, died, contested, inFlight, unended>>

ResetNext ==
    \/ \E h \in Handlers :
         \/ requestLink(h) \/ sendReset(h) \/ readPointer(h) \/ sendLink(h)
         \/ setPassword(h)
         \/ failChallenge(h) \/ writePassword(h) \/ consumeResetToken(h)
         \/ revokeSessions(h) \/ mintLoginTicket(h) \/ signIn(h) \/ signedIn(h)
         \/ resetFails(h) \/ \E p \in tickets : redeemLoginTicket(h, p)
         \/ \E l \in Links : issueResetToken(h, l) \/ \E m \in Answers : confirm(h, l, m)
    \/ \E l \in Links : passkeyOptions(l) \/ linkExpires(l)
    \/ timePasses

-----------------------------------------------------------------------------
(* Properties.                                                             *)

\* A link that was used, replaced, burned or has expired does not work again, unless
\* a confirmation of it was under way when it died: bumpResetAttempts writes the whole
\* record back and so makes the link again.
LinkStaysDead == \A l \in died \ contested : ~token[l].live

\* The record of a live link has a time to live.
LinkHasDeadline == \A l \in Links : token[l].live => token[l].expires

\* Unless a request is between the new password and the end of the sessions, or has
\* stopped there, a live session rests on the password in force, or its sign-in, or its
\* ticket, was under way while the sessions were ended: POST /internal/reset/confirm ends
\* the sessions after the UPDATE.
OldPasswordOut ==
    ~unended /\ (\A h \in Handlers : ~Halfway(h)) => opened \subseteq {password} \cup inFlight
=============================================================================
