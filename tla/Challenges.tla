----------------------------- MODULE Challenges -----------------------------
(* The portal pages whose actions the server may answer with a challenge:  *)
(* the user's own security pages (multi-factor switch, authenticators,     *)
(* passkeys, password) and the administrator's MFA reset.  A refused       *)
(* action opens ChallengeModal; passing it runs the action again.  The     *)
(* card, the page and the server are concurrent: a verification may still  *)
(* be on the wire when its card is cancelled, switched or unmounted.       *)
EXTENDS Naturals, Sequences

CONSTANTS
    MaxAsks,     \* for each page, clicks that ask for an action
    MaxCards,    \* for each page, challenge cards opened
    MaxRuns,     \* passkey ceremonies started on one card
    MaxMinted    \* action tokens minted

VARIABLES
    required,    \* the portal's step-up switch
    sudo,        \* the session's step-up window is fresh
    slot,        \* the card the actor's one stored passkey challenge is for, or 0
    tokens,      \* action tokens that were minted and not yet presented
    minted,      \* their number so far
    screen,      \* the mounted page, and the methods the account has for a challenge
    cards,       \* every challenge card opened so far
    wire,        \* requests on their way to the server or back
    asks         \* what the user asked for, and what came of it

challengeVars == <<required, sudo, slot, tokens, minted, screen, cards, wire, asks>>

Send(r) == wire' = wire \cup {r}
Swap(r, s) == wire' = (wire \ {r}) \cup {s}
Took(r) == wire' = wire \ {r}
Req(what, k, i) ==
    [what |-> what, ask |-> k, card |-> i, run |-> 0, method |-> "none", tok |-> 0,
     again |-> FALSE, back |-> FALSE, ans |-> "none"]
Back(r, ans) == [r EXCEPT !.back = TRUE, !.ans = ans]

-----------------------------------------------------------------------------
(* The card, as a function of its state.                                   *)
startPhase(m) == CASE m = "passkey" -> "waiting" [] m = "email" -> "send" [] OTHER -> "none"

ChallengeModal(kind, acc, k) ==
    LET m == IF acc = << >> THEN "none" ELSE Head(acc)
    IN  [kind |-> kind, acc |-> acc, method |-> m, phase |-> startPhase(m), busy |-> FALSE,
         run |-> 0, auto |-> FALSE, left |-> "no", next |-> k, tok |-> 0]

(* The first way out wins; what it hands to the page runs 150 ms later.    *)
finish_Again(c, how, k, tok) == [c EXCEPT !.left = how, !.next = k, !.tok = tok]
finish(c, how, k, tok) ==
    IF c.left # "no" THEN c ELSE [c EXCEPT !.left = how, !.next = k, !.tok = tok]

Mounted(i) == i \in 1..Len(cards) /\ screen.shown = i
Waiting(c) == c.method = "passkey" /\ c.phase = "waiting"
Update(i, c) == cards' = [cards EXCEPT ![i] = c]

(* A ceremony is known by its number on the card: a later one, or a        *)
(* cancelled wait, makes every answer to it a no-op.                       *)
live(r) == r.run = cards[r.card].run
runPasskey(i, c) ==
    /\ c.run < MaxRuns
    /\ Update(i, [c EXCEPT !.method = "passkey", !.phase = "waiting", !.run = @ + 1, !.auto = TRUE])
    /\ Send([Req("options", c.next, i) EXCEPT !.run = c.run + 1, !.method = "passkey"])
    /\ UNCHANGED <<required, sudo, slot, tokens, minted, screen, asks>>

autoRun(i) ==
    /\ Mounted(i) /\ cards[i].acc # << >> /\ Waiting(cards[i]) /\ ~cards[i].auto
    /\ runPasskey(i, cards[i])
tryAgain(i) ==
    /\ Mounted(i) /\ cards[i].method = "passkey" /\ ~Waiting(cards[i])
    /\ runPasskey(i, cards[i])

cancelWaiting(i) ==
    /\ Mounted(i) /\ Waiting(cards[i]) /\ cards[i].auto
    /\ Update(i, [cards[i] EXCEPT !.run = @ + 1, !.busy = FALSE, !.phase = "failure"])
    /\ UNCHANGED <<required, sudo, slot, tokens, minted, screen, wire, asks>>

(* The options arrive, the device asks the user, the assertion is sent;    *)
(* each wait ends in nothing once the ceremony is not live any more.       *)
Fails(r) == [cards[r.card] EXCEPT !.phase = "failure", !.busy = FALSE]
ceremony(r) ==
    LET c == cards[r.card]
    IN  /\ \/ r.what = "options" /\ r.back
           \/ r.what = "dialog"
        /\ \/ ~live(r) /\ Took(r) /\ UNCHANGED cards
           \/ live(r) /\ r.what = "options" /\ r.ans = "ok"
              /\ Swap(r, [r EXCEPT !.what = "dialog", !.back = FALSE, !.ans = "none"])
              /\ UNCHANGED cards
           \/ live(r) /\ (r.what = "dialog" \/ r.ans = "error")
              /\ Took(r) /\ Update(r.card, Fails(r))
           \/ live(r) /\ r.what = "dialog"
              /\ Swap(r, [r EXCEPT !.what = "verify"])
              /\ Update(r.card, [c EXCEPT !.busy = TRUE])
        /\ UNCHANGED <<required, sudo, slot, tokens, minted, screen, asks>>

verifyCode(i) ==
    LET c == cards[i]
    IN  /\ Mounted(i) /\ ~c.busy
        /\ c.method = "totp" \/ (c.method = "email" /\ c.phase # "send")
        /\ Update(i, [c EXCEPT !.busy = TRUE])
        /\ Send([Req("verify", c.next, i) EXCEPT !.method = c.method])
        /\ UNCHANGED <<required, sudo, slot, tokens, minted, screen, asks>>
verifyPassword(i) ==
    LET c == cards[i]
    IN  /\ Mounted(i) /\ ~c.busy /\ c.method = "password"
        /\ Update(i, [c EXCEPT !.busy = TRUE])
        /\ Send([Req("verify", c.next, i) EXCEPT !.method = "password"])
        /\ UNCHANGED <<required, sudo, slot, tokens, minted, screen, asks>>

(* The answer to a verification.  A passkey's counts only while live; a    *)
(* code's or a password's always, and always frees the card.               *)
verified(r) ==
    LET c == cards[r.card]
        d == [c EXCEPT !.busy = FALSE]
        pk == r.method = "passkey"
    IN  /\ r.what = "verify" /\ r.back
        /\ Took(r)
        /\ cards' = [cards EXCEPT ![r.card] =
             IF pk /\ ~live(r) THEN c
             ELSE IF r.ans = "ok" THEN finish(d, "success", r.ask, r.tok)
             ELSE IF pk THEN Fails(r) ELSE d]
        /\ UNCHANGED <<required, sudo, slot, tokens, minted, screen, asks>>

doSendEmail(i) ==
    LET c == cards[i]
    IN  /\ Mounted(i) /\ c.method = "email"
        /\ c.phase = "send" => ~c.busy
        /\ ~\E r \in wire : r.what = "send" /\ r.card = i
        /\ Update(i, [c EXCEPT !.busy = @ \/ c.phase = "send"])
        /\ Send([Req("send", 0, i) EXCEPT !.again = c.phase # "send"])
        /\ UNCHANGED <<required, sudo, slot, tokens, minted, screen, asks>>
codeSent(r) ==
    LET c == cards[r.card]
    IN  /\ r.what = "send" /\ r.back
        /\ Took(r)
        /\ Update(r.card, [c EXCEPT !.phase = IF r.ans = "ok" THEN "check" ELSE @,
                                    !.busy = @ /\ r.again])
        /\ UNCHANGED <<required, sudo, slot, tokens, minted, screen, asks>>

(* The links to the other methods, shown on every card but a waiting       *)
(* passkey's and the password's.                                           *)
switchTo(i, m) ==
    LET c == [cards[i] EXCEPT !.method = m, !.phase = startPhase(m)]
    IN  /\ Mounted(i) /\ ~Waiting(cards[i]) /\ cards[i].method \notin {"none", "password"}
        /\ m # cards[i].method /\ \E j \in 1..Len(cards[i].acc) : cards[i].acc[j] = m
        /\ IF m = "passkey" THEN runPasskey(i, c)
           ELSE /\ Update(i, c)
                /\ UNCHANGED <<required, sudo, slot, tokens, minted, screen, wire, asks>>

dismiss(i) ==
    /\ Mounted(i) /\ ~Waiting(cards[i]) /\ cards[i].phase # "preparing" /\ cards[i].left = "no"
    /\ Update(i, finish(cards[i], "cancel", cards[i].next, 0))
    /\ UNCHANGED <<required, sudo, slot, tokens, minted, screen, wire, asks>>
toEnroll(i) ==
    /\ Mounted(i) /\ cards[i].acc = << >> /\ cards[i].left = "no"
    /\ cards[i].phase \notin {"preparing", "error"}
    /\ Update(i, finish(cards[i], "enroll", cards[i].next, 0))
    /\ UNCHANGED <<required, sudo, slot, tokens, minted, screen, wire, asks>>

-----------------------------------------------------------------------------
(* The pages.  Each task is asked for by a button, which the page offers   *)
(* only in certain forms; the two enrolment flows look at the window       *)
(* first, the others find out from the refusal.                            *)
Live == screen.view # "gone" /\ screen.gate = "ok" /\ screen.shown = 0
OfferedSecurity == IF screen.busy THEN {} ELSE {"toggle"}
OfferedTotp ==
    (IF screen.form = "idle" /\ ~screen.busy THEN {"setup"} ELSE {})
      \cup (IF screen.form = "open" /\ ~screen.busy THEN {"confirm"} ELSE {})
      \cup (IF screen.row = "ask" THEN {"remove"} ELSE {})
OfferedPasskeys ==
    (IF screen.form = "idle" /\ ~screen.busy THEN {"options"} ELSE {})
      \cup (IF screen.form = "open" THEN {"register"} ELSE {})
      \cup (IF screen.row = "ask" THEN {"remove"} ELSE {})
OfferedPassword == IF screen.form = "idle" /\ ~screen.busy THEN {"change"} ELSE {}
OfferedOrg == IF screen.form = "confirm" THEN {"reset"} ELSE {}
OfferedChange ==
    IF screen.busy THEN {}
    ELSE IF screen.form = "idle" THEN {"submit"}
    ELSE IF screen.form = "open" THEN {"start"} ELSE {}
Offered ==
    CASE screen.view = "change" -> OfferedChange [] screen.view = "security" -> OfferedSecurity
      [] screen.view = "totp" -> OfferedTotp
      [] screen.view = "passkeys" -> OfferedPasskeys [] screen.view = "password" -> OfferedPassword
      [] screen.view = "org" -> OfferedOrg [] OTHER -> {}

Starts(t, s) ==
    CASE t = "remove" -> [s EXCEPT !.row = "busy"]
      [] t = "reset" -> [s EXCEPT !.form = "idle"]
      [] t \in {"setup", "options"} -> s
      [] OTHER -> [s EXCEPT !.busy = TRUE]
click(t) ==
    LET k == Len(asks) + 1
    IN  /\ Live /\ t \in Offered /\ k <= MaxAsks[screen.view]
        /\ asks' = Append(asks, [task |-> t, done |-> 0, off |-> FALSE])
        /\ screen' = Starts(t, screen)
        /\ Send(Req(CASE t \in {"setup", "options"} -> "first" [] t = "submit" -> "check"
                      [] OTHER -> "act", k, 0))
        /\ UNCHANGED <<required, sudo, slot, tokens, minted, cards>>

(* Buttons that change only the page: the two-step remove of a row, the    *)
(* confirmation of the reset, the cancels.                                 *)
MethodRow ==
    /\ Live /\ screen.view \in {"totp", "passkeys"}
    /\ \/ screen.row = "idle" /\ screen' = [screen EXCEPT !.row = "ask"]
       \/ screen.row = "ask" /\ screen' = [screen EXCEPT !.row = "idle"]
    /\ UNCHANGED <<required, sudo, slot, tokens, minted, cards, wire, asks>>
cancelAdd ==
    /\ Live /\ screen.view \in {"totp", "passkeys", "change"} /\ screen.form = "open" /\ ~screen.busy
    /\ screen' = [screen EXCEPT !.form = "idle"]
    /\ UNCHANGED <<required, sudo, slot, tokens, minted, cards, wire, asks>>
confirmReset ==
    /\ Live /\ screen.view = "org"
    /\ screen' = [screen EXCEPT !.form = IF @ = "confirm" THEN "idle" ELSE "confirm"]
    /\ UNCHANGED <<required, sudo, slot, tokens, minted, cards, wire, asks>>
leave ==
    /\ screen.view # "gone"
    /\ screen' = [screen EXCEPT !.view = "gone", !.shown = 0]
    /\ UNCHANGED <<required, sudo, slot, tokens, minted, cards, wire, asks>>

(* Opening the card, or giving the open one another action to run.         *)
Mounts(kind, acc, k) ==
    IF screen.view = "gone" THEN UNCHANGED <<screen, cards>>
    ELSE IF screen.shown # 0
    THEN cards' = [cards EXCEPT ![screen.shown].next = k] /\ UNCHANGED screen
    ELSE /\ Len(cards) < MaxCards[screen.view]
         /\ cards' = Append(cards, ChallengeModal(kind, acc, k))
         /\ screen' = [screen EXCEPT !.shown = Len(cards) + 1]
Runs(k, tok, rest) == wire' = rest \cup {[Req("act", k, 0) EXCEPT !.again = TRUE, !.tok = tok]}

(* Entering a security page: a window with little left is challenged at    *)
(* once; a failed look lets the user in.                                   *)
SecurityGate(r) ==
    /\ r.what = "gate" /\ r.back /\ Took(r)
    /\ IF screen.view = "gone" THEN UNCHANGED <<screen, cards>>
       ELSE IF r.ans = "stale" /\ screen.acc # << >>
       THEN /\ cards' = Append(cards, ChallengeModal("gate", screen.acc, 0))
            /\ screen' = [screen EXCEPT !.gate = "modal", !.shown = Len(cards) + 1]
       ELSE screen' = [screen EXCEPT !.gate = "ok"] /\ UNCHANGED cards
    /\ UNCHANGED <<required, sudo, slot, tokens, minted, asks>>

(* The look before an enrolment: young enough, or unknown, and the action  *)
(* runs; otherwise the challenge comes first.                              *)
withFreshStepup(r) ==
    /\ r.what = "first" /\ r.back
    /\ \/ /\ r.ans = "stale" /\ Took(r) /\ Mounts("stepup", screen.acc, r.ask)
       \/ /\ r.ans \in {"fresh", "error"}
          /\ wire' = (wire \ {r}) \cup {Req("act", r.ask, 0)}
          /\ screen' = [screen EXCEPT !.busy = screen.view # "gone"] /\ UNCHANGED cards
    /\ UNCHANGED <<required, sudo, slot, tokens, minted, asks>>

(* A new address or name is first checked for being free, so that a taken  *)
(* one costs no challenge.                                                 *)
submitValue(r) ==
    /\ r.what = "check" /\ r.back
    /\ \/ /\ r.ans = "ok" /\ wire' = (wire \ {r}) \cup {Req("act", r.ask, 0)}
          /\ screen' = [screen EXCEPT !.form = "open"]
       \/ /\ r.ans = "error" /\ Took(r) /\ screen' = [screen EXCEPT !.busy = FALSE]
    /\ UNCHANGED <<required, sudo, slot, tokens, minted, cards, asks>>

(* The status arrives after a refusal: the card opens, with the action to  *)
(* run again.  A failed look gives the action up; a row says so.           *)
demandStepup(r) ==
    LET free == [screen EXCEPT !.busy = FALSE]
    IN  /\ r.what = "status" /\ r.back /\ Took(r)
        /\ IF r.ans = "error"
           THEN /\ screen' = IF asks[r.ask].task = "remove" /\ ~r.again
                             THEN [free EXCEPT !.row = "ask"] ELSE free
                /\ UNCHANGED cards
           ELSE IF screen.view # "gone" /\ screen.shown = 0
           THEN /\ Len(cards) < MaxCards[screen.view]
                /\ cards' = Append(cards, ChallengeModal("stepup", screen.acc, r.ask))
                /\ screen' = [free EXCEPT !.shown = Len(cards) + 1]
           ELSE Mounts("stepup", screen.acc, r.ask)
        /\ UNCHANGED <<required, sudo, slot, tokens, minted, asks>>

(* What an accepted action, or a failed one, does to each page.            *)
toggleMfa(r, s) == [s EXCEPT !.busy = FALSE]
startAdd(r, s) == [s EXCEPT !.busy = FALSE, !.form = IF r.ans = "ok" THEN "open" ELSE @]
confirmAdd(r, s) == [s EXCEPT !.busy = FALSE, !.form = IF r.ans = "ok" THEN "idle" ELSE @]
startAddPasskey(r, s) == [s EXCEPT !.busy = FALSE, !.form = IF r.ans = "ok" THEN "open" ELSE @]
saveName(r, s) == [s EXCEPT !.busy = FALSE, !.form = IF r.ans = "ok" THEN "idle" ELSE @]
doRemove(r, s) == [s EXCEPT !.row = IF r.ans = "ok" THEN "idle" ELSE IF r.again THEN @ ELSE "ask"]
start(r, s) == [s EXCEPT !.busy = FALSE, !.form = IF r.ans = "ok" THEN "done" ELSE @]
doChange(r, s) == [s EXCEPT !.busy = FALSE, !.form = IF r.ans = "ok" THEN "done" ELSE @]
ShowsChallenge(r, s) ==
    LET t == asks[r.ask].task
    IN  IF s.view = "gone" THEN s
        ELSE CASE t = "toggle" -> toggleMfa(r, s) [] t = "setup" -> startAdd(r, s)
               [] t = "confirm" -> confirmAdd(r, s) [] t = "options" -> startAddPasskey(r, s)
               [] t = "register" -> saveName(r, s) [] t = "remove" -> doRemove(r, s)
               [] t = "change" -> doChange(r, s) [] t \in {"submit", "start"} -> start(r, s)
               [] OTHER -> s

(* The answer to an action.  A refusal for want of a fresh window asks for *)
(* the status (the page is free meanwhile, except where the status is      *)
(* awaited before the page is freed); the reset's own refusal opens the    *)
(* action's card.                                                          *)
answered(r) ==
    LET t == asks[r.ask].task
    IN  /\ r.what = "act" /\ r.back
        /\ \/ /\ r.ans \in {"ok", "error"}
              /\ Took(r) /\ screen' = ShowsChallenge(r, screen) /\ UNCHANGED cards
           \/ /\ r.ans = "step_up_required" /\ t # "reset"
              /\ Swap(r, [Req("status", r.ask, 0) EXCEPT !.again = r.again])
              /\ screen' = IF t \in {"toggle", "change", "remove", "submit", "start"} THEN screen
                           ELSE [screen EXCEPT !.busy = FALSE]
              /\ UNCHANGED cards
           \/ r.ans = "step_up_required" /\ t = "reset" /\ Took(r) /\ UNCHANGED <<screen, cards>>
           \/ /\ r.ans = "action_challenge_required"
              /\ IF screen.view = "gone" \/ screen.shown # 0
                 THEN Took(r) /\ UNCHANGED <<screen, cards>>
                 ELSE /\ Len(cards) < MaxCards[screen.view]
                      /\ Swap(r, Req("prepare", r.ask, Len(cards) + 1))
                      /\ cards' = Append(cards, [ChallengeModal("action", << >>, r.ask)
                                                   EXCEPT !.phase = "preparing"])
                      /\ screen' = [screen EXCEPT !.shown = Len(cards) + 1]
        /\ UNCHANGED <<required, sudo, slot, tokens, minted, asks>>

(* The action's card shows its methods once the server sent them.          *)
ActionChallengeModal(r) ==
    /\ r.what = "prepare" /\ r.back /\ Took(r)
    /\ cards' = IF ~Mounted(r.card) THEN cards
                ELSE [cards EXCEPT ![r.card] =
                  IF r.ans = "ok" THEN ChallengeModal("action", screen.acc, r.ask)
                  ELSE [@ EXCEPT !.phase = "error"]]
    /\ UNCHANGED <<required, sudo, slot, tokens, minted, screen, asks>>

(* The card is gone 150 ms after its first way out, which then runs.       *)
exit(i) ==
    LET c == cards[i]
        shut == IF screen.view = "gone" THEN screen ELSE [screen EXCEPT !.shown = 0]
    IN  /\ c.left \in {"success", "cancel", "enroll"}
        /\ Update(i, [c EXCEPT !.left = "gone"])
        /\ \/ /\ c.left = "success" /\ c.kind # "gate"
              /\ screen' = shut /\ Runs(c.next, c.tok, wire) /\ UNCHANGED asks
           \/ /\ c.left = "success" /\ c.kind = "gate"
              /\ screen' = [shut EXCEPT !.gate = "ok"] /\ UNCHANGED <<wire, asks>>
           \/ /\ c.left = "cancel" /\ c.kind # "gate"
              /\ screen' = shut /\ asks' = [asks EXCEPT ![c.next].off = TRUE] /\ UNCHANGED wire
           \/ /\ c.left = "enroll" \/ (c.left = "cancel" /\ c.kind = "gate")
              /\ screen' = [shut EXCEPT !.view = "gone"] /\ UNCHANGED <<wire, asks>>
        /\ UNCHANGED <<required, sudo, slot, tokens, minted>>

-----------------------------------------------------------------------------
(* The server.  Any request may also fail, or its answer be lost, which    *)
(* the pages see as an error.                                              *)
callFails(r) ==
    /\ ~r.back /\ r.what # "dialog"
    /\ Swap(r, Back(r, "error"))
    /\ UNCHANGED <<required, sudo, slot, tokens, minted, screen, cards, asks>>

status(r) ==
    /\ r.what \in {"gate", "first", "status"} /\ ~r.back
    /\ \/ sudo /\ Swap(r, Back(r, "fresh"))
       \/ Swap(r, Back(r, "stale"))
    /\ UNCHANGED <<required, sudo, slot, tokens, minted, screen, cards, asks>>

deliverCode(r) ==
    /\ r.what \in {"options", "send", "check"} /\ ~r.back
    /\ Swap(r, Back(r, "ok"))
    /\ UNCHANGED <<required, sudo, slot, tokens, minted, screen, cards, asks>>

action_challenge(r) ==
    /\ r.what = "prepare" /\ ~r.back
    /\ Swap(r, Back(r, "ok"))
    /\ slot' = IF \E j \in 1..Len(screen.acc) : screen.acc[j] = "passkey" THEN r.card ELSE slot
    /\ UNCHANGED <<required, sudo, tokens, minted, screen, cards, asks>>

(* A right proof stamps the session, or mints a single-use token for the   *)
(* action and its target; the stored passkey challenge is taken either way.*)
stepup_verify(r) ==
    /\ r.what = "verify" /\ ~r.back /\ cards[r.card].kind # "action"
    /\ \/ Swap(r, Back(r, "ok")) /\ sudo' = TRUE
       \/ Swap(r, Back(r, "error")) /\ UNCHANGED sudo
    /\ UNCHANGED <<required, slot, tokens, minted, screen, cards, asks>>
action_token(r) ==
    LET pk == r.method = "passkey"
        known == pk => slot = r.card
    IN  /\ r.what = "verify" /\ ~r.back /\ cards[r.card].kind = "action"
        /\ slot' = IF pk THEN 0 ELSE slot
        /\ \/ /\ known /\ minted < MaxMinted /\ minted' = minted + 1
              /\ tokens' = tokens \cup {[id |-> minted + 1, action |-> "mfa.reset", target |-> screen.target]}
              /\ Swap(r, [Back(r, "ok") EXCEPT !.tok = minted + 1])
           \/ Swap(r, Back(r, "error")) /\ UNCHANGED <<tokens, minted>>
        /\ UNCHANGED <<required, sudo, screen, cards, asks>>

Does(k) == asks' = [asks EXCEPT ![k].done = @ + 1]
guarded(r) ==
    /\ r.what = "act" /\ ~r.back /\ asks[r.ask].task # "reset"
    /\ \/ ~sudo /\ Swap(r, Back(r, "step_up_required")) /\ UNCHANGED asks
       \/ sudo /\ Does(r.ask) /\ \E ans \in {"ok", "error"} : Swap(r, Back(r, ans))
    /\ UNCHANGED <<required, sudo, slot, tokens, minted, screen, cards>>

mfa_reset(r) ==
    LET presented == {t \in tokens : t.id = r.tok}
        good == {t \in presented : t.action = "mfa.reset" /\ t.target = screen.target}
    IN  /\ r.what = "act" /\ ~r.back /\ asks[r.ask].task = "reset"
        /\ \/ /\ required /\ ~sudo
              /\ Swap(r, Back(r, "step_up_required")) /\ UNCHANGED <<tokens, asks>>
           \/ /\ required /\ sudo /\ tokens' = tokens \ presented
              /\ IF good = {} THEN Swap(r, Back(r, "action_challenge_required")) /\ UNCHANGED asks
                 ELSE Does(r.ask) /\ \E ans \in {"ok", "error"} : Swap(r, Back(r, ans))
           \/ ~required /\ Swap(r, Back(r, "ok")) /\ Does(r.ask) /\ UNCHANGED tokens
        /\ UNCHANGED <<required, sudo, slot, minted, screen, cards>>

(* Time: the window ages out, a token and a stored challenge expire; the   *)
(* area's own gate verifies the administrator again.                       *)
windowLapses ==
    /\ \/ sudo' = FALSE /\ sudo /\ UNCHANGED <<tokens, slot>>
       \/ \E t \in tokens : tokens' = tokens \ {t} /\ UNCHANGED <<sudo, slot>>
       \/ slot # 0 /\ slot' = 0 /\ UNCHANGED <<sudo, tokens>>
       \/ screen.view = "org" /\ ~sudo /\ sudo' = TRUE /\ UNCHANGED <<tokens, slot>>
    /\ UNCHANGED <<required, minted, screen, cards, wire, asks>>

-----------------------------------------------------------------------------
ChallengeInit(v, acc, on, fresh) ==
    /\ required = on /\ sudo = fresh /\ slot = 0 /\ tokens = {} /\ minted = 0
    /\ screen = [view |-> v, gate |-> IF v \in {"totp", "passkeys", "password"} THEN "checking" ELSE "ok",
                 form |-> "idle", busy |-> FALSE, row |-> "idle", shown |-> 0, target |-> 1, acc |-> acc]
    /\ cards = << >> /\ asks = << >>
    /\ wire = IF v \in {"totp", "passkeys", "password"} THEN {Req("gate", 0, 0)} ELSE {}

UserStep ==
    \/ \E t \in {"toggle", "setup", "confirm", "options", "register", "remove", "change", "reset",
                "submit", "start"} : click(t)
    \/ MethodRow \/ cancelAdd \/ confirmReset \/ leave
CardStep ==
    \E i \in 1..Len(cards) :
        \/ autoRun(i) \/ tryAgain(i) \/ cancelWaiting(i) \/ verifyCode(i) \/ verifyPassword(i)
        \/ doSendEmail(i) \/ dismiss(i) \/ toEnroll(i) \/ exit(i)
        \/ \E m \in {"passkey", "totp", "email"} : switchTo(i, m)
PageStep ==
    \E r \in wire : ceremony(r) \/ verified(r) \/ codeSent(r) \/ SecurityGate(r) \/ withFreshStepup(r)
                 \/ submitValue(r) \/ demandStepup(r) \/ answered(r) \/ ActionChallengeModal(r)
ServerStep ==
    \/ \E r \in wire : callFails(r) \/ status(r) \/ deliverCode(r) \/ action_challenge(r) \/ stepup_verify(r)
                    \/ action_token(r) \/ guarded(r) \/ mfa_reset(r)
    \/ windowLapses
ChallengeNext == UserStep \/ CardStep \/ PageStep \/ ServerStep

(* Any page, any methods of the account in any order, either switch.       *)
Views == {"security", "totp", "passkeys", "password", "change", "org"}
Ways == {"passkey", "totp", "email", "password"}
ChallengeSpec ==
    /\ \E v \in Views, acc \in Seq(Ways), on, fresh \in BOOLEAN : ChallengeInit(v, acc, on, fresh)
    /\ [][ChallengeNext]_challengeVars

-----------------------------------------------------------------------------
(* One click, at most one effect: an action the user asked for once is     *)
(* carried out at most once, however many proofs of one card succeed and   *)
(* however late, and never after its challenge was cancelled               *)
(* (ChallengeModal.jsx:70, "only the first exit wins").                    *)
AskedOnce ==
    \A k \in 1..Len(asks) :
        /\ asks[k].done <= 1
        /\ asks[k].off => asks[k].done = 0
=============================================================================
