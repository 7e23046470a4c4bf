------------------------------ MODULE OrgPane ------------------------------
(* The organization area of the portal: OrgGate, and the two panes on      *)
(* which an administrator stages changes (a user's page, the roles page).  *)
(* Every request may be refused because the step-up window ran out: a      *)
(* refused read closes the gate and mounts the pane anew, a refused change *)
(* lays the challenge over the pane.  Answers come in any order, to panes  *)
(* and detail cards that may not be mounted any more.                      *)
EXTENDS Naturals, Sequences

CONSTANTS
    Entries,     \* the roles on the roles page, or the user on the user's page
    NoEntry,     \* nothing selected
    NoDetail,    \* no document shown
    MaxSent      \* requests sent after the pane was first open, for each pane

ASSUME EntriesAssumption == Entries # {}

VARIABLES
    server,      \* the version of each entry, the deleted ones, whether the window is fresh
    gate,        \* OrgGate: the state of the entry, the challenge laid over
    pane,        \* the mounted pane
    line,        \* requests, on their way or answered
    orgSent      \* number of requests so far

orgVars == <<server, gate, pane, line, orgSent>>

Changes == {"save", "other", "delete", "create", "password", "signout"}
First == CHOOSE s \in Entries : TRUE

Request(what, s) ==
    [what |-> what, entry |-> s, sel |-> pane.sel, edits |-> {}, then |-> "none", inst |-> pane.inst,
     card |-> pane.card, no |-> 0, back |-> FALSE, ans |-> "none", ver |-> 0]

(* Requests are numbered as they leave; r holds the answer being handled.  *)
Sends(r, rs) ==
    /\ orgSent + Len(rs) <= MaxSent[pane.view] /\ orgSent' = orgSent + Len(rs)
    /\ line' = (line \ r) \cup {[rs[k] EXCEPT !.no = orgSent + k] : k \in DOMAIN rs}
Drop(r) == Sends(r, << >>)

-----------------------------------------------------------------------------
(* The pane.  Mounting starts empty and loads; a detail card that loses    *)
(* its document is unmounted with what was staged on it, or typed into the *)
(* password fields of a user's Security section.                           *)
Unmount(p) ==
    [p EXCEPT !.card = @ + 1, !.shown = NoDetail, !.staged = {}, !.typed = FALSE, !.busy = FALSE]
TearDown(p) == [Unmount(p) EXCEPT !.inst = @ + 1, !.creating = FALSE]
Mount(p) ==
    [p EXCEPT !.inst = @ + 1, !.card = @ + 1, !.sec = "Profile", !.failed = FALSE, !.listed = FALSE,
              !.sel = IF p.view = "user" THEN @ ELSE NoEntry]
FirstRead(p) ==
    [Request(IF p.view = "user" THEN "detail" ELSE "list", p.sel) EXCEPT !.inst = p.inst, !.card = p.card]

(* A new document replaces the old one, and with it whatever was staged;   *)
(* a typed password stays.                                                 *)
Shows_Keep(p, d) == [p EXCEPT !.shown = d]
Shows(p, d) == [p EXCEPT !.shown = d, !.staged = {}]

Up == gate.state = "open"
Usable == Up /\ ~gate.over /\ ~pane.failed /\ ~pane.creating
Opens(r) ==
    /\ gate' = [gate EXCEPT !.state = "open"]
    /\ IF Up THEN UNCHANGED pane /\ Drop(r)
       ELSE pane' = Mount(pane) /\ Sends(r, <<FirstRead(Mount(pane))>>)
Closes(state, r, p, rs) ==
    /\ gate' = [gate EXCEPT !.state = state]
    /\ pane' = (IF Up THEN TearDown(p) ELSE p) /\ Sends(r, rs)

-----------------------------------------------------------------------------
(* OrgGate.                                                                *)
check ==
    /\ gate.state \in {"error", "blocked"}
    /\ Closes("loading", {}, pane, <<Request("gate", NoEntry)>>)
    /\ UNCHANGED server
checked(r) ==
    /\ r.what = "gate" /\ r.back
    /\ \/ r.ans = "ok" /\ Opens({r})
       \/ r.ans = "stale" /\ Closes("modal", {r}, pane, << >>)
       \/ r.ans = "error" /\ Closes("error", {r}, pane, << >>)
    /\ UNCHANGED server
modal ==
    /\ gate.state = "modal"
    /\ \/ Opens({}) /\ server' = [server EXCEPT !.fresh = TRUE]
       \/ Closes("blocked", {}, pane, << >>) /\ UNCHANGED server

demandReverify(r) ==
    /\ r.what = "over" /\ r.back /\ Drop({r})
    /\ gate' = [gate EXCEPT !.over = @ \/ r.ans = "stale"]
    /\ UNCHANGED <<server, pane>>
reverify ==
    /\ gate.over /\ gate' = [gate EXCEPT !.over = FALSE]
    /\ server' \in {server, [server EXCEPT !.fresh = TRUE]}
    /\ UNCHANGED <<pane, line, orgSent>>

(* Request r was refused for want of a fresh window; p is the pane after   *)
(* its own handling, rs what its closure sends next.                       *)
handleExpired_Always(r, p, rs) == Closes("loading", {r}, p, <<Request("gate", NoEntry)>> \o rs)
handleExpired(r, p, rs) ==
    IF r.what \in Changes
    THEN Sends({r}, <<Request("over", NoEntry)>> \o rs) /\ pane' = p /\ UNCHANGED gate
    ELSE Closes("loading", {r}, p, <<Request("gate", NoEntry)>> \o rs)

-----------------------------------------------------------------------------
(* What the administrator does on a mounted pane.                          *)
stage ==
    /\ Usable /\ pane.shown # NoDetail /\ pane.sec # "Sessions"
    /\ pane' = IF pane.sec = "Security" THEN [pane EXCEPT !.typed = TRUE]
               ELSE [pane EXCEPT !.staged = @ \cup {pane.shown}]
    /\ UNCHANGED <<server, gate, line, orgSent>>
discard ==
    /\ Usable /\ (pane.typed \/ (pane.staged # {} /\ ~pane.busy))
    /\ pane' = [pane EXCEPT !.staged = {}, !.typed = FALSE]
    /\ UNCHANGED <<server, gate, line, orgSent>>
save ==
    /\ Usable /\ pane.staged # {} /\ ~pane.busy
    /\ Sends({}, <<[Request("save", pane.shown.entry) EXCEPT !.edits = pane.staged]>>)
    /\ pane' = [pane EXCEPT !.busy = TRUE]
    /\ UNCHANGED <<server, gate>>
setPassword ==
    /\ Usable /\ pane.shown # NoDetail /\ pane.typed /\ ~pane.busy
    /\ Sends({}, <<Request("password", pane.shown.entry)>>)
    /\ pane' = [pane EXCEPT !.busy = TRUE]
    /\ UNCHANGED <<server, gate>>
otherChange ==
    /\ Usable /\ pane.shown # NoDetail /\ pane.sec \in {"Profile", "Security"}
    /\ (pane.view = "user" /\ pane.sec = "Profile" => ~pane.busy)
    /\ Sends({}, <<Request("other", pane.shown.entry)>>)
    /\ UNCHANGED <<server, gate, pane>>
signOut ==
    /\ Usable /\ pane.shown # NoDetail /\ pane.sec = "Sessions" /\ pane.listed
    /\ Sends({}, <<Request("signout", pane.shown.entry)>>)
    /\ UNCHANGED <<server, gate, pane>>
deleteRole ==
    /\ Usable /\ pane.view = "roles" /\ pane.shown # NoDetail
    /\ Sends({}, <<Request("delete", pane.shown.entry)>>)
    /\ UNCHANGED <<server, gate, pane>>
createRole ==
    /\ Usable /\ pane.view = "roles" /\ pane.listed
    /\ \E s \in server.gone : Sends({}, <<Request("create", s)>>)
    /\ pane' = [pane EXCEPT !.creating = TRUE]
    /\ UNCHANGED <<server, gate>>
Picked(p, s) == IF p.sel = s THEN p ELSE [Unmount(p) EXCEPT !.sel = s]
select(s) ==
    /\ Usable /\ pane.view = "roles" /\ s # pane.sel /\ pane.listed
    /\ pane' = Picked(pane, s) /\ Sends({}, <<Request("detail", s)>>)
    /\ UNCHANGED <<server, gate>>
(* A section is a card of its own.  Its number tells late answers apart,   *)
(* and is used again when there are none.                                  *)
NextCard == IF \E r \in line : r.card = pane.card THEN pane.card + 1 ELSE pane.card
section(s) ==
    /\ Usable /\ pane.view = "user" /\ pane.shown # NoDetail /\ s # pane.sec
    /\ pane' = [pane EXCEPT !.sec = s, !.card = NextCard, !.staged = {}, !.typed = FALSE, !.busy = FALSE,
                            !.listed = FALSE]
    /\ Sends({}, IF s \in {"Profile", "Security"} THEN << >>
                 ELSE <<[Request("list", pane.sel) EXCEPT !.card = NextCard]>>)
    /\ UNCHANGED <<server, gate>>

-----------------------------------------------------------------------------
(* Answers.  A closure of an unmounted pane or card runs on; only what it  *)
(* would set is gone.                                                      *)
Mine(r) == Up /\ r.inst = pane.inst
Free(r, p) == IF Mine(r) /\ r.card = p.card THEN [p EXCEPT !.busy = FALSE] ELSE p
Later(r, what, s) == [Request(what, s) EXCEPT !.inst = r.inst, !.sel = r.sel]

(* act on the user's page: on success the page is read again, unawaited.   *)
(* The password fields are emptied when act returns, and it returns from a *)
(* refusal too; so are a user's sessions read again.                       *)
Ended(r) ==
    CASE r.what = "save" -> Free(r, pane)
      [] r.what = "password" /\ r.ans = "error" -> Free(r, pane)
      [] r.what = "password" /\ r.ans # "error" /\ Mine(r) /\ r.card = pane.card ->
            [pane EXCEPT !.busy = FALSE, !.typed = FALSE]
      [] OTHER -> pane
Rereads(r) ==
    (IF r.ans = "ok" THEN <<Later(r, "detail", r.entry)>> ELSE << >>)
      \o (IF r.what = "signout" /\ r.ans # "error"
          THEN <<[Later(r, "list", r.entry) EXCEPT !.card = r.card]>> ELSE << >>)
actUser(r) ==
    /\ r.what \in Changes /\ r.back /\ pane.view = "user"
    /\ \/ r.ans = "stale" /\ handleExpired(r, Ended(r), Rereads(r))
       \/ r.ans # "stale" /\ pane' = Ended(r) /\ UNCHANGED gate /\ Sends({r}, Rereads(r))
    /\ UNCHANGED server

(* act on the roles page: the list is read and awaited, then the role that *)
(* was selected when the button was pressed.  A new role is selected once  *)
(* the list is there.                                                      *)
actRoles(r) ==
    LET p == IF r.what = "create" /\ Mine(r) THEN [pane EXCEPT !.creating = FALSE] ELSE Free(r, pane)
    IN  /\ r.what \in Changes \ {"delete"} /\ r.back /\ pane.view = "roles"
        /\ \/ r.ans = "stale" /\ handleExpired(r, p, << >>)
           \/ r.ans = "error" /\ Drop({r}) /\ pane' = p /\ UNCHANGED gate
           \/ /\ r.ans = "ok" /\ UNCHANGED gate
              /\ pane' = IF r.what = "create" THEN p ELSE pane
              /\ Sends({r}, <<[Later(r, "list", r.entry) EXCEPT !.card = r.card, !.then = r.what]>>)
        /\ UNCHANGED server

(* A deletion ends, however it was answered, with the role deselected and  *)
(* the list read again.                                                    *)
Deselected(r) == IF Mine(r) THEN Picked(pane, NoEntry) ELSE pane
onDeleted(r) ==
    /\ r.what = "delete" /\ r.back
    /\ \/ r.ans = "stale" /\ handleExpired(r, Deselected(r), <<Later(r, "list", NoEntry)>>)
       \/ /\ r.ans = "error" /\ pane' = Deselected(r) /\ UNCHANGED gate
          /\ Sends({r}, <<Later(r, "list", NoEntry)>>)
       \/ /\ r.ans = "ok" /\ UNCHANGED <<pane, gate>>
          /\ Sends({r}, <<[Later(r, "list", r.entry) EXCEPT !.then = "delete"]>>)
    /\ UNCHANGED server

(* The list arrived, or did not: whoever waited for it goes on.            *)
AfterList(r) ==
    LET got == Mine(r) /\ r.ans = "ok"
        p == IF got THEN [pane EXCEPT !.listed = TRUE] ELSE pane
        q == IF got /\ p.sel = NoEntry THEN [p EXCEPT !.sel = First] ELSE p
    IN  CASE r.then = "delete" -> Deselected(r)
          [] r.then = "create" -> IF Mine(r) THEN Picked(q, r.entry) ELSE q
          [] OTHER -> Free(r, q)
Waiters(r) ==
    (IF AfterList(r).sel \notin {pane.sel, NoEntry} THEN <<Later(r, "detail", AfterList(r).sel)>> ELSE << >>)
      \o (IF r.then \in {"save", "other", "delete"} /\ r.sel # NoEntry THEN <<Later(r, "detail", r.sel)>> ELSE << >>)
      \o (IF r.then = "delete" THEN <<Later(r, "list", NoEntry)>> ELSE << >>)
loadList(r) ==
    /\ r.what = "list" /\ r.back /\ pane.view = "roles"
    /\ \/ r.ans = "stale" /\ handleExpired(r, AfterList(r), Waiters(r))
       \/ r.ans # "stale" /\ pane' = AfterList(r) /\ Sends({r}, Waiters(r)) /\ UNCHANGED gate
    /\ UNCHANGED server

(* The lists a user's sections read for themselves.                        *)
loadSection(r) ==
    LET p == IF Mine(r) /\ r.card = pane.card THEN [pane EXCEPT !.listed = r.ans = "ok"] ELSE pane
    IN  /\ r.what = "list" /\ r.back /\ pane.view = "user"
        /\ \/ r.ans = "stale" /\ handleExpired(r, p, << >>)
           \/ r.ans # "stale" /\ pane' = p /\ Drop({r}) /\ UNCHANGED gate
        /\ UNCHANGED server

loadDetail(r) ==
    LET lost == IF Mine(r) THEN [Unmount(pane) EXCEPT !.failed = pane.view = "user"] ELSE pane
        d == [entry |-> r.entry, ver |-> r.ver]
    IN  /\ r.what = "detail" /\ r.back
        /\ \/ r.ans = "ok" /\ pane' = (IF Mine(r) THEN Shows(pane, d) ELSE pane) /\ Drop({r}) /\ UNCHANGED gate
           \/ r.ans = "error" /\ pane' = lost /\ Drop({r}) /\ UNCHANGED gate
           \/ r.ans = "stale" /\ handleExpired(r, lost, << >>)
        /\ UNCHANGED server

-----------------------------------------------------------------------------
(* The server: the window is checked before everything else; an answer may *)
(* be lost after the change was made.                                      *)
Reply(r, ans, v) == line' = (line \ {r}) \cup {[r EXCEPT !.back = TRUE, !.ans = ans, !.ver = v]}
requireFreshStepup(r) ==
    /\ ~r.back /\ ~server.fresh /\ Reply(r, "stale", 0)
    /\ UNCHANGED <<server, gate, pane, orgSent>>
orgAnswer(r) ==
    /\ ~r.back /\ r.what \notin Changes /\ server.fresh /\ (r.what = "detail" => r.entry \notin server.gone)
    /\ Reply(r, "ok", IF r.what = "detail" THEN server.ver[r.entry] ELSE 0)
    /\ UNCHANGED <<server, gate, pane, orgSent>>
apply(r) ==
    /\ ~r.back /\ r.what \in Changes /\ server.fresh /\ (r.entry \in server.gone <=> r.what = "create")
    /\ server' = [server EXCEPT !.ver[r.entry] = @ + 1,
                                !.gone = IF r.what = "delete" THEN @ \cup {r.entry} ELSE @ \ {r.entry}]
    /\ \E ans \in {"ok", "error"} : Reply(r, ans, 0)
    /\ UNCHANGED <<gate, pane, orgSent>>
fails(r) ==
    /\ ~r.back /\ Reply(r, "error", 0)
    /\ UNCHANGED <<server, gate, pane, orgSent>>
lapse ==
    /\ server.fresh /\ server' = [server EXCEPT !.fresh = FALSE]
    /\ UNCHANGED <<gate, pane, line, orgSent>>

-----------------------------------------------------------------------------
(* The gate is open and the first document on screen.                      *)
OrgInit(v, absent) ==
    /\ server = [ver |-> [s \in Entries |-> 0], gone |-> absent, fresh |-> TRUE]
    /\ gate = [state |-> "open", over |-> FALSE]
    /\ pane = [view |-> v, inst |-> 0, card |-> 0, sel |-> First, shown |-> [entry |-> First, ver |-> 0],
               staged |-> {}, typed |-> FALSE, busy |-> FALSE, sec |-> "Profile", listed |-> v = "roles", failed |-> FALSE,
               creating |-> FALSE]
    /\ orgSent = 0 /\ line = {}

OrgNext ==
    \/ check \/ modal \/ reverify \/ stage \/ discard \/ save \/ setPassword
    \/ otherChange \/ signOut \/ deleteRole \/ createRole
    \/ \E s \in Entries : select(s)
    \/ \E s \in {"Profile", "Security", "Access", "Sessions"} : section(s)
    \/ \E r \in line : checked(r) \/ demandReverify(r) \/ onDeleted(r) \/ actUser(r) \/ actRoles(r)
                       \/ loadList(r) \/ loadSection(r) \/ loadDetail(r)
    \/ \E r \in line : requireFreshStepup(r) \/ orgAnswer(r) \/ apply(r) \/ fails(r)
    \/ lapse

OrgSpec ==
    (\E v \in {"user", "roles"}, absent \in SUBSET (Entries \ {First}) : OrgInit(v, absent))
      /\ [][OrgNext]_orgVars

-----------------------------------------------------------------------------
(* What is saved is what was on screen: the changes staged on a pane       *)
(* belong to the very document it shows, and a batch on its way to one     *)
(* entry holds no change staged on another's, although answers to loads of *)
(* different roles, ages and panes arrive in any order.                    *)
WrittenAsShown ==
    /\ pane.staged \subseteq {pane.shown}
    /\ \A r \in line : \A e \in r.edits : e.entry = r.entry

(* "A MUTATION overlays the challenge WITHOUT tearing down the pane, so     *)
(* staged (unsaved) edits survive" (OrgGate.jsx:57-61): they go only with  *)
(* a read's answer, a discard, another role or section, or a deletion, and *)
(* a typed password stays when the user is read again; neither goes        *)
(* through another change refused or failed, or the challenge laid over    *)
(* the pane.  The sentence does not hold of two refused mutations, and     *)
(* they are excepted here: the refusal of a deletion deselects the role    *)
(* all the same (OrgRolesPage.jsx:106, 186), and the refusal of a new      *)
(* password empties its fields (OrgUserDetailPage.jsx:277-278).            *)
StagedKept ==
    [][ /\ pane.staged # {} /\ pane'.staged = {} =>
             \/ \E r \in line \ line' : r.back /\ r.what \in {"list", "detail", "gate", "delete"}
             \/ gate.state = "open" /\ ~gate.over /\ gate' = gate /\ line \subseteq line'
        /\ pane.typed /\ ~pane'.typed =>
             \/ \E r \in line \ line' :
                   /\ r.back
                   /\ \/ r.what = "gate"
                      \/ r.what \in {"list", "detail"} /\ r.ans # "ok"
                      \/ r.what = "password" /\ r.ans # "error"
             \/ gate.state = "open" /\ ~gate.over /\ gate' = gate /\ line \subseteq line' ]_orgVars
=============================================================================
