---------------------------- MODULE ClientDraft ----------------------------
(***************************************************************************)
(* Editing one client registration in the administration: the edit page    *)
(* (admin-ui/src/pages/ClientEditPage.jsx), the draft it keeps in the      *)
(* tab's sessionStorage so that a sign-in or a reload loses nothing        *)
(* (admin-ui/src/clientDraft.js), its requests (admin-ui/src/api.js), the  *)
(* lock of its save button (saveFeedback.js), and the server's handlers    *)
(* (src/src/routes/admin.ts).                                              *)
(*                                                                         *)
(* The registration has two fields, "host" and "path"; every path depends  *)
(* on the hostname.  The path Unsafe has a query string, which a draft     *)
(* never keeps; Pasted is a full URL of host 1, normalized to its path 0.  *)
(* A request may be answered, lost, or answered while the server is still  *)
(* working on it.  A component that left the screen still hears its        *)
(* answers; a document that was unloaded does not.  The tab can store a    *)
(* draft, and every draft is small enough to be stored.                    *)
(***************************************************************************)
EXTENDS Integers, FiniteSets

CONSTANTS
    MaxOps,      \* bound: mutations sent from this tab
    MaxEdits,    \* bound: edits and foreign changes
    NoDraft      \* nothing under DRAFT_KEY

VARIABLES
    row,      \* the registration: [form, disabled, exists]
    store,    \* the draft in sessionStorage
    page,     \* the mounted edit page
    net,      \* op -> the request of that mutation
    unknown,  \* mutations that this tab has had no certain answer to
    dropped,  \* history: those whose warning went with a draft, see OutcomeRemembered
    edits     \* bound

draftVars == <<row, store, page, net, unknown, dropped, edits>>

Fields == {"host", "path"}
Pasted == 1
Unsafe == 2
Forms == {f \in [Fields -> {0, Pasted, Unsafe}] : f["host"] # Unsafe}
Ops == 1..MaxOps
NoOp == 0

\* The drafts a tab may have stored.
SomeTexts == UNION {[K -> {0, Pasted, Unsafe}] : K \in SUBSET Fields}
Drafts ==
    [base : SomeTexts, changes : SomeTexts, omitted : SUBSET Fields, uncertain : BOOLEAN, prior : BOOLEAN,
     op : 0..MaxOps]
ASSUME DraftAssumption == MaxOps \in Nat /\ NoDraft \notin Drafts

\* form: what the page showed when the mutation was sent.  A save sends it, a
\* disable, an enable and a delete send nothing.
Quiet == [kind |-> "none", form |-> [k \in Fields |-> 0], state |-> "none", ear |-> "dead"]
Away == [at |-> "away", form |-> [k \in Fields |-> 0], base |-> [k \in Fields |-> 0],
         on |-> FALSE, uncertain |-> FALSE, prior |-> FALSE, op |-> NoOp, restored |-> NoOp,
         omitted |-> {}, off |-> FALSE, bad |-> FALSE, settled |-> FALSE, expired |-> FALSE, refresh |-> FALSE, lock |-> "idle"]
Started == {o \in Ops : net[o].kind # "none"}

DraftInit(form) ==
    /\ row = [form |-> form, disabled |-> FALSE, exists |-> TRUE]
    /\ store = NoDraft /\ page = Away /\ net = [o \in Ops |-> Quiet]
    /\ unknown = {} /\ dropped = {} /\ edits = 0

---------------------------------------------------------------------------
(* The rules that the form and the server share (clientNormalize.ts).      *)

foreign(path, host) == path = Pasted /\ host # 1
normalizePath(path, host) == IF path = Pasted /\ host = 1 THEN 0 ELSE path
Normalized(form) == [form EXCEPT !["path"] = normalizePath(@, form["host"])]
validateClientInput(form) == ~foreign(form["path"], form["host"])

---------------------------------------------------------------------------
(* The draft in storage.                                                   *)

sanitize(form) ==
    LET keep == {k \in Fields : form[k] # Unsafe} IN [k \in keep |-> form[k]]

(* writeClientDraft: what cannot be kept is named instead; a draft that    *)
(* says nothing is removed.                                                *)
writeClientDraft(p) ==
    LET dirty == {k \in Fields : p.form[k] # p.base[k]}
        omitted == p.omitted \cup {k \in dirty : \/ k \notin DOMAIN sanitize(p.form)
                                                 \/ k \notin DOMAIN sanitize(p.base)}
    IN IF p.expired \/ (dirty = {} /\ omitted = {} /\ ~p.uncertain) THEN NoDraft
       ELSE [base |-> sanitize(p.base), changes |-> [k \in dirty \ omitted |-> p.form[k]],
             omitted |-> omitted, uncertain |-> p.uncertain, prior |-> p.prior,
             op |-> IF p.op # NoOp THEN p.op ELSE p.restored]

persistDraft(p) == IF p.on THEN writeClientDraft(p) ELSE store

clientDraftAuthUncertain(p) == p.prior

dependencies(k) == {"host", k}

(* restoreClientDraft: edits come back only on top of what they were made  *)
(* on.                                                                     *)
Lost(d, current) ==
    {k \in DOMAIN d.changes :
       \E x \in dependencies(k) : x \notin DOMAIN d.base \/ x \notin DOMAIN sanitize(current)}
Conflicting(d, current) ==
    {k \in DOMAIN d.changes \ Lost(d, current) :
       \E x \in dependencies(k) : d.base[x] # current[x]}

restoreClientDraft(d, current) ==
    [form |-> [k \in Fields |-> IF k \in DOMAIN d.changes \ (Lost(d, current) \cup Conflicting(d, current))
                                THEN d.changes[k] ELSE current[k]],
     conflicts |-> Conflicting(d, current), omitted |-> d.omitted \cup Lost(d, current)]

rebaseClientDraftForm(current, submitted, canonical) ==
    [k \in Fields |-> IF current[k] = submitted[k] THEN canonical[k] ELSE current[k]]

Settles_Any(op) == store # NoDraft
Settles(op) == store # NoDraft /\ store.op = op

PriorKept_Not(d, uncertain) == uncertain
PriorKept(d, uncertain) == d.prior \/ uncertain

(* settleClientDraft: only the draft of this very mutation is settled.     *)
settleClientDraft(op, success, uncertain) ==
    IF ~Settles(op) THEN store
    ELSE IF success THEN NoDraft
    ELSE [store EXCEPT !.op = NoOp, !.uncertain = PriorKept(store, uncertain),
                       !.prior = PriorKept(store, uncertain)]

---------------------------------------------------------------------------
(* Opening the page, and what it shows of an earlier draft.                *)

formLocked == page.lock \in {"pending", "success"}

load ==
    /\ page.at \in {"away", "failed", "ready"} /\ ~formLocked
    /\ page' = [page EXCEPT !.at = "loading"]
    /\ UNCHANGED <<row, store, net, unknown, dropped, edits>>

(* A page that loads a registration and no draft.                          *)
Blank(r) == [Away EXCEPT !.at = "ready", !.form = r.form, !.base = r.form, !.off = r.disabled,
                         !.on = TRUE]

DropsWarnings == dropped' = dropped \cup unknown

ClientEditForm ==
    /\ page.at = "loading"
    /\ IF ~row.exists
       THEN /\ page' = [Away EXCEPT !.at = "failed"] /\ store' = NoDraft /\ DropsWarnings
       ELSE IF store = NoDraft \/ row.disabled
       THEN /\ page' = Blank(row) /\ store' = NoDraft
            /\ IF row.disabled THEN DropsWarnings ELSE UNCHANGED dropped
       ELSE LET r == restoreClientDraft(store, row.form)
            IN /\ page' = [Blank(row) EXCEPT !.form = r.form, !.omitted = r.omitted,
                             !.uncertain = store.uncertain, !.prior = store.prior,
                             !.restored = store.op]
               /\ store' = IF r.conflicts # {} THEN NoDraft ELSE store
               /\ IF r.conflicts # {} THEN DropsWarnings ELSE UNCHANGED dropped
    /\ UNCHANGED <<row, net, unknown, edits>>

(* The list of clients could not be read.                                  *)
LoadFailed ==
    /\ page.at = "loading"
    /\ page' = [page EXCEPT !.at = "failed"]
    /\ UNCHANGED <<row, store, net, unknown, dropped, edits>>

---------------------------------------------------------------------------
(* Editing, saving and the registration's lifecycle.                       *)

(* A field loses the focus: its value is normalized, and what is wrong with *)
(* it marked; a new hostname is held against the path again.               *)
blur(k, v) ==
    LET form == [page.form EXCEPT ![k] = v]
    IN [form |-> IF k = "path" THEN Normalized(form) ELSE form, bad |-> ~validateClientInput(form)]

set(k, v) ==
    /\ page.at = "ready" /\ ~formLocked /\ page.form # blur(k, v).form
    /\ edits < MaxEdits /\ edits' = edits + 1
    /\ page' = [page EXCEPT !.form = blur(k, v).form, !.bad = blur(k, v).bad, !.on = TRUE,
                            !.op = NoOp, !.restored = NoOp, !.settled = FALSE,
                            !.omitted = @ \ {k}, !.expired = page.expired /\ page.on]
    /\ store' = persistDraft(page')
    /\ UNCHANGED <<row, net, unknown, dropped>>

(* The inputs of the form, and its button for the usual paths.             *)
ClientForm ==
    \/ \E v \in {0, 1} : set("host", v)
    \/ \E v \in {0, Pasted, Unsafe} : set("path", v)

hasBlockingClientErrors == page.bad

canSave ==
    /\ page.at = "ready" /\ page.lock = "idle"
    /\ page.omitted = {} /\ ~page.settled /\ page.form # page.base
    /\ ~hasBlockingClientErrors

(* beginMutation: before the request leaves, the draft says that its       *)
(* outcome is unknown.                                                     *)
beginMutation(op, kind) ==
    /\ page' = [page EXCEPT !.on = TRUE, !.op = op, !.restored = NoOp, !.settled = FALSE,
                            !.prior = page.uncertain, !.uncertain = TRUE, !.lock = "pending",
                            !.refresh = FALSE, !.expired = page.expired /\ page.on]
    /\ store' = persistDraft(page')
    /\ net' = [net EXCEPT ![op] = [kind |-> kind, form |-> page.form, state |-> "sent", ear |-> "page"]]
    /\ unknown' = unknown \cup {op}
    /\ dropped' = IF page'.expired THEN dropped \cup unknown' ELSE dropped
    /\ UNCHANGED <<row, edits>>

save(op) == canSave /\ beginMutation(op, "save")

lifecycle(op, kind) ==
    /\ page.at = "ready" /\ page.lock = "idle"
    /\ beginMutation(op, kind)

(* What the danger zone offers.                                            *)
DangerZone(op) ==
    \E kind \in (IF page.off THEN {"enable", "delete"} ELSE {"disable"}) : lifecycle(op, kind)

Discard ==
    /\ page.at = "ready" /\ ~formLocked
    /\ store' = NoDraft /\ DropsWarnings
    /\ page' = [Away EXCEPT !.at = "loading"]
    /\ UNCHANGED <<row, net, unknown, edits>>

---------------------------------------------------------------------------
(* The server.                                                             *)

(* PATCH writes the whole registration: the page sends every field.        *)
patchClient(body) ==
    validateClientInput(body) /\ row' = [row EXCEPT !.form = Normalized(body)]
disableClient == ~row.disabled /\ row' = [row EXCEPT !.disabled = TRUE]
enableClient == row.disabled /\ row' = [row EXCEPT !.disabled = FALSE]
deleteClient == row.disabled /\ row' = [row EXCEPT !.exists = FALSE]

Handled(op) ==
    /\ net[op].state = "sent"
    /\ \/ /\ row.exists
          /\ \/ net[op].kind = "save" /\ patchClient(net[op].form)
             \/ net[op].kind = "disable" /\ disableClient
             \/ net[op].kind = "enable" /\ enableClient
             \/ net[op].kind = "delete" /\ deleteClient
          /\ net' = [net EXCEPT ![op].state = "committed"]
       \/ /\ net' = [net EXCEPT ![op].state = "refused", ![op].form = Quiet.form]
          /\ UNCHANGED row
    /\ UNCHANGED <<store, page, unknown, dropped, edits>>

(* Another administrator.                                                  *)
Foreign ==
    /\ edits < MaxEdits /\ edits' = edits + 1
    /\ row.exists
    /\ \/ \E f \in {[row.form EXCEPT !["host"] = 1], [row.form EXCEPT !["path"] = Unsafe]} :
            row' = [row EXCEPT !.form = f]
       \/ row' = [row EXCEPT !.disabled = ~row.disabled]
    /\ UNCHANGED <<store, page, net, unknown, dropped>>

---------------------------------------------------------------------------
(* The answers.  Those of a component that left reach the draft, and the   *)
(* page that shows it.                                                     *)

settleMutation(op, success, uncertain) ==
    IF page.op # op THEN page
    ELSE IF success THEN [page EXCEPT !.on = FALSE, !.op = NoOp, !.uncertain = FALSE,
                                      !.prior = FALSE, !.omitted = {}, !.expired = FALSE]
    ELSE [page EXCEPT !.op = NoOp, !.uncertain = page.prior \/ uncertain,
                      !.prior = page.prior \/ uncertain]

(* observeClientDraftSettlement: the returned page, if it is untouched.    *)
observed(op, success, uncertain) ==
    IF page.restored # op \/ ~Settles(op) THEN page
    ELSE IF success
    THEN [page EXCEPT !.on = FALSE, !.restored = NoOp, !.uncertain = FALSE, !.prior = FALSE,
                      !.omitted = {}, !.settled = TRUE, !.expired = FALSE]
    ELSE [page EXCEPT !.restored = NoOp, !.uncertain = store.prior \/ uncertain,
                      !.prior = store.prior \/ uncertain]

Mounted(op) == net[op].ear = "page"

(* Who hears the answer: the page that sent it, or one that restored it.   *)
Heard(op, success, uncertain) ==
    /\ store' = settleClientDraft(op, success, uncertain)
    /\ net' = [net EXCEPT ![op].ear = "dead",
                          ![op].form = IF net[op].state = "sent" THEN @ ELSE Quiet.form]

Succeeded(op) ==
    /\ net[op].state = "committed" /\ net[op].ear # "dead"
    /\ Heard(op, TRUE, FALSE)
    /\ page' = LET p == settleMutation(op, TRUE, FALSE)
               IN CASE ~Mounted(op) -> observed(op, TRUE, FALSE)
                    [] Mounted(op) /\ net[op].kind = "save" ->
                         [p EXCEPT !.base = net[op].form, !.lock = "success", !.refresh = TRUE]
                    [] Mounted(op) /\ net[op].kind = "delete" -> Away
                    [] OTHER -> [p EXCEPT !.at = "loading", !.lock = "idle"]
    /\ unknown' = unknown \ {op}
    /\ dropped' = dropped \cup {o \in unknown : o < op}
    /\ UNCHANGED <<row, edits>>

(* A refusal is certain; a timeout, a lost connection or a server error is *)
(* not, and the server may go on to commit.                                *)
Failed(op, uncertain) ==
    /\ net[op].state \in {"refused", "committed", "sent"} /\ net[op].ear # "dead"
    /\ ~uncertain => net[op].state = "refused"
    /\ Heard(op, FALSE, uncertain)
    /\ page' = IF Mounted(op) THEN [settleMutation(op, FALSE, uncertain) EXCEPT !.lock = "error"]
               ELSE observed(op, FALSE, uncertain)
    /\ unknown' = IF uncertain THEN unknown ELSE unknown \ {op}
    /\ UNCHANGED <<row, dropped, edits>>

Unloaded == [o \in Ops |-> [net[o] EXCEPT !.ear = "dead"]]

(* The answer asks for a sign-in or a step-up: the open page saves its     *)
(* draft knowing that this mutation was refused, and the document goes.    *)
(* The page takes every such answer to a mutation of its registration for  *)
(* its own: one that answers an earlier component's request, while the     *)
(* page's own is under way, makes it forget that its outcome is unknown.   *)
req(op) ==
    /\ net[op].state = "refused" /\ net[op].ear # "dead"
    /\ LET p == [page EXCEPT !.uncertain = clientDraftAuthUncertain(page)]
           kept == IF page.at = "away" THEN store ELSE persistDraft(p)
       IN store' = IF kept # NoDraft /\ kept.op = op
                   THEN [kept EXCEPT !.op = NoOp, !.uncertain = kept.prior] ELSE kept
    /\ page' = Away /\ net' = Unloaded
    /\ unknown' = unknown \ {op}
    /\ IF Mounted(op) THEN UNCHANGED dropped ELSE DropsWarnings
    /\ UNCHANGED <<row, edits>>

(* createSaveFeedback: the outcome is held, then the button returns.       *)
createSaveFeedback ==
    /\ page.lock \in {"success", "error"}
    /\ page' = [page EXCEPT !.lock = "idle"]
    /\ UNCHANGED <<row, store, net, unknown, dropped, edits>>

(* The list read again after a save: fields not touched since take the     *)
(* server's values.                                                        *)
Refreshed ==
    /\ page.refresh /\ page.at = "ready" /\ row.exists
    /\ page' = [page EXCEPT !.refresh = FALSE, !.base = row.form,
                            !.off = row.disabled,
                            !.form = rebaseClientDraftForm(page.form, page.base, row.form)]
    /\ store' = persistDraft(page')
    /\ UNCHANGED <<row, net, unknown, dropped, edits>>

---------------------------------------------------------------------------
(* Leaving: within the application, with a reload, or for two hours.       *)

Navigate ==
    /\ page.at # "away"
    /\ page' = Away
    /\ net' = [o \in Ops |-> IF net[o].ear = "page" THEN [net[o] EXCEPT !.ear = "spa"] ELSE net[o]]
    /\ UNCHANGED <<row, store, unknown, dropped, edits>>

Reload ==
    /\ page.at # "away"
    /\ store' = persistDraft(page)
    /\ page' = Away /\ net' = Unloaded
    /\ UNCHANGED <<row, unknown, dropped, edits>>

DraftExpires ==
    /\ store # NoDraft
    /\ store' = NoDraft /\ DropsWarnings
    /\ page' = [page EXCEPT !.expired = page.on]
    /\ UNCHANGED <<row, net, unknown, edits>>

DraftNext ==
    \/ load \/ ClientEditForm \/ LoadFailed \/ Discard \/ ClientForm
    \/ \E op \in Ops : /\ Started = 1..(op - 1)
                       /\ save(op) \/ DangerZone(op)
    \/ \E op \in Ops : Handled(op) \/ Succeeded(op) \/ req(op)
    \/ \E op \in Ops, uncertain \in BOOLEAN : Failed(op, uncertain)
    \/ Foreign \/ createSaveFeedback \/ Refreshed \/ Navigate \/ Reload \/ DraftExpires

DraftSpec ==
    (\E f \in {g \in Forms : g["path"] # Pasted} : DraftInit(f)) /\ [][DraftNext]_draftVars

---------------------------------------------------------------------------
(* A stored path is never a pasted URL.                                    *)
DraftTypeOK ==
    /\ row.form \in Forms /\ row.form["path"] # Pasted /\ page.form \in Forms /\ page.base \in Forms
    /\ page.lock \in {"idle", "pending", "success", "error"}
    /\ store # NoDraft => /\ DOMAIN store.changes \subseteq DOMAIN store.base
                          /\ store.op \in Ops \cup {NoOp}
    /\ edits \in 0..MaxEdits

(* A page that lets the administrator act on edits says so when an earlier *)
(* mutation may have been committed without the tab knowing, whatever      *)
(* reloads, sign-ins and late answers came between (beginMutation,         *)
(* settleClientDraft, clientDraftAuthUncertain).  The warning is lost with *)
(* the draft, and only when the administrator discards it, it is two hours *)
(* old, its registration is gone or disabled or has changed under its      *)
(* edits (restore), a later mutation succeeds, or a sign-in is asked for   *)
(* by the late answer to a component that has left (persistDraft).         *)
OutcomeRemembered ==
    page.at = "ready" /\ page.lock # "pending" /\ unknown \ dropped # {} => page.uncertain

(* The late answer of a mutation never removes edits made after it was     *)
(* sent (settleClientDraft).  The edits made before it a save has sent; a  *)
(* disable, an enable and a delete have not, and their success drops them  *)
(* with the draft and reads the registration again (lifecycle).            *)
EditsKept ==
    [][\A o \in Ops :
         net[o].ear # "dead" /\ net'[o].ear = "dead" /\ store # NoDraft /\ store' = NoDraft
           => \A k \in DOMAIN store.changes : store.changes[k] = net[o].form[k]]_draftVars
=============================================================================
