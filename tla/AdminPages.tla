----------------------------- MODULE AdminPages -----------------------------
(***************************************************************************)
(* Two pages of the administration that read, wait and write: the settings *)
(* page (admin-ui/src/pages/SettingsPage.jsx), whose cards share one       *)
(* document, and the key status pages (admin-ui/src/pages/KeysPage.jsx and *)
(* the portal-key card of the settings page), which poll while they        *)
(* schedule a rotation.  Answers arrive in any order.  A behaviour is      *)
(* about one of them, named by view.                                       *)
(***************************************************************************)
EXTENDS Integers, FiniteSets, TLC

CONSTANTS
    MaxTyped,     \* bound: edits, and changes by other administrators
    MaxBusy,      \* bound: cards with a request in flight
    MaxReads,     \* bound: reads of the key status
    MaxRotates,   \* bound: rotation requests
    NoDoc,        \* no document yet
    BlankField    \* an empty write-only field

VARIABLES
    view,     \* "settings", "signing" or "portal"
    stored,   \* the settings on the server: field -> value
    snap,     \* s: the document the page has
    form,     \* f
    errs,     \* fields in error
    pageReq,      \* card -> [phase, body, doc]
    typed,    \* fields typed since the document arrived
    typings,  \* bound
    key,      \* a rotation is pending on the server
    shown,    \* the status shown: [rotation, since], or NoDoc
    sure,     \* the status is confirmed (not uncertain, acctKeyChecked)
    gen,      \* readGeneration
    reads,    \* read -> [gen, since, doc, state]
    rotating, \* the rotation request: "none", "sent", "held" or "load"
    waits,    \* the read a finished rotation waits for
    attempts  \* rotation requests that ended

pageVars == <<view, stored, snap, form, errs, pageReq, typed, typings, key, shown, sure, gen, reads, rotating,
              waits, attempts>>
formVars == <<stored, snap, form, errs, pageReq, typed, typings>>
keyPageVars == <<key, shown, sure, gen, reads, rotating, waits, attempts>>

Cards == {"mount", "site", "sec", "reg", "ts", "email", "gate"}
Secrets == {"secret", "token"}
Inputs == {"site_name", "account_portal_url", "stepup", "registration", "site_key", "mail_from",
           "cf_account_id"} \cup Secrets
Wrong == 2
Loose == 3      \* stored by the wizard or the environment, in a spelling no form sends
NoReq == [phase |-> "none", body |-> << >>, doc |-> NoDoc]
NoRead == [gen |-> 0, since |-> 0, doc |-> NoDoc, state |-> "none"]

PageInit(v, loose) ==
    /\ view = v
    /\ stored = [k \in Inputs |-> IF k \in loose THEN Loose ELSE 0] /\ snap = NoDoc /\ form = NoDoc /\ errs = {}
    /\ pageReq = [c \in Cards |-> IF c = "mount" THEN [NoReq EXCEPT !.phase = "load"] ELSE NoReq]
    /\ typed = {} /\ typings = 0
    /\ key = FALSE /\ shown = NoDoc /\ sure = (v = "signing")
    /\ gen = 1
    /\ reads = [i \in 1..MaxReads |-> IF i = 1 THEN [NoRead EXCEPT !.gen = 1, !.state = "sent"] ELSE NoRead]
    /\ rotating = "none" /\ waits = 0 /\ attempts = 0

---------------------------------------------------------------------------
(* The settings page.                                                      *)

(* The document the server answers with: a secret is never returned.       *)
Document == [k \in Inputs |-> IF k \in Secrets THEN BlankField ELSE stored[k]]

(* The form's spelling: of a URL its protocol and bare host, of an account *)
(* its lower case.                                                         *)
Tidied(v) == IF v = Loose THEN 0 ELSE v

Taken_KeepForm(doc) ==
    IF form = NoDoc THEN [doc EXCEPT !["account_portal_url"] = Tidied(@)] ELSE form
(* Every field of the form takes the value of the document; the portal's   *)
(* URL is split and joined again.                                          *)
Taken(doc) == [doc EXCEPT !["account_portal_url"] = Tidied(@)]

(* The fields of a card that are not as the document has them.             *)
Changed(K) == {k \in K : form[k] # snap[k]}
siteDirty == Changed({"site_name", "account_portal_url"})
secDirty == Changed({"stepup"})
regDirty == Changed({"registration"})
tsDirty == Changed({"site_key", "secret"})
emailDirty == Changed({"mail_from", "cf_account_id", "token"})

(* Typing clears the field's mark, leaving it sets it again.               *)
blurField(k, v) ==
    /\ form # NoDoc /\ typings < MaxTyped /\ typings' = typings + 1
    /\ form[k] # v
    /\ form' = [form EXCEPT ![k] = v]
    /\ errs' = IF v = Wrong THEN errs \cup {k} ELSE errs \ {k}
    /\ typed' = typed \cup {k}
    /\ UNCHANGED <<stored, snap, pageReq>>

typeSite == \/ \E v \in {0, 1, Wrong} : blurField("site_name", v)
            \/ \E v \in {0, 1} : blurField("account_portal_url", v)
typeSec == \E v \in {1, Wrong} : blurField("stepup", v)
typeReg == blurField("registration", 1)
typeTs == blurField("site_key", 1) \/ \E v \in {BlankField, 1} : blurField("secret", v)
typeEmail == blurField("mail_from", 1) \/ blurField("cf_account_id", 1) \/ blurField("token", 1)

(* A box that is left with nothing typed is tidied all the same.           *)
leaveAccount ==
    /\ form # NoDoc /\ form["cf_account_id"] = Loose
    /\ form' = [form EXCEPT !["cf_account_id"] = Tidied(@)]
    /\ errs' \in {errs \cup {"cf_account_id"}, errs \ {"cf_account_id"}}
    /\ UNCHANGED <<stored, snap, pageReq, typed, typings>>

Free(c) ==
    /\ pageReq[c].phase = "none"
    /\ Cardinality({d \in Cards : pageReq[d].phase # "none"}) < MaxBusy

(* A card sends its changed fields and no others.                          *)
saveCard(c, dirty) ==
    /\ form # NoDoc /\ Free(c)
    /\ dirty # {} /\ dirty \cap errs = {}
    /\ pageReq' = [pageReq EXCEPT ![c] = [phase |-> "put", body |-> [k \in dirty |-> form[k]], doc |-> NoDoc]]
    /\ UNCHANGED <<stored, snap, form, errs, typed, typings>>

saveSite == form # NoDoc /\ saveCard("site", siteDirty)
saveSec == form # NoDoc /\ saveCard("sec", secDirty)
saveReg == form # NoDoc /\ saveCard("reg", regDirty)
saveTs == form # NoDoc /\ saveCard("ts", tsDirty)
saveEmail == form # NoDoc /\ saveCard("email", emailDirty)

(* The other button that reads the document again.                         *)
runGenerateGateKey ==
    /\ form # NoDoc /\ Free("gate")
    /\ pageReq' = [pageReq EXCEPT !["gate"].phase = "put"]
    /\ UNCHANGED <<stored, snap, form, errs, typed, typings>>

(* The server takes the request or refuses it; a refused one names the     *)
(* fields.  An answer may be lost either way.                              *)
updateSettings(c) ==
    /\ pageReq[c].phase = "put"
    /\ \/ /\ stored' = pageReq[c].body @@ stored
          /\ pageReq' = [pageReq EXCEPT ![c].phase = "load", ![c].body = << >>]
          /\ UNCHANGED errs
       \/ /\ stored' \in {stored, pageReq[c].body @@ stored}
          /\ pageReq' = [pageReq EXCEPT ![c] = NoReq]
          /\ errs' = errs \/ (errs' = errs \cup DOMAIN pageReq[c].body /\ stored' = stored)
    /\ UNCHANGED <<snap, form, typed, typings>>

getSettingsPage(c) ==
    /\ pageReq[c].phase = "load"
    /\ pageReq' = [pageReq EXCEPT ![c].phase = "answer", ![c].doc = Document]
    /\ UNCHANGED <<stored, snap, form, errs, typed, typings>>

loadPage(c) ==
    /\ pageReq[c].phase = "answer"
    /\ snap' = pageReq[c].doc /\ form' = Taken(pageReq[c].doc) /\ errs' = {}
    /\ typed' = {} /\ pageReq' = [pageReq EXCEPT ![c] = NoReq]
    /\ UNCHANGED <<stored, typings>>

(* The document is not read, or never arrives: the form stays as it is.    *)
loadFails(c) ==
    /\ pageReq[c].phase = "load"
    /\ pageReq' = [pageReq EXCEPT ![c] = NoReq]
    /\ UNCHANGED <<stored, snap, form, errs, typed, typings>>

OtherAdmin ==
    /\ typings < MaxTyped /\ typings' = typings + 1
    /\ \E k \in {"site_name", "account_portal_url"} :
          stored[k] # 1 /\ stored' = [stored EXCEPT ![k] = 1]
    /\ UNCHANGED <<snap, form, errs, pageReq, typed>>

SettingsPage ==
    /\ view = "settings"
    /\ \/ typeSite \/ typeSec \/ typeReg \/ typeTs \/ typeEmail \/ leaveAccount
       \/ saveSite \/ saveSec \/ saveReg \/ saveTs \/ saveEmail \/ runGenerateGateKey \/ OtherAdmin
       \/ \E c \in Cards : updateSettings(c) \/ getSettingsPage(c) \/ loadPage(c) \/ loadFails(c)
    /\ UNCHANGED keyPageVars

---------------------------------------------------------------------------
(* The key status pages.                                                   *)

Unread == {i \in 1..MaxReads : reads[i].state = "none"}
pending == shown # NoDoc /\ shown.rotation

(* A read is made at once, with a generation of its own.                   *)
Issued(i, g, ended) == [reads EXCEPT ![i] = [gen |-> g, since |-> ended, doc |-> NoDoc, state |-> "sent"]]
Next_(i) == i \in Unread /\ \A l \in 1..(i - 1) : l \notin Unread

(* The timer of a page that is unsure or shows a rotation, or its button.  *)
poll(i) ==
    /\ Next_(i) /\ (pending \/ ~sure \/ shown = NoDoc)
    /\ gen' = gen + 1 /\ reads' = Issued(i, gen + 1, attempts)
    /\ UNCHANGED <<key, shown, sure, rotating, waits, attempts>>

getKeys(i) ==
    /\ reads[i].state = "sent"
    /\ reads' = [reads EXCEPT ![i].state = "answered", ![i].doc = key]
    /\ UNCHANGED <<key, shown, sure, gen, rotating, waits, attempts>>

Current_Any(i) == TRUE
Current(i) == reads[i].gen = gen

Finished(i) == IF waits = i THEN "none" ELSE rotating

readAcctKey(i) ==
    /\ reads[i].state = "answered"
    /\ shown' = IF Current(i) THEN [rotation |-> reads[i].doc, since |-> reads[i].since] ELSE shown
    /\ sure' = (sure \/ Current(i))
    /\ reads' = [reads EXCEPT ![i] = [NoRead EXCEPT !.state = "done"]]
    /\ rotating' = Finished(i) /\ waits' = IF waits = i THEN 0 ELSE waits
    /\ UNCHANGED <<key, gen, attempts>>

(* A failed read leaves KeysPage as sure as it was; the portal-key card    *)
(* becomes unsure.                                                         *)
readFailed(i) ==
    /\ reads[i].state \in {"sent", "answered"}
    /\ sure' = IF Current(i) /\ view = "portal" THEN FALSE ELSE sure
    /\ reads' = [reads EXCEPT ![i] = [NoRead EXCEPT !.state = "done"]]
    /\ rotating' = Finished(i) /\ waits' = IF waits = i THEN 0 ELSE waits
    /\ UNCHANGED <<key, shown, gen, attempts>>

Offered == shown # NoDoc /\ sure /\ ~pending /\ rotating = "none"

rotate ==
    /\ Offered /\ attempts < MaxRotates
    /\ rotating' = "sent" /\ gen' = gen + 1
    /\ UNCHANGED <<key, shown, sure, reads, waits, attempts>>

(* The server schedules a rotation unless one is pending.                  *)
rotateKeys ==
    /\ rotating = "sent"
    /\ key' = TRUE
    /\ rotating' = "held"
    /\ UNCHANGED <<shown, sure, gen, reads, waits, attempts>>

(* KeysPage reads again after every attempt, the card after a failed one.  *)
runRotateAcctKey(ok, i) ==
    /\ rotating \in {"sent", "held"} /\ (ok => rotating = "held")
    /\ attempts' = attempts + 1
    /\ shown' = IF ok THEN [rotation |-> TRUE, since |-> attempts + 1] ELSE shown
    /\ IF ok /\ view = "portal"
       THEN /\ gen' = gen + 1 /\ rotating' = "none" /\ UNCHANGED <<sure, reads, waits>>
       ELSE /\ Next_(i) /\ sure' = FALSE
            /\ gen' = gen + 2 /\ reads' = Issued(i, gen + 2, attempts + 1)
            /\ rotating' = "load" /\ waits' = i
    /\ UNCHANGED key

(* The scheduled key becomes the signing key; a request that the page gave *)
(* up on, or another administrator, schedules a rotation.                  *)
RotationEnds ==
    /\ key' = ~key
    /\ UNCHANGED <<shown, sure, gen, reads, rotating, waits, attempts>>

KeysPage ==
    /\ view # "settings"
    /\ \/ \E i \in 1..MaxReads : poll(i) \/ getKeys(i) \/ readAcctKey(i) \/ readFailed(i)
       \/ \E ok \in BOOLEAN, i \in 1..MaxReads : runRotateAcctKey(ok, i)
       \/ rotate \/ rotateKeys \/ RotationEnds
    /\ UNCHANGED formVars

PageNext == (SettingsPage \/ KeysPage) /\ UNCHANGED view
PageStart ==
    \/ \E loose \in {{}, {"account_portal_url"}, {"cf_account_id"}} : PageInit("settings", loose)
    \/ \E v \in {"signing", "portal"} : PageInit(v, {})
PageSpec == PageStart /\ [][PageNext]_pageVars

---------------------------------------------------------------------------
PageTypeOK ==
    /\ \A c \in Cards : pageReq[c].phase \in {"none", "put", "load", "answer"}
    /\ rotating \in {"none", "sent", "held", "load"}
    /\ attempts \in 0..MaxRotates /\ typings \in 0..MaxTyped

(* A save never overwrites a setting that the administrator did not type   *)
(* since the page read the settings, whatever other administrators changed *)
(* and in whatever order the cards' documents arrived (load, saveSite and  *)
(* its siblings).  The exception: a value the page read in a spelling the  *)
(* form cannot keep is sent untyped, in the form's spelling of that value  *)
(* (splitPortal, blur.cf_account_id).                                      *)
NoBlindOverwrite ==
    [][\A c \in Cards : pageReq[c].phase = "none" /\ pageReq'[c].phase = "put"
         => LET body == pageReq'[c].body
            IN \A k \in DOMAIN body \ typed : body[k] # snap[k] /\ body[k] = Tidied(snap[k])]_pageVars

(* A rotation is offered only on a status that was asked for after the     *)
(* last attempt ended, or that was its answer: reads that overlapped the   *)
(* attempt never confirm the page (readGeneration, setUncertain).          *)
FreshOffer == Offered => shown.since = attempts
=============================================================================
