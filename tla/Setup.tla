------------------------------- MODULE Setup --------------------------------
(***************************************************************************)
(* First-run setup of the SSO (src/src/setup, src/src/routes/setup.ts) and *)
(* of the account portal (account/server/src/setup, routes/setup.ts,       *)
(* mtls.ts): the wizard pages, the requests they make, the files and rows  *)
(* these write one after another, and what a process finds when it boots   *)
(* on them.  A behaviour is about one of the two servers, named by site.   *)
(***************************************************************************)
EXTENDS Integers, FiniteSets, Sequences

CONSTANTS
    Tabs,       \* wizard pages
    Names,      \* user names an operator may choose
    MaxMade,    \* bound: keys generated
    MaxBoots,   \* bound: boots of the process
    MaxPosts    \* bound: requests that change something

VARIABLES
    site,     \* "sso" or "portal"
    disk,     \* [env, key, cut, token, mtls]: .env, its encryption key or
              \* the client key file, which of the two a stop cut short, the
              \* token file, the portal's mtls file
    db,       \* [schema, admins, sealed]: rows of the SSO's database
    ram,      \* the process
    tab,      \* tab -> the wizard page
    post,     \* tab -> the request under way
    minted,     \* keys generated
    posts,    \* bound
    shared    \* what came between the steps of one installation: overlaps,
              \* stops, lost answers (see the properties)

setupVars == <<site, disk, db, ram, tab, post, minted, posts, shared>>

None_ == 0

(* The panels of the two wizards; the last one is shown once setup is done.*)
SsoPanels == <<"env", "administrator", "site", "email", "review", "done">>
PortalPanels == <<"env", "mtls", "review", "done">>
Last == Len(IF site = "sso" THEN SsoPanels ELSE PortalPanels) - 2

NoMtls == [key |-> None_, pending |-> None_, cert |-> None_, enforce |-> FALSE]
Down == [up |-> FALSE, complete |-> FALSE, configured |-> FALSE, pendingKek |-> None_, kek |-> None_,
         token |-> FALSE, boots |-> 0, mtls |-> NoMtls]
Opened == [at |-> 0, verified |-> FALSE, shown |-> None_, late |-> {}, loaded |-> FALSE, csr |-> None_]
NoPost == [kind |-> "none", step |-> "none", kek |-> None_, name |-> None_]

SetupInit(s) ==
    /\ site = s
    /\ disk = [env |-> FALSE, key |-> None_, cut |-> {}, token |-> FALSE, mtls |-> NoMtls]
    /\ db = [schema |-> FALSE, admins |-> {}, sealed |-> None_]
    /\ ram = Down /\ tab = [t \in Tabs |-> Opened] /\ post = [t \in Tabs |-> NoPost]
    /\ minted = 0 /\ posts = 0 /\ shared = {}

---------------------------------------------------------------------------
(* The process.                                                            *)

(* The SSO is configured when .env holds a database and a valid key.       *)
isConfigured_sso == disk.env /\ disk.key # None_

isConfigured_EnvOnly == disk.env
(* The portal is configured when its key file exists as well: a file that  *)
(* was cut exists.                                                         *)
isConfigured_portal == disk.env /\ disk.key # None_

(* The SSO asks its database; one it cannot reach counts as not installed. *)
resolveState_sso(reachable) ==
    [configured |-> isConfigured_sso /\ reachable /\ db.schema,
     complete |-> isConfigured_sso /\ reachable /\ db.admins # {}]

(* The portal asks its files.                                              *)
resolveState_portal == [configured |-> isConfigured_portal, complete |-> isConfigured_portal]

(* ensureSetupToken keeps a token file it finds; only the portal removes   *)
(* one that an interrupted installation left behind.                       *)
ensureSetupToken(complete) == ~complete \/ disk.token
clearLeftover(complete) == ~complete

Booted(s) ==
    [Down EXCEPT !.up = TRUE, !.complete = s.complete, !.configured = s.configured, !.kek = disk.key,
                 !.token = ~s.complete, !.boots = ram.boots + 1, !.mtls = disk.mtls]

main_sso(reachable) ==
    /\ site = "sso" /\ ~ram.up /\ ram.boots < MaxBoots
    /\ LET s == resolveState_sso(reachable)
       IN ram' = Booted(s) /\ disk' = [disk EXCEPT !.token = ensureSetupToken(s.complete)]
    /\ shared' = IF ~reachable /\ db.admins # {} THEN shared \cup {"outage"} ELSE shared
    /\ UNCHANGED <<site, db, tab, post, minted, posts>>

main_portal ==
    /\ site = "portal" /\ ~ram.up /\ ram.boots < MaxBoots
    /\ LET s == resolveState_portal
       IN ram' = Booted(s) /\ disk' = [disk EXCEPT !.token = clearLeftover(s.complete)]
    /\ UNCHANGED <<site, db, tab, post, minted, posts, shared>>

(* A page that shows a key, or will when the answer comes.                 *)
HoldsKey(t) == tab[t].shown # None_ \/ tab[t].late # {}

Halted(why) ==
    /\ ram' = [Down EXCEPT !.boots = ram.boots]
    /\ post' = [t \in Tabs |-> NoPost]
    /\ shared' = shared \cup why \cup {"restart" : t \in {t \in Tabs : HoldsKey(t)}}
    /\ UNCHANGED <<site, db, tab, minted, posts>>

(* A stop: the requests under way die.                                     *)
HostStop == ram.up /\ ram.boots < MaxBoots /\ Halted({}) /\ UNCHANGED disk

(* The wizard answers a bearer of the token until setup is complete.       *)
requireToken == ram.token
setupGate == ram.up /\ ~ram.complete /\ requireToken

---------------------------------------------------------------------------
(* The wizard page.                                                        *)

ensureKek == IF ram.pendingKek # None_ THEN ram.pendingKek ELSE minted + 1

(* A new key is only a candidate, held in memory; a present one is never   *)
(* shown.                                                                  *)
readEnvState == IF disk.key # None_ THEN None_ ELSE ensureKek

loadEnv_sso(t) ==
    /\ site = "sso" /\ setupGate /\ ~tab[t].loaded
    /\ readEnvState > minted => minted < MaxMade
    /\ minted' = IF readEnvState > minted THEN minted + 1 ELSE minted
    /\ ram' = [ram EXCEPT !.pendingKek = IF disk.key # None_ THEN @ ELSE readEnvState]
    /\ tab' = [tab EXCEPT ![t] = [Opened EXCEPT !.loaded = TRUE, !.verified = ram.configured,
                 !.shown = IF ram.configured THEN None_ ELSE readEnvState]]
    /\ UNCHANGED <<site, disk, db, post, posts, shared>>

loadEnv_portal(t) ==
    /\ site = "portal" /\ setupGate /\ ~tab[t].loaded
    /\ tab' = [tab EXCEPT ![t] = [Opened EXCEPT !.loaded = TRUE]]
    /\ UNCHANGED <<site, disk, db, ram, post, minted, posts, shared>>

(* Regenerate: the server rolls the candidate at once and the page learns  *)
(* of it when the answer comes, which may be after another one's or never. *)
regen(t) ==
    /\ setupGate /\ site = "sso" /\ tab[t].loaded /\ ~tab[t].verified /\ minted < MaxMade
    /\ minted' = minted + 1
    /\ ram' = [ram EXCEPT !.pendingKek = minted + 1]
    /\ tab' = [tab EXCEPT ![t].late = IF disk.key = None_ THEN @ \cup {minted + 1} ELSE @]
    /\ shared' = shared \cup {"regenerated" : u \in {u \in Tabs \ {t} : HoldsKey(u)}}
                        \cup {"regenerated" : u \in {u \in Tabs : post[u].kind # "none"}}
                        \cup {"overtaken" : k \in tab[t].late}
    /\ UNCHANGED <<site, disk, db, post, posts>>

regenArrives(t) ==
    /\ \E k \in tab[t].late : tab' = [tab EXCEPT ![t].shown = k, ![t].late = @ \ {k}]
    /\ UNCHANGED <<site, disk, db, ram, post, minted, posts, shared>>

reloadPage(t) ==
    /\ setupGate /\ tab[t] # Opened /\ post[t].kind = "none"
    /\ tab' = [tab EXCEPT ![t] = Opened]
    /\ UNCHANGED <<site, disk, db, ram, post, minted, posts, shared>>

(* Continue leaves a panel whose fields are valid, the first one once its  *)
(* values are saved; Back leaves any.  A page whose server is gone can be  *)
(* turned too, to no effect: it can send nothing until the wizard is back. *)
advance_sso(t) == tab[t].at < Last /\ (tab[t].at = 0 => tab[t].verified)
advance_portal(t) == tab[t].at < Last /\ (tab[t].at = 0 => tab[t].verified)

turnPage(t) ==
    /\ setupGate /\ post[t].kind = "none" /\ tab[t].loaded
    /\ \/ site = "sso" /\ advance_sso(t) /\ tab' = [tab EXCEPT ![t].at = @ + 1]
       \/ site = "portal" /\ advance_portal(t) /\ tab' = [tab EXCEPT ![t].at = @ + 1]
       \/ tab[t].at \in 1..Last /\ tab' = [tab EXCEPT ![t].at = @ - 1]
    /\ UNCHANGED <<site, disk, db, ram, post, minted, posts, shared>>

Send(t, kind, name) ==
    /\ setupGate /\ post[t].kind = "none" /\ tab[t].loaded
    /\ posts < MaxPosts /\ posts' = posts + 1
    /\ post' = [post EXCEPT ![t] = [kind |-> kind, step |-> "received", kek |-> None_, name |-> name]]
    /\ shared' = shared \cup {kind : u \in {u \in Tabs : post[u].kind = kind}}
                        \cup {"overtaken" : k \in {k \in tab[t].late : kind = "config"}}
    /\ UNCHANGED <<site, disk, db, ram, tab, minted>>

saveEnv_sso(t) == site = "sso" /\ tab[t].at = 0 /\ ~tab[t].verified /\ Send(t, "config", None_)
saveEnv_portal(t) == site = "portal" /\ tab[t].at = 0 /\ ~tab[t].verified /\ Send(t, "config", None_)
doFinish_sso(t) == site = "sso" /\ tab[t].at = Last /\ \E name \in Names : Send(t, "finish", name)
doFinish_portal(t) == site = "portal" /\ tab[t].at = Last /\ Send(t, "finish", None_)
generateRequest(t) == site = "portal" /\ tab[t].at = 1 /\ tab[t].csr = None_ /\ Send(t, "csr", None_)

(* The page after the answer to its request, which may be lost.            *)
Answer(t, page) ==
    /\ post' = [post EXCEPT ![t] = NoPost]
    /\ \E p \in {page, tab[t]} : tab' = [tab EXCEPT ![t] = p]

(* An answer with errors: a refused finish of the SSO opens the first      *)
(* panel that holds one.                                                   *)
finishErrors(t) ==
    IF post[t].kind = "finish" /\ site = "sso" THEN 1..Last ELSE {tab[t].at}

(* A save is refused for an invalid field or a server that does not        *)
(* answer, and fails when the schema, the file or the reconnection does.   *)
configRefused_sso(t) ==
    site = "sso" /\ post[t].kind = "config" /\ post[t].step \in {"received", "captured", "persisted"}
configRefused_portal(t) ==
    site = "portal" /\ post[t].kind = "config" /\ post[t].step \in {"received", "persisted"}

(* A finish is refused before step 1, for an invalid field or a name that  *)
(* is taken, and rolled back when a statement fails.                       *)
finishRefused_sso(t) == site = "sso" /\ post[t].kind = "finish" /\ post[t].step = "received"
finishRefused_portal(t) == site = "portal" /\ post[t].kind = "finish" /\ ~isConfigured_portal
requestFails(t) == post[t].kind = "csr"

Refused(t) ==
    /\ \/ configRefused_sso(t) \/ configRefused_portal(t)
       \/ finishRefused_sso(t) \/ finishRefused_portal(t) \/ requestFails(t)
    /\ \E at \in finishErrors(t) : Answer(t, [tab[t] EXCEPT !.at = at])
    /\ UNCHANGED <<site, disk, db, ram, minted, posts, shared>>

---------------------------------------------------------------------------
(* POST /setup/config.                                                     *)

(* The inputs are valid and the servers answer; the key is chosen.         *)
captureKek(t) ==
    /\ site = "sso" /\ post[t].kind = "config" /\ post[t].step = "received"
    /\ LET kek == IF disk.key # None_ THEN disk.key ELSE ensureKek
       IN /\ (kek > minted => minted < MaxMade)
          /\ minted' = IF kek > minted THEN minted + 1 ELSE minted
          /\ ram' = [ram EXCEPT !.pendingKek = IF disk.key # None_ THEN @ ELSE kek]
          /\ post' = [post EXCEPT ![t].step = "captured", ![t].kek = kek]
    /\ UNCHANGED <<site, disk, db, tab, posts, shared>>

applySchema(t) ==
    /\ post[t].kind = "config" /\ post[t].step = "captured" /\ ~db.schema
    /\ db' = [db EXCEPT !.schema = TRUE]
    /\ UNCHANGED <<site, disk, ram, tab, post, minted, posts, shared>>

(* .env is written and the configuration adopted in one go.                *)
upsertEnv_sso(t) ==
    /\ post[t].kind = "config" /\ post[t].step = "captured" /\ db.schema
    /\ disk' = [disk EXCEPT !.env = TRUE, !.key = post[t].kek, !.cut = @ \ {"env"}]
    /\ ram' = [ram EXCEPT !.kek = post[t].kek]
    /\ post' = [post EXCEPT ![t].step = "persisted"]
    /\ UNCHANGED <<site, db, tab, minted, posts, shared>>

upsertEnv_portal(t) ==
    /\ site = "portal" /\ post[t].kind = "config" /\ post[t].step = "received"
    /\ disk' = [disk EXCEPT !.env = TRUE, !.cut = @ \ {"env"}]
    /\ post' = [post EXCEPT ![t].step = "persisted"]
    /\ UNCHANGED <<site, db, ram, tab, minted, posts, shared>>

(* The process dies while it writes .env: the file ends anywhere, with or  *)
(* without the values that make it look configured and the key.            *)
TornEnv(t) ==
    /\ post[t].kind = "config" /\ post[t].step = IF site = "sso" THEN "captured" ELSE "received"
    /\ site = "sso" => db.schema
    /\ \E env \in BOOLEAN, key \in IF site = "sso" THEN {None_, post[t].kek} ELSE {disk.key} :
         disk' = [disk EXCEPT !.env = env, !.key = key, !.cut = @ \cup {"env"}]
    /\ Halted({"torn"})

(* The SSO reconnects and is configured.                                   *)
applyAndPersist(t) ==
    /\ site = "sso" /\ post[t].kind = "config" /\ post[t].step = "persisted"
    /\ ram' = [ram EXCEPT !.pendingKek = None_, !.configured = TRUE]
    /\ Answer(t, [tab[t] EXCEPT !.verified = TRUE])
    /\ UNCHANGED <<site, disk, db, minted, posts, shared>>

(* The portal reconnects and keeps the key it has, or makes one, which     *)
(* takes a moment; a file that was cut does not parse and fails the save.  *)
ensureClientKey(t) ==
    /\ site = "portal" /\ post[t].kind = "config" /\ post[t].step = "persisted"
    /\ "key" \notin disk.cut
    /\ IF disk.key # None_
       THEN Answer(t, [tab[t] EXCEPT !.verified = TRUE, !.shown = disk.key]) /\ UNCHANGED minted
       ELSE /\ minted < MaxMade /\ minted' = minted + 1
            /\ post' = [post EXCEPT ![t].step = "keyed", ![t].kek = minted + 1]
            /\ UNCHANGED tab
    /\ UNCHANGED <<site, disk, db, ram, posts, shared>>

writeClientKey(t) ==
    /\ post[t].step = "keyed"
    /\ disk' = [disk EXCEPT !.key = post[t].kek]
    /\ Answer(t, [tab[t] EXCEPT !.verified = TRUE, !.shown = post[t].kek])
    /\ UNCHANGED <<site, db, ram, minted, posts, shared>>

(* The process dies while it writes the key: the file exists, cut short.   *)
TornKey(t) ==
    /\ post[t].step = "keyed"
    /\ disk' = [disk EXCEPT !.key = post[t].kek, !.cut = @ \cup {"key"}]
    /\ Halted({"torn"})

---------------------------------------------------------------------------
(* POST /setup/finish.                                                     *)

(* One transaction: the roles, the operator as superadmin, the portal's    *)
(* client, the settings (a mail token is sealed) and setup_complete.  When *)
(* the database commits but its answer is lost, the request fails and the  *)
(* wizard stays.                                                           *)
runFinishTransaction(t) ==
    /\ site = "sso" /\ post[t].kind = "finish" /\ post[t].step = "received"
    /\ ram.configured /\ post[t].name \notin db.admins
    /\ \E sealed \in {db.sealed, ram.kek} :
         db' = [db EXCEPT !.admins = @ \cup {post[t].name}, !.sealed = sealed]
    /\ \/ post' = [post EXCEPT ![t].step = "committed"] /\ UNCHANGED shared
       \/ post' = [post EXCEPT ![t] = NoPost] /\ shared' = shared \cup {"unanswered"}
    /\ UNCHANGED <<site, disk, ram, tab, minted, posts>>

(* The latch flips and the token is burnt (markComplete, clearSetupToken). *)
Completed ==
    /\ ram' = [ram EXCEPT !.complete = TRUE, !.configured = TRUE, !.token = FALSE]
    /\ disk' = [disk EXCEPT !.token = FALSE]

(* The operator is then signed in, which may fail: the page stays.         *)
markComplete_sso(t) ==
    /\ post[t].step = "committed" /\ Completed
    /\ Answer(t, [tab[t] EXCEPT !.at = Last + 1])
    /\ UNCHANGED <<site, db, minted, posts, shared>>

markComplete_portal(t) ==
    /\ site = "portal" /\ post[t].kind = "finish" /\ isConfigured_portal /\ Completed
    /\ Answer(t, [tab[t] EXCEPT !.at = Last + 1])
    /\ UNCHANGED <<site, db, minted, posts, shared>>

---------------------------------------------------------------------------
(* The portal's certificate (MtlsState): memory first, then the file.      *)

write(m) ==
    /\ ram' = [ram EXCEPT !.mtls = m]
    /\ disk' = [disk EXCEPT !.mtls = m]

newRequest(t) ==
    /\ post[t].kind = "csr" /\ minted < MaxMade
    /\ minted' = minted + 1
    /\ write([ram.mtls EXCEPT !.pending = minted + 1])
    /\ Answer(t, [tab[t] EXCEPT !.csr = minted + 1])
    /\ UNCHANGED <<site, db, posts, shared>>

(* The certificate the page holds is the one issued for its request.       *)
keyMatches(t, key) == key # None_ /\ key = tab[t].csr

onCertPanel(t) == setupGate /\ site = "portal" /\ tab[t].at = 1 /\ post[t].kind = "none"

installLeaf(t) ==
    /\ onCertPanel(t) /\ ram.mtls.cert # tab[t].csr
    /\ LET key == IF ram.mtls.pending # None_ THEN ram.mtls.pending ELSE ram.mtls.key
       IN /\ keyMatches(t, key)
          /\ write([key |-> key, pending |-> None_, cert |-> key, enforce |-> TRUE])
    /\ UNCHANGED <<site, db, tab, post, minted, posts, shared>>

certReset(t) ==
    /\ onCertPanel(t) /\ ram.mtls # NoMtls /\ write(NoMtls)
    /\ \E csr \in {None_, tab[t].csr} : tab' = [tab EXCEPT ![t].csr = csr]
    /\ UNCHANGED <<site, db, post, minted, posts, shared>>

(* The process dies while it writes the file: what is left of it does not  *)
(* parse, and the next boot reads an empty state.                          *)
TornWrite ==
    /\ site = "portal" /\ ram.up /\ ram.boots < MaxBoots
    /\ \E t \in Tabs : post[t].kind = "csr" \/ (onCertPanel(t) /\ tab[t].csr # None_)
    /\ disk' = [disk EXCEPT !.mtls = NoMtls]
    /\ Halted({})

(* What the portal presents to the SSO (outboundIdentity).                 *)
portalIdentity(m) ==
    IF m.enforce /\ m.cert # None_ /\ m.key # None_ THEN [cert |-> m.cert, key |-> m.key]
    ELSE [cert |-> None_, key |-> None_]

SetupNext ==
    \/ \E reachable \in BOOLEAN : main_sso(reachable)
    \/ main_portal \/ HostStop \/ TornWrite
    \/ \E t \in Tabs :
         \/ loadEnv_sso(t) \/ loadEnv_portal(t) \/ reloadPage(t) \/ turnPage(t)
         \/ regen(t) \/ regenArrives(t)
         \/ saveEnv_sso(t) \/ saveEnv_portal(t) \/ doFinish_sso(t) \/ doFinish_portal(t)
         \/ generateRequest(t) \/ Refused(t)
         \/ captureKek(t) \/ applySchema(t) \/ upsertEnv_sso(t) \/ applyAndPersist(t)
         \/ upsertEnv_portal(t) \/ ensureClientKey(t) \/ writeClientKey(t)
         \/ TornEnv(t) \/ TornKey(t)
         \/ runFinishTransaction(t) \/ markComplete_sso(t) \/ markComplete_portal(t)
         \/ newRequest(t) \/ installLeaf(t) \/ certReset(t)

SetupSpec == (\E s \in {"sso", "portal"} : SetupInit(s)) /\ [][SetupNext]_setupVars

---------------------------------------------------------------------------
SetupTypeOK ==
    /\ minted \in 0..MaxMade /\ posts \in 0..MaxPosts /\ ram.boots \in 0..MaxBoots
    /\ \A t \in Tabs : tab[t].at \in 0..(Last + 1)
    /\ shared \subseteq {"outage", "restart", "regenerated", "overtaken", "torn", "unanswered",
                         "config", "finish", "csr"}

(* A server that left the wizard can work: the portal has its values and   *)
(* its key, the SSO its administrator, whatever stop came between the      *)
(* steps.  A file a stop cut as it was written is the exception: boot sees *)
(* that it exists, never what is in it.                                    *)
CompleteIsUsable ==
    ram.complete =>
      /\ IF site = "portal" THEN disk.env /\ disk.key # None_ ELSE db.admins # {}
      /\ disk.cut # {} => "torn" \in shared

(* A second administrator comes only from finishes that overlapped, from a *)
(* commit whose answer was lost, or from a boot that could not reach the   *)
(* database, or found a .env that a stop cut, and offered setup again.     *)
InstalledOnce ==
    Cardinality(db.admins) > 1 => shared \cap {"finish", "outage", "unanswered", "torn"} # {}

(* What was sealed stays readable with the key in .env, unless a stop cut  *)
(* that file, or saves overlapped with a new candidate asked for.          *)
SealedReadable ==
    db.sealed # None_ /\ disk.key # db.sealed =>
      "torn" \in shared \/ {"config", "regenerated"} \subseteq shared

(* The key a page shows is the one its save wrote (pendingKek), unless     *)
(* saves overlapped, the server restarted, another page asked for a new    *)
(* key in between, or this one did and saved, or asked again, before the   *)
(* answer had come.                                                        *)
ShownIsWritten ==
    \A t \in Tabs : tab[t].verified /\ tab[t].shown # None_ /\ disk.key # tab[t].shown
       => shared \cap {"config", "restart", "regenerated", "overtaken"} # {}

(* The portal never presents a certificate with another one's key, not     *)
(* after a reset, a second request or a torn file.                         *)
IdentityMatches == LET id == portalIdentity(ram.mtls) IN id.cert = id.key

(* First-run setup holds together over crashes, overlapping pages, lost    *)
(* answers and half-done saves (applyAndPersist, ensureClientKey,          *)
(* runFinishTransaction, resolveSetupState).                               *)
SetupSound == CompleteIsUsable /\ InstalledOnce /\ SealedReadable /\ ShownIsWritten /\ IdentityMatches
=============================================================================
