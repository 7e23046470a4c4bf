--------------------------- MODULE RoleAuthority ---------------------------
(***************************************************************************)
(* Who holds which role of one application: the organization roles and     *)
(* their administration (src/src/rbac), the role catalogs the application  *)
(* reports (src/src/backchannel/rolesSync.ts), and the events and the      *)
(* ledger that tell the application.                                       *)
(*                                                                         *)
(* Every writer runs in a transaction that holds one advisory lock         *)
(* (withRoleTransaction), so a committed change is one step; a change that *)
(* fails a check rolls back and is no step.  Smaller levels are more       *)
(* privileged.  All org.* permission keys are one key, "org".              *)
(***************************************************************************)
EXTENDS Integers, FiniteSets

CONSTANTS
    Users,        \* identities that exist or may be created
    OrgRoles,     \* slugs of organization roles
    SystemRoles,  \* org roles with is_system set
    AppRoles,     \* role ids of the application (integers)
    MaxLevel,     \* bound: org levels 0..MaxLevel
    Catalogs,     \* the catalogs the application may report
    Epochs,       \* catalog epochs
    EventIds,     \* ids of incoming events
    MaxNumber,    \* bound: catalog revisions and envelope times
    MaxRevision,  \* bound: authority revisions (2^63 - 1 in the code)
    MaxChanges,   \* bound: committed changes in a behaviour
    No,           \* app_role_id IS NULL: no access
    Inherit,      \* no row at this layer
    Unknown,      \* no ledger row, no event
    None, Unsynced, Unbound, Other, Keep

(* A reported catalog: the levels of its roles, and a default.             *)
IsCatalog(c) ==
    /\ c = [level |-> c.level, dflt |-> c.dflt]
    /\ DOMAIN c.level \subseteq AppRoles
    /\ \A r \in DOMAIN c.level : c.level[r] \in 0..MaxLevel

ASSUME RoleAssumption ==
    /\ AppRoles \subseteq Int /\ MaxLevel \in Nat /\ MaxNumber \in Nat
    /\ MaxRevision \in Nat /\ MaxChanges \in Nat
    /\ \A c \in Catalogs : IsCatalog(c)
    /\ \A c \in Catalogs, d \in AppRoles \cup {No} : [c EXCEPT !.dflt = d] \notin {None, Unsynced}
    /\ AppRoles \cap {No, Inherit, Unknown, Keep} = {} /\ No \notin {Inherit, Unknown, Keep}
    /\ None \notin OrgRoles \cup Epochs /\ Keep \notin OrgRoles
    /\ "application" \notin Users

VARIABLES
    member,      \* user_org_roles of the identities that exist
    level,       \* org_roles: slug -> level
    roleGrants,  \* role_permissions
    userEffect,  \* user_permission_overrides
    appDefault,  \* org_role_app_defaults of the application
    override,    \* user_app_role_overrides of the application
    defaultRole, \* settings: default_org_role
    active,      \* identities whose status is 'active'
    proven,      \* users with a valid token and a fresh strong step-up
    cat,         \* app_role_catalogs and app_roles, or Unsynced
    sync,        \* app_role_sync_state: how the catalog was last reported
    inbox,       \* processed_events: digest per event id
    revision,    \* app_role_sync_state.authority_revision
    ledger,      \* app_role_effective
    told,        \* the last account.roles_change queued per user
    by,          \* who made the last change: a user, or "application"
    changes      \* committed changes so far (bound)

orgVars == <<member, level, roleGrants, userEffect, defaultRole, active, proven>>
catVars == <<cat, sync, inbox>>
pubVars == <<revision, ledger, told>>
roleVars == <<orgVars, appDefault, override, catVars, pubVars, by, changes>>

MfaDisable == "mfa.disable"
Perms == {"org", MfaDisable}
Infinity == MaxLevel + 1
Values == AppRoles \cup {No, Inherit}

Exists(u) == u \in DOMAIN member
LevelOf(u) == IF member[u] \in DOMAIN level THEN level[member[u]] ELSE Infinity
granted(u) ==
    {p \in Perms : \/ userEffect[u][p] = "grant"
                   \/ /\ userEffect[u][p] = "inherit"
                      /\ member[u] \in DOMAIN level /\ p \in roleGrants[member[u]]}
assertOrgRoleProof(u) == u \in proven
lockActors(a) == Exists(a) /\ a \in active
canAdminister(a, t) == Exists(t) /\ t # a /\ LevelOf(t) > LevelOf(a)

---------------------------------------------------------------------------
(* The three readings of a user's application role.                        *)

CatalogDefault == IF cat = Unsynced THEN No ELSE cat.dflt
Catalogued == IF cat = Unsynced THEN {} ELSE DOMAIN cat.level

orgDefault(slug) ==
    IF slug \in DOMAIN level /\ appDefault[slug] # Inherit
    THEN appDefault[slug] ELSE CatalogDefault

effectiveAppRole_Through(u) ==
    CASE override[u] \notin {Inherit, No} -> override[u]
      [] override[u] \in {Inherit, No} /\ member[u] \in DOMAIN level /\ appDefault[member[u]] # Inherit ->
           appDefault[member[u]]
      [] OTHER -> CatalogDefault

effectiveAppRole(u) ==
    CASE override[u] # Inherit -> override[u]
      [] override[u] = Inherit /\ member[u] \in DOMAIN level /\ appDefault[member[u]] # Inherit ->
           appDefault[member[u]]
      [] OTHER -> CatalogDefault

appRoleLevel(r) ==
    IF r \in Catalogued THEN cat.level[r] ELSE Infinity

appAccessAllowed(u) ==
    cat = Unsynced \/ effectiveAppRole(u) \in Catalogued

(* publishRoleChanges joins the layers in SQL; a role that the catalog does *)
(* not have is published as no access.                                     *)
Published(u) ==
    LET raw == CASE override[u] # Inherit -> override[u]
                 [] override[u] = Inherit /\ member[u] # None
                      /\ appDefault[member[u]] # Inherit -> appDefault[member[u]]
                 [] OTHER -> cat.dflt
    IN IF raw \in DOMAIN cat.level THEN raw ELSE No

readAccessState(u) ==
    LET exists == Exists(u)
        role == IF exists /\ cat # Unsynced THEN effectiveAppRole(u) ELSE No
        access == CASE ~exists -> "no_access"
                    [] exists /\ cat = Unsynced -> "unmanaged"
                    [] exists /\ cat # Unsynced /\ role = No -> "no_access"
                    [] OTHER -> IF role \in DOMAIN cat.level THEN "allowed" ELSE "unknown_role"
    IN [role |-> role, access |-> access,
        allowed |-> exists /\ u \in active /\ access \in {"allowed", "unmanaged"}]

---------------------------------------------------------------------------
(* One authority revision per publication; the events and the ledger rows  *)
(* are written in the same transaction as the change.                      *)
publishRoleChanges(subjects, force, forced) ==
    LET changed == {u \in subjects \cap DOMAIN member' :
                      force \/ u \in forced \/ ledger[u] # Published(u)'}
    IN IF cat' = Unsynced \/ changed = {}
       THEN UNCHANGED pubVars
       ELSE /\ revision < MaxRevision
            /\ revision' = revision + 1
            /\ ledger' = [u \in Users |-> IF u \in changed THEN Published(u)' ELSE ledger[u]]
            /\ told' = [u \in Users |-> IF u \in changed
                          THEN [role |-> Published(u)', revision |-> revision'] ELSE told[u]]

roleMutation(a) ==
    /\ changes < MaxChanges
    /\ assertOrgRoleProof(a) /\ lockActors(a)
    /\ by' = a /\ changes' = changes + 1
    /\ UNCHANGED <<catVars, proven>>

requirePermission(a) == "org" \in granted(a)
MayEditPerm(a, p) == p = MfaDisable \/ p \in granted(a)

InheritedAllowed_Unchecked(a, t, slug, value) == TRUE

(* Whether an org-role change lifts what the target inherits above what    *)
(* the actor has.                                                          *)
InheritedAllowed(a, t, slug, value) ==
    \/ cat = Unsynced \/ value # Keep \/ override[t] # Inherit
    \/ orgDefault(slug) = effectiveAppRole(t)
    \/ appRoleLevel(orgDefault(slug)) >= appRoleLevel(effectiveAppRole(a))

ValueAllowed(a, t, slug, value) ==
    /\ cat # Unsynced
    /\ value \in Catalogued \cup {No, Inherit}
    /\ appRoleLevel(effectiveAppRole(t)) >= appRoleLevel(effectiveAppRole(a))
    /\ appRoleLevel(IF value = Inherit THEN orgDefault(slug) ELSE value)
         >= appRoleLevel(effectiveAppRole(a))

applyUserAccess(a, t, orgRole, p, effect, value) ==
    LET slug == IF orgRole = Keep THEN member[t] ELSE orgRole IN
    /\ roleMutation(a)
    /\ canAdminister(a, t)
    /\ orgRole # Keep \/ p # Keep \/ value # Keep
    /\ requirePermission(a)
    /\ orgRole # Keep => orgRole \in DOMAIN level /\ level[orgRole] > LevelOf(a)
    /\ p # Keep => MayEditPerm(a, p)
    /\ value # Keep => ValueAllowed(a, t, slug, value)
    /\ orgRole # Keep => InheritedAllowed(a, t, slug, value)
    /\ member' = [member EXCEPT ![t] = slug]
    /\ userEffect' = IF p = Keep THEN userEffect ELSE [userEffect EXCEPT ![t][p] = effect]
    /\ override' = IF value = Keep THEN override ELSE [override EXCEPT ![t] = value]
    /\ UNCHANGED <<level, roleGrants, defaultRole, active, appDefault>>
    /\ publishRoleChanges(IF orgRole # Keep \/ value # Keep THEN {t} ELSE {}, FALSE, {})

DefaultAllowed(a, slug, value) ==
    /\ cat # Unsynced
    /\ value \in Catalogued \cup {No, Inherit}
    /\ appRoleLevel(orgDefault(slug)) >= appRoleLevel(effectiveAppRole(a))
    /\ appRoleLevel(IF value = Inherit THEN CatalogDefault ELSE value) > appRoleLevel(effectiveAppRole(a))

applyRoleAccess(a, slug, p, effect, value) ==
    /\ roleMutation(a)
    /\ slug \in DOMAIN level /\ level[slug] > LevelOf(a)
    /\ p # Keep \/ value # Keep
    /\ requirePermission(a)
    /\ p # Keep => MayEditPerm(a, p)
    /\ value # Keep => DefaultAllowed(a, slug, value)
    /\ roleGrants' = CASE p = Keep -> roleGrants
                       [] p # Keep /\ effect = "grant" -> [roleGrants EXCEPT ![slug] = @ \cup {p}]
                       [] OTHER -> [roleGrants EXCEPT ![slug] = @ \ {p}]
    /\ appDefault' = IF value = Keep THEN appDefault ELSE [appDefault EXCEPT ![slug] = value]
    /\ UNCHANGED <<member, level, userEffect, defaultRole, active, override>>
    /\ publishRoleChanges(IF value # Keep THEN DOMAIN member ELSE {}, FALSE, {})

(* A new role starts with the permissions and the application default of   *)
(* the default role, and is inserted below the actor's level.              *)
createOrgRole(a, slug, l) ==
    /\ roleMutation(a) /\ requirePermission(a)
    /\ l > LevelOf(a) /\ slug \notin DOMAIN level /\ defaultRole \in DOMAIN level
    /\ level' = [s \in DOMAIN level \cup {slug} |-> IF s = slug THEN l ELSE level[s]]
    /\ roleGrants' = [roleGrants EXCEPT ![slug] = roleGrants[defaultRole]]
    /\ appDefault' = [appDefault EXCEPT ![slug] = appDefault[defaultRole]]
    /\ UNCHANGED <<member, userEffect, defaultRole, active, override, pubVars>>

patchOrgRole(a, slug, l) ==
    /\ roleMutation(a) /\ requirePermission(a)
    /\ slug \in DOMAIN level /\ level[slug] > LevelOf(a)
    /\ l >= 1 /\ l > LevelOf(a)
    /\ level' = [level EXCEPT ![slug] = l]
    /\ UNCHANGED <<member, roleGrants, userEffect, defaultRole, active, appDefault, override, pubVars>>

(* Deleting the row cascades to its permissions and application default.   *)
deleteOrgRole(a, slug) ==
    /\ roleMutation(a) /\ requirePermission(a)
    /\ slug \in DOMAIN level /\ level[slug] > LevelOf(a)
    /\ slug \notin SystemRoles
    /\ slug # defaultRole /\ \A u \in DOMAIN member : member[u] # slug
    /\ level' = [s \in DOMAIN level \ {slug} |-> level[s]]
    /\ roleGrants' = [roleGrants EXCEPT ![slug] = {}]
    /\ appDefault' = [appDefault EXCEPT ![slug] = Inherit]
    /\ UNCHANGED <<member, userEffect, defaultRole, active, override, pubVars>>

setDefaultOrgRole(a, slug) ==
    /\ roleMutation(a) /\ requirePermission(a)
    /\ slug \in DOMAIN level /\ level[slug] > LevelOf(a)
    /\ defaultRole' = slug
    /\ UNCHANGED <<member, level, roleGrants, userEffect, active, appDefault, override, pubVars>>

(* Identity and membership appear together; nothing is published: the       *)
(* application learns of the user at the first sign-in.                     *)
Joins(u, slug) ==
    /\ ~Exists(u) /\ slug \in DOMAIN level
    /\ member' = [x \in DOMAIN member \cup {u} |-> IF x = u THEN slug ELSE member[x]]
    /\ active' = active \cup {u}
    /\ UNCHANGED <<level, roleGrants, userEffect, defaultRole, appDefault, override, pubVars>>

createOrgUser(a, u, slug) ==
    /\ roleMutation(a) /\ requirePermission(a)
    /\ slug \in DOMAIN level /\ level[slug] > LevelOf(a)
    /\ Joins(u, slug)

(* POST /internal/register/complete assigns the default or invited role    *)
(* under the same lock (Registration has the rest of that handler).        *)
register(u, slug) ==
    /\ changes < MaxChanges /\ changes' = changes + 1 /\ by' = "application"
    /\ Joins(u, slug)
    /\ UNCHANGED <<catVars, proven>>

(* Handlers outside the role lock: check, then one statement, then the      *)
(* sessions.                                                               *)
editableTarget(a, t) ==
    /\ changes < MaxChanges /\ changes' = changes + 1 /\ by' = a
    /\ Exists(a) /\ a \in proven /\ requirePermission(a) /\ canAdminister(a, t)
    /\ UNCHANGED <<member, level, roleGrants, userEffect, defaultRole, appDefault, override, catVars, pubVars>>

suspend(a, t) == editableTarget(a, t) /\ active' = active \ {t} /\ proven' = proven \ {t}
reactivate(a, t) == editableTarget(a, t) /\ active' = active \cup {t} /\ UNCHANGED proven
terminateAll(a, t) == editableTarget(a, t) /\ proven' = proven \ {t} /\ UNCHANGED active

stepUp(u) ==
    /\ Exists(u) /\ u \in active /\ u \notin proven
    /\ proven' = proven \cup {u}
    /\ UNCHANGED <<member, level, roleGrants, userEffect, defaultRole, active,
                   appDefault, override, catVars, pubVars, by, changes>>

---------------------------------------------------------------------------
(* Reports of the application: delayed, repeated and reordered at will.    *)

(* A default that is not one of the reported roles is read as none.        *)
normalizeRoleCatalog(c) ==
    [c EXCEPT !.dflt = IF @ \in DOMAIN c.level THEN @ ELSE No]

Versions == {[epoch |-> None, number |-> n] : n \in 1..MaxNumber} \cup
            [epoch : Epochs, number : 1..MaxNumber]
inboxDigest(v, c) == <<IF v.epoch = None THEN None ELSE v, c>>

catalogOrder_Loose(s, v, same, has) ==
    CASE s.epoch # None -> IF v.epoch # s.epoch THEN "conflict"
                           ELSE IF v.number = s.number /\ same THEN "same" ELSE "apply"
      [] OTHER -> "apply"

catalogOrder(s, v, same, has) ==
    LET numbered == CASE v.number < s.number -> "stale"
                      [] v.number > s.number -> "apply"
                      [] OTHER -> IF same THEN "same" ELSE "conflict"
    IN CASE s.epoch # None -> IF v.epoch = s.epoch THEN numbered ELSE "conflict"
         [] s.epoch = None /\ (v.epoch # None \/ ~has) -> "apply"
         [] OTHER -> numbered

(* Where a stored value goes when the new catalog no longer has its role.  *)
Moved(value, c) ==
    IF cat # Unsynced /\ value \in DOMAIN cat.level \ DOMAIN c.level
    THEN IF c.dflt # No /\ cat.level[value] < c.level[c.dflt] THEN c.dflt ELSE No
    ELSE value

TopRole(c) ==
    CHOOSE r \in DOMAIN c.level : \A x \in DOMAIN c.level \ {r} :
        c.level[r] < c.level[x] \/ (c.level[r] = c.level[x] /\ r < x)

applyCatalog(v, c, force) ==
    LET rooted(s) == s \in DOMAIN level /\ level[s] = 0 /\ DOMAIN c.level # {}
        moved == [s \in OrgRoles |-> Moved(appDefault[s], c)]
    IN /\ override' = [u \in Users |-> Moved(override[u], c)]
       /\ appDefault' = [s \in OrgRoles |-> IF rooted(s) THEN TopRole(c) ELSE moved[s]]
       /\ cat' = c
       /\ sync' = [epoch |-> v.epoch, number |-> v.number, digest |-> c]
       /\ publishRoleChanges(DOMAIN member, force,
              {u \in DOMAIN member : /\ rooted(member[u]) /\ override[u] = Inherit
                                     /\ moved[member[u]] # TopRole(c)})

(* A receipt from before the upgrade binds no content, and a legacy sender *)
(* may reuse an id; every other reuse of an id with new content fails.     *)
Bindable(id, v) ==
    \/ inbox[id] \in {None, Unbound}
    \/ v.epoch = None /\ inbox[id] # Other

receiveCatalog(id, v, raw) ==
    LET c == normalizeRoleCatalog(raw)
        force == sync.digest = None \/ (sync.epoch = None /\ v.epoch # None)
        digest == IF sync.digest = None THEN cat ELSE sync.digest
        order == catalogOrder(sync, v, digest = c, cat # Unsynced)
    IN /\ changes < MaxChanges /\ changes' = changes + 1 /\ by' = "application"
       /\ ~(inbox[id] = inboxDigest(v, c) /\ sync.digest # None)
       /\ Bindable(id, v)
       /\ order # "conflict"
       /\ UNCHANGED orgVars
       /\ IF order = "stale" \/ (order = "same" /\ ~force)
          THEN UNCHANGED <<appDefault, override, cat, sync, pubVars>>
          ELSE applyCatalog(v, c, force)
       /\ inbox' = IF inbox[id] = Unbound /\ order = "stale" THEN inbox
                   ELSE [inbox EXCEPT ![id] = inboxDigest(v, c)]

(* An event of another type is acknowledged and its id is bound.           *)
receiveOther(id) ==
    /\ inbox[id] \in {None, Unbound}
    /\ inbox' = [inbox EXCEPT ![id] = Other]
    /\ UNCHANGED <<orgVars, appDefault, override, cat, sync, pubVars, by, changes>>

---------------------------------------------------------------------------
(* A new database, or one whose catalog, ledger and receipts were carried  *)
(* over by the migration without digests.                                  *)
RoleInit(people, roles, grants, defaults, dflt, migrated, done) ==
    /\ member = people /\ level = roles /\ roleGrants = grants
    /\ userEffect = [u \in Users |-> [p \in Perms |-> "inherit"]]
    /\ appDefault = defaults
    /\ override = [u \in Users |-> Inherit]
    /\ defaultRole = dflt /\ active = DOMAIN people /\ proven = DOMAIN people
    /\ cat \in {Unsynced, normalizeRoleCatalog(migrated)}
    /\ sync = [epoch |-> None, number |-> 0, digest |-> None]
    /\ inbox \in {[i \in EventIds |-> r] : r \in {None, Unbound}}
    /\ revision = 0
    /\ ledger = [u \in Users |-> IF cat # Unsynced /\ Exists(u) THEN Published(u) ELSE Unknown]
    /\ told = [u \in Users |-> [role |-> Unknown, revision |-> 0]]
    /\ by = "application" /\ changes = done

Effects == {"grant", "deny", "inherit"}

RoleNext ==
    \/ \E a, t \in Users :
         \/ \E o \in OrgRoles \cup {Keep}, x \in Values \cup {Keep} :
              applyUserAccess(a, t, o, Keep, "inherit", x)
         \/ \E p \in Perms, e \in Effects : applyUserAccess(a, t, Keep, p, e, Keep)
         \/ suspend(a, t) \/ reactivate(a, t) \/ terminateAll(a, t)
         \/ \E s \in OrgRoles : createOrgUser(a, t, s)
    \/ \E a \in Users, s \in OrgRoles :
         \/ \E x \in Values : applyRoleAccess(a, s, Keep, "deny", x)
         \/ \E p \in Perms, e \in {"grant", "deny"} : applyRoleAccess(a, s, p, e, Keep)
         \/ \E l \in 1..MaxLevel : createOrgRole(a, s, l) \/ patchOrgRole(a, s, l)
         \/ deleteOrgRole(a, s) \/ setDefaultOrgRole(a, s)
    \/ \E u \in Users : stepUp(u) \/ \E s \in OrgRoles : register(u, s)
    \/ \E id \in EventIds :
         \/ receiveOther(id)
         \/ \E v \in Versions, c \in Catalogs : receiveCatalog(id, v, c)

RoleTypeOK ==
    /\ DOMAIN member \subseteq Users
    /\ \A u \in DOMAIN member : member[u] \in DOMAIN level \cup {None}
    /\ DOMAIN level \subseteq OrgRoles /\ \A s \in DOMAIN level : level[s] \in 0..MaxLevel
    /\ roleGrants \in [OrgRoles -> SUBSET Perms]
    /\ userEffect \in [Users -> [Perms -> Effects]]
    /\ appDefault \in [OrgRoles -> Values] /\ override \in [Users -> Values]
    /\ defaultRole \in DOMAIN level
    /\ active \subseteq DOMAIN member /\ proven \subseteq active
    /\ revision \in 0..MaxRevision /\ changes \in 0..MaxChanges
    /\ ledger \in [Users -> AppRoles \cup {No, Unknown}]

(* Every user the application was told about holds, at each commit, the    *)
(* role last told: the sign-in check, the ledger, the queued event and the *)
(* answer to an access-state query agree, whoever changed which layer.     *)
(* (publishRoleChanges, effectiveAppRole and ACCESS_STATE_SQL resolve the  *)
(* layers separately.)                                                     *)
LedgerTrue ==
    \A u \in DOMAIN member : ledger[u] # Unknown =>
        /\ appAccessAllowed(u) <=> ledger[u] # No
        /\ ledger[u] # No => effectiveAppRole(u) = ledger[u]
        /\ u \in active => (readAccessState(u).allowed <=> ledger[u] # No)
        /\ told[u].revision > 0 => told[u].role = ledger[u]

---------------------------------------------------------------------------
(* What the pages of the organization offer: the list of users, the detail  *)
(* of a user and its selects.                                              *)
listedUsers(a) == {t \in DOMAIN member : LevelOf(t) >= LevelOf(a)}
listedRoles(a) == {s \in DOMAIN level : level[s] > LevelOf(a)}
linked(a) == {t \in listedUsers(a) : t # a /\ LevelOf(t) > LevelOf(a)}

userDetail(a, t) ==
    LET mine == appRoleLevel(effectiveAppRole(a)) IN
    [org |-> member[t], override |-> override[t],
     perms |-> {p \in Perms : MayEditPerm(a, p)},
     editable |-> appRoleLevel(effectiveAppRole(t)) >= mine,
     actorLevel |-> IF mine = Infinity THEN None ELSE mine]

OfferedApp_All(d) == IF d.editable THEN Catalogued \cup {No} ELSE {}
(* The selects of the access section, without "inherit", whose outcome     *)
(* depends on the defaults.                                                *)
OfferedApp(d) ==
    IF d.editable
    THEN {r \in Catalogued : d.actorLevel = None \/ cat.level[r] >= d.actorLevel} \cup {No}
    ELSE {}

(* What the pages offer an administrator, a save of it alone accepts: the   *)
(* users that are linked open, the roles, permissions and application      *)
(* roles that can be selected are not refused.  (The flags are computed by *)
(* GET /account/org/users/:sub and the page, the refusals by               *)
(* applyUserAccess.  An administrator without a role in the application is  *)
(* offered every role: see README.)                                        *)
OffersAccepted ==
    \A a \in DOMAIN member \cap active : \A t \in linked(a) :
        LET d == userDetail(a, t) IN
        /\ canAdminister(a, t)
        /\ cat # Unsynced /\ d.actorLevel # None =>
             \A r \in OfferedApp(d) : ValueAllowed(a, t, d.org, r)

(* No administrator's change - of a user, of a role's default, of an org   *)
(* role - lifts a person's application role above the administrator's own. *)
NoEscalation ==
    [][by' \in Users /\ changes' # changes /\ cat # Unsynced =>
         \A u \in DOMAIN member :
            LET was == appRoleLevel(effectiveAppRole(u))
                is == appRoleLevel(effectiveAppRole(u))'
            IN is < was => is >= appRoleLevel(effectiveAppRole(by'))]_roleVars

(* Once the application numbers its catalogs, no late or repeated report    *)
(* takes the stored catalog back: another catalog needs a higher number of *)
(* the same epoch.                                                         *)
CatalogForward ==
    [][sync.epoch # None =>
         /\ sync'.epoch = sync.epoch
         /\ cat' # cat => sync'.number > sync.number]_roleVars
=============================================================================
