--------------------------- MODULE PlatformProofs ---------------------------
(***************************************************************************)
(* Proofs about what administrators change, for every organization and     *)
(* every catalog: nobody lifts a person above his own role, the ledger     *)
(* and the sign-in check agree, the pages offer what is accepted, and a    *)
(* late report never takes the catalog back. For any number of mutations   *)
(* of a client registration: none whose outcome is unknown is forgotten,   *)
(* and none removes edits it did not send. For any number of reads and     *)
(* rotations, a key page offers actions on what it read last; a settings   *)
(* card writes what its user typed. For any number of administrators: the  *)
(* settings that belong together agree whenever no writer is at work.      *)
(***************************************************************************)
EXTENDS RoleAuthority, ClientDraft, Settings, AdminPages, TLAPS

-----------------------------------------------------------------------------
(* Roles.                                                                  *)

\* A normalized catalog: its default is one of its roles, or none.
IsStored(c) ==
    /\ IsCatalog(c) /\ c.dflt \in DOMAIN c.level \cup {No}
    /\ c # None /\ c # Unsynced

MemberInv ==
    /\ DOMAIN member \subseteq Users
    /\ \A u \in DOMAIN member : member[u] \in DOMAIN level \cup {None}
    /\ DOMAIN level \subseteq OrgRoles
    /\ DOMAIN appDefault = OrgRoles /\ DOMAIN override = Users

\* A report that is numbered left its digest.
CatalogInv ==
    /\ cat = Unsynced \/ IsStored(cat)
    /\ sync.epoch # None => sync.digest # None
    /\ sync.number \in Nat

\* Whoever is in the ledger is there with the role that the layers give now,
\* and the last event said so.
LedgerInv ==
    /\ DOMAIN ledger = Users
    /\ \A u \in Users \ DOMAIN member : ledger[u] = Unknown
    /\ \A u \in DOMAIN member : ledger[u] # Unknown =>
         /\ cat # Unsynced /\ ledger[u] = Published(u)
         /\ told[u].revision > 0 => told[u].role = ledger[u]

RoleInv == MemberInv /\ CatalogInv /\ LedgerInv

\* An organization to begin with.
Founded(people, roles, defaults) ==
    /\ DOMAIN people \subseteq Users /\ DOMAIN roles \subseteq OrgRoles
    /\ \A u \in DOMAIN people : people[u] \in DOMAIN roles \cup {None}
    /\ DOMAIN defaults = OrgRoles

RoleSpec(people, roles, grants, defaults, dflt, migrated, done) ==
    RoleInit(people, roles, grants, defaults, dflt, migrated, done) /\ [][RoleNext]_roleVars

LEMMA NormalizedCatalog ==
    ASSUME NEW b \in Catalogs, NEW d \in AppRoles \cup {No}, NEW c, c = b \/ c = [b EXCEPT !.dflt = d]
    PROVE  /\ IsStored(normalizeRoleCatalog(c))
           /\ normalizeRoleCatalog(c).level = c.level
<1>1. IsCatalog(b)
  BY RoleAssumption
<1>2. b = [level |-> b.level, dflt |-> b.dflt]
  BY <1>1 DEF IsCatalog
<1>3. c.level = b.level /\ \E e : c = [level |-> b.level, dflt |-> e]
  BY <1>2
<1>4. PICK e : c = [level |-> b.level, dflt |-> e]
  BY <1>3
<1> DEFINE f == IF e \in DOMAIN b.level THEN e ELSE No
<1>5. normalizeRoleCatalog(c) = [level |-> b.level, dflt |-> f]
  BY <1>4 DEF normalizeRoleCatalog
<1>6. f \in DOMAIN b.level \cup {No} /\ f \in AppRoles \cup {No}
  BY <1>1 DEF IsCatalog
<1> HIDE DEF f
<1>7. [b EXCEPT !.dflt = f] = [level |-> b.level, dflt |-> f]
  BY <1>2
<1>8. [b EXCEPT !.dflt = f] # None /\ [b EXCEPT !.dflt = f] # Unsynced
  BY <1>6, RoleAssumption
<1>9. QED
  BY <1>1, <1>3, <1>5, <1>6, <1>7, <1>8 DEF IsStored, IsCatalog

LEMMA RoleStart ==
    ASSUME NEW people, NEW roles, NEW grants, NEW defaults, NEW dflt, NEW b \in Catalogs,
           NEW d \in AppRoles \cup {No}, NEW done, Founded(people, roles, defaults),
           RoleInit(people, roles, grants, defaults, dflt, [b EXCEPT !.dflt = d], done)
    PROVE  RoleInv
<1>1. MemberInv
  BY DEF RoleInit, Founded, MemberInv
<1>2. CatalogInv
  BY NormalizedCatalog DEF RoleInit, CatalogInv
<1>3. LedgerInv
  BY <1>1 DEF RoleInit, LedgerInv, MemberInv, Exists
<1>4. QED
  BY <1>1, <1>2, <1>3 DEF RoleInv

\* The layers of a user decide what is published.
LEMMA SamePublished ==
    ASSUME NEW u, override'[u] = override[u], member'[u] = member[u], UNCHANGED cat,
           member[u] # None => appDefault'[member[u]] = appDefault[member[u]]
    PROVE  Published(u)' = Published(u)
BY DEF Published

\* A publication makes the ledger true of its subjects; of the others it must
\* still be.
LEMMA Publication ==
    ASSUME NEW S, NEW force, NEW forced, publishRoleChanges(S, force, forced),
           MemberInv', LedgerInv, DOMAIN member \subseteq DOMAIN member',
           cat # Unsynced => cat' # Unsynced,
           \A u \in DOMAIN member : ledger[u] # Unknown /\ u \notin S => Published(u)' = Published(u)
    PROVE  LedgerInv'
<1> DEFINE changed == {u \in S \cap DOMAIN member' : force \/ u \in forced \/ ledger[u] # Published(u)'}
<1>0. DOMAIN member' \subseteq Users /\ DOMAIN ledger = Users
  BY DEF MemberInv, LedgerInv
<1>1. CASE cat' = Unsynced \/ changed = {}
  <2>1. UNCHANGED <<revision, ledger, told>>
    BY <1>1 DEF publishRoleChanges, pubVars
  <2>2. ASSUME NEW u \in DOMAIN member', ledger[u] # Unknown
        PROVE  /\ cat' # Unsynced /\ ledger[u] = Published(u)'
               /\ told[u].revision > 0 => told[u].role = ledger[u]
    <3>1. u \in DOMAIN member
      BY <1>0, <2>2 DEF LedgerInv
    <3>2. /\ cat' # Unsynced /\ ledger[u] = Published(u)
          /\ told[u].revision > 0 => told[u].role = ledger[u]
      BY <2>2, <3>1 DEF LedgerInv
    <3>3. ledger[u] = Published(u)'
      <4>1. CASE u \in S
        BY <1>1, <3>2, <4>1
      <4>2. CASE u \notin S
        BY <2>2, <3>1, <3>2, <4>2
      <4>3. QED
        BY <4>1, <4>2
    <3>4. QED
      BY <3>2, <3>3
  <2>3. QED
    BY <1>0, <2>1, <2>2 DEF LedgerInv
<1>2. CASE cat' # Unsynced /\ changed # {}
  <2>1. /\ revision' = revision + 1
        /\ ledger' = [u \in Users |-> IF u \in changed THEN Published(u)' ELSE ledger[u]]
        /\ told' = [u \in Users |-> IF u \in changed
                      THEN [role |-> Published(u)', revision |-> revision'] ELSE told[u]]
    BY <1>2 DEF publishRoleChanges
  <2>2. ASSUME NEW u \in DOMAIN member', ledger'[u] # Unknown
        PROVE  /\ ledger'[u] = Published(u)'
               /\ told'[u].revision > 0 => told'[u].role = ledger'[u]
    <3>1. CASE u \in changed
      BY <1>0, <2>1, <3>1
    <3>2. CASE u \notin changed
      <4>1. ledger'[u] = ledger[u] /\ told'[u] = told[u]
        BY <1>0, <2>1, <3>2
      <4>2. u \in DOMAIN member
        BY <1>0, <2>2, <4>1 DEF LedgerInv
      <4>3. ledger[u] = Published(u) /\ (told[u].revision > 0 => told[u].role = ledger[u])
        BY <2>2, <4>1, <4>2 DEF LedgerInv
      <4>4. u \in S => ledger[u] = Published(u)'
        BY <3>2
      <4>5. u \notin S => ledger[u] = Published(u)'
        BY <2>2, <4>1, <4>2, <4>3
      <4>6. QED
        BY <4>1, <4>3, <4>4, <4>5
    <3>3. QED
      BY <3>1, <3>2
  <2>3. ASSUME NEW u \in Users \ DOMAIN member' PROVE ledger'[u] = Unknown
    BY <1>0, <2>1 DEF LedgerInv
  <2>4. QED
    BY <1>2, <2>1, <2>2, <2>3 DEF LedgerInv
<1>3. QED
  BY <1>1, <1>2

\* A change that publishes nothing must leave the layers of every user alone.
LEMMA Unpublished ==
    ASSUME RoleInv, MemberInv', CatalogInv', UNCHANGED pubVars, UNCHANGED cat,
           DOMAIN member \subseteq DOMAIN member',
           \A u \in DOMAIN member :
              /\ override'[u] = override[u] /\ member'[u] = member[u]
              /\ member[u] # None => appDefault'[member[u]] = appDefault[member[u]]
    PROVE  RoleInv'
<1>1. LedgerInv /\ MemberInv
  BY DEF RoleInv
<1>2. ASSUME NEW u \in DOMAIN member PROVE Published(u)' = Published(u)
  BY SamePublished
<1>3. ASSUME NEW u \in DOMAIN member', ledger'[u] # Unknown
      PROVE  /\ cat' # Unsynced /\ ledger'[u] = Published(u)'
             /\ told'[u].revision > 0 => told'[u].role = ledger'[u]
  <2>1. u \in DOMAIN member
    BY <1>1, <1>3 DEF LedgerInv, MemberInv, pubVars
  <2>2. QED
    BY <1>1, <1>2, <1>3, <2>1 DEF LedgerInv, pubVars
<1>4. LedgerInv'
  BY <1>1, <1>3 DEF LedgerInv, pubVars
<1>5. QED
  BY <1>4 DEF RoleInv

LEMMA SameCatalog == ASSUME RoleInv, UNCHANGED <<cat, sync>> PROVE CatalogInv'
BY DEF RoleInv, CatalogInv, IsStored, IsCatalog

LEMMA UserAccessOK ==
    ASSUME RoleInv, NEW a \in Users, NEW t \in Users, NEW o \in OrgRoles \cup {Keep}, NEW p, NEW e,
           NEW x, applyUserAccess(a, t, o, p, e, x)
    PROVE  RoleInv'
<1> DEFINE slug == IF o = Keep THEN member[t] ELSE o
           S == IF o # Keep \/ x # Keep THEN {t} ELSE {}
<1>1. /\ UNCHANGED <<cat, sync, level, appDefault>> /\ t \in DOMAIN member
      /\ member' = [member EXCEPT ![t] = slug]
      /\ override' = IF x = Keep THEN override ELSE [override EXCEPT ![t] = x]
      /\ o # Keep => o \in DOMAIN level
      /\ publishRoleChanges(S, FALSE, {})
  BY DEF applyUserAccess, roleMutation, canAdminister, Exists, catVars
<1>2. MemberInv /\ LedgerInv
  BY DEF RoleInv
<1>3. MemberInv'
  BY <1>1, <1>2 DEF MemberInv
<1>4. CatalogInv'
  BY <1>1, SameCatalog
<1>5. ASSUME NEW u \in DOMAIN member, u \notin S PROVE Published(u)' = Published(u)
  <2>1. override'[u] = override[u] /\ member'[u] = member[u]
    BY <1>1, <1>2, <1>5 DEF MemberInv
  <2>2. QED
    BY <1>1, <2>1, SamePublished
<1>6. LedgerInv'
  <2>1. DOMAIN member' = DOMAIN member
    BY <1>1
  <2> HIDE DEF S
  <2>2. QED
    BY <1>1, <1>2, <1>3, <1>5, <2>1, Publication
<1>7. QED
  BY <1>3, <1>4, <1>6 DEF RoleInv

LEMMA RoleAccessOK ==
    ASSUME RoleInv, NEW a \in Users, NEW s \in OrgRoles, NEW p, NEW e, NEW x, applyRoleAccess(a, s, p, e, x)
    PROVE  RoleInv'
<1> DEFINE S == IF x # Keep THEN DOMAIN member ELSE {}
<1>1. /\ UNCHANGED <<cat, sync, level, member, override>>
      /\ appDefault' = IF x = Keep THEN appDefault ELSE [appDefault EXCEPT ![s] = x]
      /\ publishRoleChanges(S, FALSE, {})
  BY DEF applyRoleAccess, roleMutation, catVars
<1>2. MemberInv /\ LedgerInv
  BY DEF RoleInv
<1>3. MemberInv'
  BY <1>1, <1>2 DEF MemberInv
<1>4. CatalogInv'
  BY <1>1, SameCatalog
<1>5. ASSUME NEW u \in DOMAIN member, u \notin S PROVE Published(u)' = Published(u)
  <2>1. UNCHANGED appDefault
    BY <1>1, <1>5
  <2>2. QED
    BY <1>1, <2>1, SamePublished
<1>6. LedgerInv'
  <2>1. DOMAIN member' = DOMAIN member
    BY <1>1
  <2>2. \E T : publishRoleChanges(T, FALSE, {}) /\ T = S
    BY <1>1
  <2>3. PICK T : publishRoleChanges(T, FALSE, {}) /\ T = S
    BY <2>2
  <2> HIDE DEF S
  <2>4. QED
    BY <1>1, <1>2, <1>3, <1>5, <2>1, <2>3, Publication
<1>7. QED
  BY <1>3, <1>4, <1>6 DEF RoleInv

LEMMA CreateRoleOK ==
    ASSUME RoleInv, NEW a \in Users, NEW s \in OrgRoles, NEW l, createOrgRole(a, s, l) PROVE RoleInv'
<1>1. /\ UNCHANGED <<cat, sync, member, override>> /\ UNCHANGED pubVars
      /\ s \notin DOMAIN level
      /\ level' = [y \in DOMAIN level \cup {s} |-> IF y = s THEN l ELSE level[y]]
      /\ appDefault' = [appDefault EXCEPT ![s] = appDefault[defaultRole]]
  BY DEF createOrgRole, roleMutation, catVars
<1>2. MemberInv
  BY DEF RoleInv
<1>3. MemberInv'
  BY <1>1, <1>2 DEF MemberInv
<1>4. ASSUME NEW u \in DOMAIN member, member[u] # None PROVE appDefault'[member[u]] = appDefault[member[u]]
  BY <1>1, <1>2, <1>4 DEF MemberInv
<1>5. QED
  BY <1>1, <1>3, <1>4, SameCatalog, Unpublished

LEMMA DeleteRoleOK ==
    ASSUME RoleInv, NEW a \in Users, NEW s \in OrgRoles, deleteOrgRole(a, s) PROVE RoleInv'
<1>1. /\ UNCHANGED <<cat, sync, member, override>> /\ UNCHANGED pubVars
      /\ \A u \in DOMAIN member : member[u] # s
      /\ level' = [y \in DOMAIN level \ {s} |-> level[y]]
      /\ appDefault' = [appDefault EXCEPT ![s] = Inherit]
  BY DEF deleteOrgRole, roleMutation, catVars
<1>2. MemberInv
  BY DEF RoleInv
<1>3. MemberInv'
  BY <1>1, <1>2 DEF MemberInv
<1>4. ASSUME NEW u \in DOMAIN member, member[u] # None PROVE appDefault'[member[u]] = appDefault[member[u]]
  BY <1>1, <1>2, <1>4 DEF MemberInv
<1>5. QED
  BY <1>1, <1>3, <1>4, SameCatalog, Unpublished

\* Steps that leave the layers of the users alone.
LEMMA RolesAlone ==
    ASSUME RoleInv, UNCHANGED <<cat, sync, member, override, appDefault>>, UNCHANGED pubVars,
           DOMAIN level' = DOMAIN level
    PROVE  RoleInv'
<1>1. MemberInv'
  BY DEF RoleInv, MemberInv
<1>2. QED
  BY <1>1, SameCatalog, Unpublished

LEMMA JoinOK ==
    ASSUME RoleInv, NEW u \in Users, NEW s \in OrgRoles, Joins(u, s), UNCHANGED catVars PROVE RoleInv'
<1>1. /\ UNCHANGED <<cat, sync, level, override, appDefault>> /\ UNCHANGED pubVars
      /\ u \notin DOMAIN member /\ s \in DOMAIN level
      /\ member' = [x \in DOMAIN member \cup {u} |-> IF x = u THEN s ELSE member[x]]
  BY DEF Joins, Exists, catVars
<1>2. MemberInv
  BY DEF RoleInv
<1>3. MemberInv'
  BY <1>1, <1>2 DEF MemberInv
<1>4. DOMAIN member \subseteq DOMAIN member' /\ \A x \in DOMAIN member : member'[x] = member[x]
  BY <1>1
<1>5. QED
  BY <1>1, <1>3, <1>4, SameCatalog, Unpublished

LEMMA ReceiveOK ==
    ASSUME RoleInv, NEW id, NEW v \in Versions, NEW raw \in Catalogs, receiveCatalog(id, v, raw)
    PROVE  RoleInv'
<1>1. CASE UNCHANGED <<appDefault, override, cat, sync, pubVars>>
  <2>1. UNCHANGED orgVars
    BY DEF receiveCatalog
  <2>2. QED
    BY <1>1, <2>1, RolesAlone DEF orgVars
<1>2. ASSUME NEW force, applyCatalog(v, normalizeRoleCatalog(raw), force), UNCHANGED orgVars PROVE RoleInv'
  <2>1. PICK c : c = normalizeRoleCatalog(raw)
    OBVIOUS
  <2>2. IsStored(c)
    <3>1. No \in AppRoles \cup {No}
      OBVIOUS
    <3>2. QED
      BY <2>1, <3>1, NormalizedCatalog
  <2>3. /\ cat' = c /\ sync' = [epoch |-> v.epoch, number |-> v.number, digest |-> c]
        /\ DOMAIN override' = Users /\ DOMAIN appDefault' = OrgRoles
        /\ \E X : publishRoleChanges(DOMAIN member, force, X)
    BY <1>2, <2>1 DEF applyCatalog
  <2>4. MemberInv'
    BY <1>2, <2>3 DEF RoleInv, MemberInv, orgVars
  <2>5. v.number \in Nat
    BY RoleAssumption DEF Versions
  <2>6. CatalogInv'
    BY <2>2, <2>3, <2>5 DEF CatalogInv, IsStored, IsCatalog
  <2>7. PICK X : publishRoleChanges(DOMAIN member, force, X)
    BY <2>3
  <2>8. DOMAIN member' = DOMAIN member /\ cat' # Unsynced
    BY <1>2, <2>2, <2>3 DEF orgVars, IsStored
  <2>9. PICK T : T = DOMAIN member /\ publishRoleChanges(T, force, X)
    BY <2>7
  <2>10. LedgerInv'
    BY <2>4, <2>8, <2>9, Publication DEF RoleInv
  <2>11. QED
    BY <2>4, <2>6, <2>10 DEF RoleInv
<1>3. QED
  BY <1>1, <1>2 DEF receiveCatalog

LEMMA RoleStep == ASSUME RoleInv, [RoleNext]_roleVars PROVE RoleInv'
<1>1. ASSUME NEW a \in Users, NEW t \in Users,
             \/ \E o \in OrgRoles \cup {Keep}, x \in Values \cup {Keep} :
                  applyUserAccess(a, t, o, Keep, "inherit", x)
             \/ \E p \in Perms, e \in Effects : applyUserAccess(a, t, Keep, p, e, Keep)
      PROVE  RoleInv'
  BY <1>1, UserAccessOK
<1>2. ASSUME NEW a \in Users, NEW t \in Users, suspend(a, t) \/ reactivate(a, t) \/ terminateAll(a, t)
      PROVE  RoleInv'
  BY <1>2, RolesAlone DEF suspend, reactivate, terminateAll, editableTarget, catVars
<1>3. ASSUME NEW a \in Users, NEW t \in Users, NEW s \in OrgRoles, createOrgUser(a, t, s) PROVE RoleInv'
  BY <1>3, JoinOK DEF createOrgUser, roleMutation
<1>4. ASSUME NEW a \in Users, NEW s \in OrgRoles,
             \/ \E x \in Values : applyRoleAccess(a, s, Keep, "deny", x)
             \/ \E p \in Perms, e \in {"grant", "deny"} : applyRoleAccess(a, s, p, e, Keep)
      PROVE  RoleInv'
  BY <1>4, RoleAccessOK
<1>5. ASSUME NEW a \in Users, NEW s \in OrgRoles, NEW l \in 1..MaxLevel,
             createOrgRole(a, s, l) \/ patchOrgRole(a, s, l)
      PROVE  RoleInv'
  <2>1. CASE patchOrgRole(a, s, l)
    BY <2>1, RolesAlone DEF patchOrgRole, roleMutation, catVars
  <2>2. QED
    BY <1>5, <2>1, CreateRoleOK
<1>6. ASSUME NEW a \in Users, NEW s \in OrgRoles, deleteOrgRole(a, s) \/ setDefaultOrgRole(a, s)
      PROVE  RoleInv'
  <2>1. CASE setDefaultOrgRole(a, s)
    BY <2>1, RolesAlone DEF setDefaultOrgRole, roleMutation, catVars
  <2>2. QED
    BY <1>6, <2>1, DeleteRoleOK
<1>7. ASSUME NEW u \in Users, stepUp(u) \/ \E s \in OrgRoles : register(u, s) PROVE RoleInv'
  <2>1. CASE stepUp(u)
    BY <2>1, RolesAlone DEF stepUp, catVars
  <2>2. CASE \E s \in OrgRoles : register(u, s)
    BY <2>2, JoinOK DEF register
  <2>3. QED
    BY <1>7, <2>1, <2>2
<1>8. ASSUME NEW id \in EventIds,
             receiveOther(id) \/ \E v \in Versions, c \in Catalogs : receiveCatalog(id, v, c)
      PROVE  RoleInv'
  <2>1. CASE receiveOther(id)
    BY <2>1, RolesAlone DEF receiveOther, orgVars
  <2>2. QED
    BY <1>8, <2>1, ReceiveOK
<1>9. CASE UNCHANGED roleVars
  BY <1>9, RolesAlone DEF roleVars, orgVars, catVars
<1>10. QED
  BY <1>1, <1>2, <1>3, <1>4, <1>5, <1>6, <1>7, <1>8, <1>9 DEF RoleNext

-----------------------------------------------------------------------------
\* Levels of application roles are numbers, "no role" the lowest of all.
LEMMA AppLevels ==
    ASSUME RoleInv
    PROVE  /\ \A r : appRoleLevel(r) \in 0..Infinity
           /\ Catalogued \subseteq AppRoles
           /\ appRoleLevel(No) = Infinity
<1>1. Catalogued \subseteq AppRoles /\ \A r \in Catalogued : cat.level[r] \in 0..MaxLevel
  BY DEF RoleInv, CatalogInv, IsStored, IsCatalog, Catalogued
<1>2. No \notin Catalogued
  BY <1>1, RoleAssumption
<1>3. QED
  BY <1>1, <1>2, RoleAssumption DEF appRoleLevel, Infinity

\* What is published is what the sign-in check reads.
LEMMA PublishedIs ==
    ASSUME RoleInv, NEW u \in DOMAIN member, cat # Unsynced
    PROVE  /\ effectiveAppRole(u) \in Catalogued => Published(u) = effectiveAppRole(u) /\ Published(u) # No
           /\ effectiveAppRole(u) \notin Catalogued => Published(u) = No
           /\ Catalogued = DOMAIN cat.level
<1>1. member[u] \in DOMAIN level <=> member[u] # None
  BY RoleAssumption DEF RoleInv, MemberInv
<1>2. Catalogued = DOMAIN cat.level /\ CatalogDefault = cat.dflt /\ No \notin Catalogued
  BY AppLevels, RoleAssumption DEF Catalogued, CatalogDefault
<1>3. CASE override[u] # Inherit
  <2>1. effectiveAppRole(u) = override[u]
    BY <1>3 DEF effectiveAppRole
  <2>2. Published(u) = IF override[u] \in DOMAIN cat.level THEN override[u] ELSE No
    BY <1>3 DEF Published
  <2>3. QED
    BY <1>2, <2>1, <2>2
<1>4. CASE override[u] = Inherit /\ member[u] # None /\ appDefault[member[u]] # Inherit
  BY <1>1, <1>2, <1>4 DEF Published, effectiveAppRole
<1>5. CASE override[u] = Inherit /\ ~(member[u] # None /\ appDefault[member[u]] # Inherit)
  BY <1>1, <1>2, <1>5 DEF Published, effectiveAppRole
<1>6. QED
  BY <1>3, <1>4, <1>5

LEMMA LedgerIsTrue == RoleInv => LedgerTrue
<1> SUFFICES ASSUME RoleInv, NEW u \in DOMAIN member, ledger[u] # Unknown
             PROVE  /\ appAccessAllowed(u) <=> ledger[u] # No
                    /\ ledger[u] # No => effectiveAppRole(u) = ledger[u]
                    /\ u \in active => (readAccessState(u).allowed <=> ledger[u] # No)
                    /\ told[u].revision > 0 => told[u].role = ledger[u]
  BY DEF LedgerTrue
<1>1. /\ cat # Unsynced /\ ledger[u] = Published(u)
      /\ told[u].revision > 0 => told[u].role = ledger[u]
  BY DEF RoleInv, LedgerInv
<1>2. /\ effectiveAppRole(u) \in Catalogued => Published(u) = effectiveAppRole(u) /\ Published(u) # No
      /\ effectiveAppRole(u) \notin Catalogued => Published(u) = No
      /\ Catalogued = DOMAIN cat.level
  BY <1>1, PublishedIs
<1>3. No \notin Catalogued
  BY AppLevels, RoleAssumption
<1>4. u \in active => (readAccessState(u).allowed <=> effectiveAppRole(u) \in Catalogued)
  <2> SUFFICES ASSUME u \in active PROVE readAccessState(u).allowed <=> effectiveAppRole(u) \in Catalogued
    OBVIOUS
  <2>1. PICK role : role = effectiveAppRole(u)
    OBVIOUS
  <2>2. Exists(u)
    BY DEF Exists
  <2>3. CASE role = No
    BY <1>1, <1>2, <1>3, <2>1, <2>2, <2>3 DEF readAccessState
  <2>4. CASE role # No /\ role \in DOMAIN cat.level
    BY <1>1, <1>2, <2>1, <2>2, <2>4 DEF readAccessState
  <2>5. CASE role # No /\ role \notin DOMAIN cat.level
    BY <1>1, <1>2, <2>1, <2>2, <2>5 DEF readAccessState
  <2>6. QED
    BY <2>3, <2>4, <2>5
<1>5. QED
  BY <1>1, <1>2, <1>3, <1>4 DEF appAccessAllowed

(* Every user the application was told about holds the role last told,     *)
(* whoever changed which layer (publishRoleChanges, effectiveAppRole,      *)
(* ACCESS_STATE_SQL).                                                      *)
THEOREM LedgerAlwaysTrue ==
    ASSUME NEW CONSTANT people, NEW CONSTANT roles, NEW CONSTANT grants, NEW CONSTANT defaults,
           NEW CONSTANT dflt, NEW CONSTANT b \in Catalogs, NEW CONSTANT d \in AppRoles \cup {No},
           NEW CONSTANT done, Founded(people, roles, defaults)
    PROVE  RoleSpec(people, roles, grants, defaults, dflt, [b EXCEPT !.dflt = d], done) => []LedgerTrue
<1>1. RoleInit(people, roles, grants, defaults, dflt, [b EXCEPT !.dflt = d], done) => RoleInv
  BY RoleStart
<1>2. QED
  BY <1>1, RoleStep, LedgerIsTrue, PTL DEF RoleSpec

LEMMA OffersAreAccepted == RoleInv => OffersAccepted
<1> SUFFICES ASSUME RoleInv, NEW a \in DOMAIN member \cap active, NEW t \in linked(a)
             PROVE  LET d == userDetail(a, t) IN
                    /\ canAdminister(a, t)
                    /\ cat # Unsynced /\ d.actorLevel # None =>
                         \A r \in OfferedApp(d) : ValueAllowed(a, t, d.org, r)
  BY DEF OffersAccepted
<1>1. canAdminister(a, t)
  BY DEF linked, listedUsers, canAdminister, Exists
<1> DEFINE d == userDetail(a, t)
           mine == appRoleLevel(effectiveAppRole(a))
<1>2. ASSUME cat # Unsynced, d.actorLevel # None, NEW r \in OfferedApp(d) PROVE ValueAllowed(a, t, d.org, r)
  <2>1. d.actorLevel = mine /\ d.editable = (appRoleLevel(effectiveAppRole(t)) >= mine)
    BY <1>2 DEF userDetail
  <2>2. d.editable /\ ((r \in Catalogued /\ cat.level[r] >= mine) \/ r = No)
    BY <1>2, <2>1 DEF OfferedApp
  <2>3. mine \in 0..Infinity /\ appRoleLevel(No) = Infinity /\ Catalogued \subseteq AppRoles
    BY AppLevels
  <2>4. r # Inherit
    BY <2>2, <2>3, RoleAssumption
  <2>5. appRoleLevel(r) >= mine
    <3>1. CASE r \in Catalogued /\ cat.level[r] >= mine
      BY <3>1 DEF appRoleLevel
    <3>2. CASE r = No
      BY <2>3, <3>2, RoleAssumption DEF Infinity
    <3>3. QED
      BY <2>2, <3>1, <3>2
  <2> HIDE DEF d
  <2>6. appRoleLevel(effectiveAppRole(t)) >= mine
    BY <2>1, <2>2
  <2>7. QED
    BY <1>2, <2>2, <2>4, <2>5, <2>6 DEF ValueAllowed
<1>3. QED
  BY <1>1, <1>2

(* What the organization pages offer an administrator, a save accepts      *)
(* (GET /account/org/users/:sub against applyUserAccess).                  *)
THEOREM OffersAlwaysAccepted ==
    ASSUME NEW CONSTANT people, NEW CONSTANT roles, NEW CONSTANT grants, NEW CONSTANT defaults,
           NEW CONSTANT dflt, NEW CONSTANT b \in Catalogs, NEW CONSTANT d \in AppRoles \cup {No},
           NEW CONSTANT done, Founded(people, roles, defaults)
    PROVE  RoleSpec(people, roles, grants, defaults, dflt, [b EXCEPT !.dflt = d], done) => []OffersAccepted
<1>1. RoleInit(people, roles, grants, defaults, dflt, [b EXCEPT !.dflt = d], done) => RoleInv
  BY RoleStart
<1>2. QED
  BY <1>1, RoleStep, OffersAreAccepted, PTL DEF RoleSpec

-----------------------------------------------------------------------------
\* The condition of NoEscalation, for one change.
Lifts(u) ==
    LET was == appRoleLevel(effectiveAppRole(u))
        is == appRoleLevel(effectiveAppRole(u))'
    IN is < was => is >= appRoleLevel(effectiveAppRole(by'))

\* Levels, and a user whose layers stay, keep their meaning while the catalog
\* does.
LEMMA SameLevel == ASSUME UNCHANGED cat, NEW r PROVE appRoleLevel(r)' = appRoleLevel(r)
BY DEF appRoleLevel, Catalogued

LEMMA SameEffective ==
    ASSUME UNCHANGED cat, NEW u, override'[u] = override[u], member'[u] = member[u],
           member[u] \in DOMAIN level' <=> member[u] \in DOMAIN level,
           member[u] \in DOMAIN level => appDefault'[member[u]] = appDefault[member[u]]
    PROVE  effectiveAppRole(u)' = effectiveAppRole(u)
BY DEF effectiveAppRole, CatalogDefault

LEMMA SameLifts ==
    ASSUME RoleInv, UNCHANGED cat, NEW u, effectiveAppRole(u)' = effectiveAppRole(u) PROVE Lifts(u)
<1>1. PICK r : r = effectiveAppRole(u)
  OBVIOUS
<1>2. effectiveAppRole(u)' = r /\ appRoleLevel(r)' = appRoleLevel(r) /\ appRoleLevel(r) \in 0..Infinity
  BY <1>1, SameLevel, AppLevels
<1>3. appRoleLevel(effectiveAppRole(u))' = appRoleLevel(r) /\ appRoleLevel(effectiveAppRole(u)) = appRoleLevel(r)
  BY <1>1, <1>2
<1>4. ~(appRoleLevel(r) < appRoleLevel(r))
  BY <1>2, RoleAssumption DEF Infinity
<1>5. QED
  BY <1>3, <1>4 DEF Lifts

LEMMA EnoughLifts ==
    ASSUME UNCHANGED cat, NEW u, NEW r, effectiveAppRole(u)' = r,
           appRoleLevel(r) >= appRoleLevel(effectiveAppRole(by'))
    PROVE  Lifts(u)
<1>1. appRoleLevel(effectiveAppRole(u))' = appRoleLevel(r)
  BY SameLevel
<1>2. QED
  BY <1>1 DEF Lifts

LEMMA UserAccessLifts ==
    ASSUME RoleInv, NEW a \in Users, NEW t \in Users, NEW o \in OrgRoles \cup {Keep}, NEW p, NEW e,
           NEW x, applyUserAccess(a, t, o, p, e, x), cat # Unsynced, NEW u \in DOMAIN member
    PROVE  Lifts(u)
<1>1. PICK slug : slug = IF o = Keep THEN member[t] ELSE o
  OBVIOUS
<1>2. /\ UNCHANGED <<cat, level, appDefault>> /\ t \in DOMAIN member /\ by' = a
      /\ member' = [member EXCEPT ![t] = slug]
      /\ override' = IF x = Keep THEN override ELSE [override EXCEPT ![t] = x]
      /\ o # Keep => o \in DOMAIN level /\ InheritedAllowed(a, t, slug, x)
      /\ x # Keep => ValueAllowed(a, t, slug, x)
  BY <1>1 DEF applyUserAccess, roleMutation, canAdminister, Exists, catVars
<1>3. MemberInv
  BY DEF RoleInv
<1>4. CASE u # t
  BY <1>2, <1>3, <1>4, SameEffective, SameLifts DEF MemberInv
<1>5. CASE u = t
  <2>1. member'[t] = slug /\ override'[t] = IF x = Keep THEN override[t] ELSE x
    BY <1>2, <1>3 DEF MemberInv
  <2>2. override'[t] # Inherit => effectiveAppRole(t)' = override'[t]
    BY DEF effectiveAppRole
  <2>3. override'[t] = Inherit => effectiveAppRole(t)' = orgDefault(slug)
    BY <1>2, <2>1 DEF effectiveAppRole, orgDefault, CatalogDefault
  <2>4. CASE x # Keep
    <3>1. PICK r : r = IF x = Inherit THEN orgDefault(slug) ELSE x
      OBVIOUS
    <3>2. appRoleLevel(r) >= appRoleLevel(effectiveAppRole(a))
      BY <1>2, <2>4, <3>1 DEF ValueAllowed
    <3>3. effectiveAppRole(t)' = r
      BY <2>1, <2>2, <2>3, <2>4, <3>1
    <3>4. QED
      BY <1>2, <1>5, <3>2, <3>3, EnoughLifts
  <2>5. CASE x = Keep /\ (o = Keep \/ override[t] # Inherit)
    <3>1. effectiveAppRole(t)' = effectiveAppRole(t)
      <4>1. CASE override[t] # Inherit
        BY <2>1, <2>2, <2>5, <4>1 DEF effectiveAppRole
      <4>2. CASE o = Keep
        BY <1>1, <1>2, <2>1, <2>5, <4>2, SameEffective
      <4>3. QED
        BY <2>5, <4>1, <4>2
    <3>2. QED
      BY <1>2, <1>5, <3>1, SameLifts
  <2>6. CASE x = Keep /\ o # Keep /\ override[t] = Inherit
    <3>1. PICK r : r = orgDefault(slug)
      OBVIOUS
    <3>2. effectiveAppRole(t)' = r
      BY <2>1, <2>3, <2>6, <3>1
    <3>3. CASE r = effectiveAppRole(t)
      BY <1>2, <1>5, <3>2, <3>3, SameLifts
    <3>4. CASE appRoleLevel(r) >= appRoleLevel(effectiveAppRole(a))
      BY <1>2, <1>5, <3>2, <3>4, EnoughLifts
    <3>5. QED
      BY <1>2, <2>6, <3>1, <3>3, <3>4 DEF InheritedAllowed
  <2>7. QED
    BY <2>4, <2>5, <2>6
<1>6. QED
  BY <1>4, <1>5

LEMMA RoleAccessLifts ==
    ASSUME RoleInv, NEW a \in Users, NEW s \in OrgRoles, NEW p, NEW e, NEW x,
           applyRoleAccess(a, s, p, e, x), cat # Unsynced, NEW u \in DOMAIN member
    PROVE  Lifts(u)
<1>1. /\ UNCHANGED <<cat, level, member, override>> /\ by' = a /\ s \in DOMAIN level
      /\ appDefault' = IF x = Keep THEN appDefault ELSE [appDefault EXCEPT ![s] = x]
      /\ x # Keep => DefaultAllowed(a, s, x)
  BY DEF applyRoleAccess, roleMutation, catVars
<1>2. MemberInv
  BY DEF RoleInv
<1>3. CASE x = Keep \/ override[u] # Inherit \/ member[u] # s
  <2>1. effectiveAppRole(u)' = effectiveAppRole(u)
    <3>1. CASE override[u] # Inherit
      BY <1>1, <3>1 DEF effectiveAppRole
    <3>2. CASE x = Keep \/ member[u] # s
      <4>1. member[u] \in DOMAIN level => appDefault'[member[u]] = appDefault[member[u]]
        BY <1>1, <1>2, <3>2 DEF MemberInv
      <4>2. QED
        BY <1>1, <4>1, SameEffective
    <3>3. QED
      BY <1>3, <3>1, <3>2
  <2>2. QED
    BY <1>1, <2>1, SameLifts
<1>4. CASE x # Keep /\ override[u] = Inherit /\ member[u] = s
  <2>1. PICK r : r = IF x = Inherit THEN CatalogDefault ELSE x
    OBVIOUS
  <2>2. appRoleLevel(r) > appRoleLevel(effectiveAppRole(a))
    BY <1>1, <1>4, <2>1 DEF DefaultAllowed
  <2>3. appDefault'[s] = x
    BY <1>1, <1>2, <1>4 DEF MemberInv
  <2>4. effectiveAppRole(u)' = r
    BY <1>1, <1>4, <2>1, <2>3 DEF effectiveAppRole, CatalogDefault
  <2>5. appRoleLevel(r) \in 0..Infinity /\ appRoleLevel(effectiveAppRole(a)) \in 0..Infinity
    BY AppLevels
  <2>6. appRoleLevel(r) >= appRoleLevel(effectiveAppRole(a))
    BY <2>2, <2>5, RoleAssumption DEF Infinity
  <2>7. QED
    BY <1>1, <2>4, <2>6, EnoughLifts
<1>5. QED
  BY <1>3, <1>4

\* The other changes leave the layers of those who are there alone.
LEMMA OtherLifts ==
    ASSUME RoleInv, UNCHANGED <<cat, override>>, NEW u \in DOMAIN member, member'[u] = member[u],
           member[u] \in DOMAIN level' <=> member[u] \in DOMAIN level,
           member[u] \in DOMAIN level => appDefault'[member[u]] = appDefault[member[u]]
    PROVE  Lifts(u)
BY SameEffective, SameLifts

LEMMA NobodyLifts ==
    ASSUME RoleInv, RoleNext, by' \in Users, changes' # changes, cat # Unsynced, NEW u \in DOMAIN member
    PROVE  Lifts(u)
<1>0. MemberInv
  BY DEF RoleInv
<1>1. ASSUME NEW a \in Users, NEW t \in Users,
             \/ \E o \in OrgRoles \cup {Keep}, x \in Values \cup {Keep} :
                  applyUserAccess(a, t, o, Keep, "inherit", x)
             \/ \E p \in Perms, e \in Effects : applyUserAccess(a, t, Keep, p, e, Keep)
      PROVE  Lifts(u)
  BY <1>1, UserAccessLifts
<1>2. ASSUME NEW a \in Users, NEW t \in Users, suspend(a, t) \/ reactivate(a, t) \/ terminateAll(a, t)
      PROVE  Lifts(u)
  BY <1>2, OtherLifts DEF suspend, reactivate, terminateAll, editableTarget, catVars
<1>3. ASSUME NEW t \in Users, NEW s \in OrgRoles, Joins(t, s), UNCHANGED catVars PROVE Lifts(u)
  <2>1. member'[u] = member[u] /\ UNCHANGED <<cat, override, level, appDefault>>
    BY <1>3 DEF Joins, Exists, catVars
  <2>2. QED
    BY <2>1, OtherLifts
<1>4. ASSUME NEW a \in Users, NEW s \in OrgRoles,
             \/ \E x \in Values : applyRoleAccess(a, s, Keep, "deny", x)
             \/ \E p \in Perms, e \in {"grant", "deny"} : applyRoleAccess(a, s, p, e, Keep)
      PROVE  Lifts(u)
  BY <1>4, RoleAccessLifts
<1>5. ASSUME NEW a \in Users, NEW s \in OrgRoles, NEW l, createOrgRole(a, s, l) PROVE Lifts(u)
  <2>1. /\ UNCHANGED <<cat, override, member>> /\ s \notin DOMAIN level /\ member[u] # s
        /\ level' = [y \in DOMAIN level \cup {s} |-> IF y = s THEN l ELSE level[y]]
        /\ appDefault' = [appDefault EXCEPT ![s] = appDefault[defaultRole]]
    BY <1>0, <1>5, RoleAssumption DEF createOrgRole, roleMutation, catVars, MemberInv
  <2>2. /\ member[u] \in DOMAIN level' <=> member[u] \in DOMAIN level
        /\ member[u] \in DOMAIN level => appDefault'[member[u]] = appDefault[member[u]]
    BY <1>0, <2>1 DEF MemberInv
  <2>3. QED
    BY <2>1, <2>2, OtherLifts
<1>6. ASSUME NEW a \in Users, NEW s \in OrgRoles, NEW l, patchOrgRole(a, s, l) PROVE Lifts(u)
  BY <1>6, OtherLifts DEF patchOrgRole, roleMutation, catVars
<1>7. ASSUME NEW a \in Users, NEW s \in OrgRoles, deleteOrgRole(a, s) PROVE Lifts(u)
  <2>1. /\ UNCHANGED <<cat, override, member>> /\ member[u] # s
        /\ level' = [y \in DOMAIN level \ {s} |-> level[y]]
        /\ appDefault' = [appDefault EXCEPT ![s] = Inherit]
    BY <1>7 DEF deleteOrgRole, roleMutation, catVars
  <2>2. /\ member[u] \in DOMAIN level' <=> member[u] \in DOMAIN level
        /\ member[u] \in DOMAIN level => appDefault'[member[u]] = appDefault[member[u]]
    BY <1>0, <2>1 DEF MemberInv
  <2>3. QED
    BY <2>1, <2>2, OtherLifts
<1>8. ASSUME NEW a \in Users, NEW s \in OrgRoles, setDefaultOrgRole(a, s) PROVE Lifts(u)
  BY <1>8, OtherLifts DEF setDefaultOrgRole, roleMutation, catVars
<1>9. ~\E x \in Users : stepUp(x)
  BY DEF stepUp
<1>10. ~\E id \in EventIds : receiveOther(id) \/ \E v \in Versions, c \in Catalogs : receiveCatalog(id, v, c)
  BY RoleAssumption DEF receiveOther, receiveCatalog
<1>11. QED
  BY <1>1, <1>2, <1>3, <1>4, <1>5, <1>6, <1>7, <1>8, <1>9, <1>10
     DEF RoleNext, createOrgUser, register, roleMutation

(* No administrator's change lifts a person's application role above the   *)
(* administrator's own (assertions of roleAdmin.ts: applyUserAccess,       *)
(* applyRoleAccess and the others).                                        *)
THEOREM NeverEscalates ==
    ASSUME NEW CONSTANT people, NEW CONSTANT roles, NEW CONSTANT grants, NEW CONSTANT defaults,
           NEW CONSTANT dflt, NEW CONSTANT b \in Catalogs, NEW CONSTANT d \in AppRoles \cup {No},
           NEW CONSTANT done, Founded(people, roles, defaults)
    PROVE  RoleSpec(people, roles, grants, defaults, dflt, [b EXCEPT !.dflt = d], done) => NoEscalation
<1>1. RoleInit(people, roles, grants, defaults, dflt, [b EXCEPT !.dflt = d], done) => RoleInv
  BY RoleStart
<1>2. RoleInv /\ [RoleNext]_roleVars =>
        [by' \in Users /\ changes' # changes /\ cat # Unsynced =>
         \A u \in DOMAIN member :
            LET was == appRoleLevel(effectiveAppRole(u))
                is == appRoleLevel(effectiveAppRole(u))'
            IN is < was => is >= appRoleLevel(effectiveAppRole(by'))]_roleVars
  <2> SUFFICES ASSUME RoleInv, RoleNext, by' \in Users, changes' # changes, cat # Unsynced,
                      NEW u \in DOMAIN member
               PROVE  LET was == appRoleLevel(effectiveAppRole(u))
                          is == appRoleLevel(effectiveAppRole(u))'
                      IN is < was => is >= appRoleLevel(effectiveAppRole(by'))
    OBVIOUS
  <2>1. Lifts(u)
    BY NobodyLifts
  <2>2. QED
    BY <2>1 DEF Lifts
<1>3. QED
  BY <1>1, <1>2, RoleStep, PTL DEF RoleSpec, NoEscalation

(* Once the application numbers its catalogs, no late or repeated report   *)
(* takes the stored catalog back (rolesSync.ts catalogOrder).              *)
THEOREM CatalogOnlyForward ==
    ASSUME NEW CONSTANT people, NEW CONSTANT roles, NEW CONSTANT grants, NEW CONSTANT defaults,
           NEW CONSTANT dflt, NEW CONSTANT b \in Catalogs, NEW CONSTANT d \in AppRoles \cup {No},
           NEW CONSTANT done, Founded(people, roles, defaults)
    PROVE  RoleSpec(people, roles, grants, defaults, dflt, [b EXCEPT !.dflt = d], done) => CatalogForward
<1>1. RoleInit(people, roles, grants, defaults, dflt, [b EXCEPT !.dflt = d], done) => RoleInv
  BY RoleStart
<1>2. ASSUME RoleInv, RoleNext, sync.epoch # None
      PROVE  sync'.epoch = sync.epoch /\ (cat' # cat => sync'.number > sync.number)
  <2>1. CASE UNCHANGED <<cat, sync>>
    BY <2>1
  <2>2. ASSUME NEW id \in EventIds, NEW v \in Versions, NEW raw \in Catalogs, receiveCatalog(id, v, raw)
        PROVE  sync'.epoch = sync.epoch /\ (cat' # cat => sync'.number > sync.number)
    <3>1. PICK c : c = normalizeRoleCatalog(raw)
      OBVIOUS
    <3>2. PICK same \in BOOLEAN : same = ((IF sync.digest = None THEN cat ELSE sync.digest) = c)
      OBVIOUS
    <3>3. PICK order : order = catalogOrder(sync, v, same, cat # Unsynced)
      OBVIOUS
    <3>4. sync.digest # None /\ sync.number \in Nat
      BY <1>2 DEF RoleInv, CatalogInv
    <3>5. v.number \in Nat
      BY RoleAssumption DEF Versions
    <3>6. CASE order \in {"stale", "same"}
      BY <1>2, <2>2, <3>1, <3>2, <3>3, <3>4, <3>6, <2>1 DEF receiveCatalog
    <3>7. CASE order \notin {"stale", "same"}
      <4>1. order # "conflict" /\ sync' = [epoch |-> v.epoch, number |-> v.number, digest |-> c]
        BY <2>2, <3>1, <3>2, <3>3, <3>7 DEF receiveCatalog, applyCatalog
      <4>2. v.epoch = sync.epoch
        BY <1>2, <3>3, <4>1 DEF catalogOrder
      <4>3. v.number > sync.number
        BY <1>2, <3>2, <3>3, <3>4, <3>5, <3>7, <4>1, <4>2 DEF catalogOrder
      <4>4. QED
        BY <4>1, <4>2, <4>3
    <3>8. QED
      BY <3>6, <3>7
  <2>3. ASSUME NEW a \in Users, NEW t \in Users,
               \/ \E o \in OrgRoles \cup {Keep}, x \in Values \cup {Keep} :
                    applyUserAccess(a, t, o, Keep, "inherit", x)
               \/ \E p \in Perms, e \in Effects : applyUserAccess(a, t, Keep, p, e, Keep)
               \/ suspend(a, t) \/ reactivate(a, t) \/ terminateAll(a, t)
               \/ \E s \in OrgRoles : createOrgUser(a, t, s)
        PROVE  UNCHANGED <<cat, sync>>
    <3>1. CASE \E o, p, e, x : applyUserAccess(a, t, o, p, e, x)
      BY <3>1 DEF applyUserAccess, roleMutation, catVars
    <3>2. CASE \E s \in OrgRoles : createOrgUser(a, t, s)
      BY <3>2 DEF createOrgUser, roleMutation, catVars
    <3>3. CASE suspend(a, t) \/ reactivate(a, t) \/ terminateAll(a, t)
      BY <3>3 DEF suspend, reactivate, terminateAll, editableTarget, catVars
    <3>4. QED
      BY <2>3, <3>1, <3>2, <3>3
  <2>4. ASSUME NEW a \in Users, NEW s \in OrgRoles,
               \/ \E x \in Values : applyRoleAccess(a, s, Keep, "deny", x)
               \/ \E p \in Perms, e \in {"grant", "deny"} : applyRoleAccess(a, s, p, e, Keep)
               \/ \E l \in 1..MaxLevel : createOrgRole(a, s, l) \/ patchOrgRole(a, s, l)
               \/ deleteOrgRole(a, s) \/ setDefaultOrgRole(a, s)
        PROVE  UNCHANGED <<cat, sync>>
    <3>1. CASE \E p, e, x : applyRoleAccess(a, s, p, e, x)
      BY <3>1 DEF applyRoleAccess, roleMutation, catVars
    <3>2. CASE \E l \in 1..MaxLevel : createOrgRole(a, s, l) \/ patchOrgRole(a, s, l)
      BY <3>2 DEF createOrgRole, patchOrgRole, roleMutation, catVars
    <3>3. CASE deleteOrgRole(a, s) \/ setDefaultOrgRole(a, s)
      BY <3>3 DEF deleteOrgRole, setDefaultOrgRole, roleMutation, catVars
    <3>4. QED
      BY <2>4, <3>1, <3>2, <3>3
  <2>5. ASSUME NEW u \in Users, stepUp(u) \/ \E s \in OrgRoles : register(u, s)
        PROVE  UNCHANGED <<cat, sync>>
    BY <2>5 DEF stepUp, register, catVars
  <2>6. ASSUME NEW id \in EventIds, receiveOther(id)
        PROVE  UNCHANGED <<cat, sync>>
    BY <2>6 DEF receiveOther
  <2>7. QED
    BY <1>2, <2>1, <2>2, <2>3, <2>4, <2>5, <2>6 DEF RoleNext
<1>3. RoleInv /\ [RoleNext]_roleVars =>
        [sync.epoch # None => sync'.epoch = sync.epoch
                              /\ (cat' # cat => sync'.number > sync.number)]_roleVars
  BY <1>2
<1>4. QED
  BY <1>1, <1>3, RoleStep, PTL DEF RoleSpec, CatalogForward

-----------------------------------------------------------------------------
(* Editing a client registration.  The shapes of what a tab holds.         *)
Texts == [Fields -> {0, Pasted, Unsafe}]
PageFields ==
    {"at", "form", "base", "on", "uncertain", "prior", "op", "restored", "omitted", "off", "bad", "settled",
     "expired", "refresh", "lock"}
PageShape(p) ==
    /\ DOMAIN p = PageFields
    /\ p.form \in Texts /\ p.base \in Texts /\ p.omitted \subseteq Fields
    /\ p.on \in BOOLEAN /\ p.uncertain \in BOOLEAN /\ p.prior \in BOOLEAN /\ p.expired \in BOOLEAN
    /\ p.refresh \in BOOLEAN
    /\ p.op \in 0..MaxOps /\ p.restored \in 0..MaxOps
RowShape(r) == DOMAIN r = {"form", "disabled", "exists"} /\ r.form \in Texts
NetShape(n) ==
    /\ DOMAIN n = Ops
    /\ \A o \in Ops : DOMAIN n[o] = {"kind", "form", "state", "ear"} /\ n[o].form \in Texts
Begun(n) == {o \in Ops : n[o].kind # "none"}
DraftShapes == PageShape(page) /\ RowShape(row) /\ NetShape(net) /\ store \in Drafts \cup {NoDraft}

\* The mutations a warning is still owed for.
Owed == unknown \ dropped

\* The mutation a page speaks of: its own, or that of the draft it restored.
Speaks(p) == IF p.op # NoOp THEN p.op ELSE p.restored

\* A mounted page waits for one mutation, the last one begun.
Mounting(p, n) ==
    /\ p.op = NoOp \/ p.restored = NoOp
    /\ p.refresh => p.op = NoOp /\ p.restored = NoOp
    /\ \A o \in Ops : n[o].ear = "page" =>
         /\ p.at = "ready" /\ p.lock = "pending" /\ p.on /\ p.op = o
         /\ \A b \in Begun(n) : b <= o

\* What the draft, and a page that keeps one, must say while U are unknown:
\* that something is; and beyond its own mutation, that something was before.
Warns(d, op, U) ==
    /\ U # {} => d.uncertain
    /\ op # NoOp => (\A o \in U : o <= op) /\ (U \ {op} # {} => d.prior)
DraftWarns(d, U) == IF d = NoDraft THEN U = {} ELSE Warns(d, d.op, U)
PageWarns(p, U) == p.on \/ p.at = "ready" => Warns(p, Speaks(p), U)
Expiry(p, d, U) == p.expired /\ p.on => U = {} /\ d = NoDraft

\* What the draft keeps was changed, the page shows it, and the mutation of
\* the draft, unless it was refused, sent it.
RealEdits(d) ==
    d # NoDraft => \A k \in DOMAIN d.changes : k \in DOMAIN d.base => d.changes[k] # d.base[k]
Shown(p, d) ==
    p.on /\ d # NoDraft /\ p.omitted = {} => \A k \in DOMAIN d.changes : p.form[k] # p.base[k]
SentAll(d, n) ==
    d # NoDraft =>
      \A o \in Ops : d.op = o /\ n[o].ear # "dead" /\ n[o].state # "refused" =>
        \A k \in DOMAIN d.changes : d.changes[k] = n[o].form[k]

DraftInv ==
    /\ DraftShapes /\ Owed \subseteq Begun(net) /\ Mounting(page, net)
    /\ DraftWarns(store, Owed) /\ PageWarns(page, Owed) /\ Expiry(page, store, Owed)
    /\ RealEdits(store) /\ Shown(page, store) /\ SentAll(store, net)

\* What writing the draft of a page leaves in storage.
LEMMA Written ==
    ASSUME NEW p, PageShape(p), NEW U, Warns(p, Speaks(p), U), p.expired => U = {}
    PROVE  /\ writeClientDraft(p) \in Drafts \cup {NoDraft}
           /\ DraftWarns(writeClientDraft(p), U) /\ RealEdits(writeClientDraft(p))
           /\ Shown(p, writeClientDraft(p)) /\ (p.expired => writeClientDraft(p) = NoDraft)
           /\ writeClientDraft(p) # NoDraft =>
                /\ writeClientDraft(p).op = Speaks(p)
                /\ writeClientDraft(p).prior = p.prior
                /\ \A k \in DOMAIN writeClientDraft(p).changes : writeClientDraft(p).changes[k] = p.form[k]
           /\ writeClientDraft(p) = NoDraft =>
                p.expired \/ (p.omitted = {} /\ \A k \in Fields : p.form[k] = p.base[k])
<1> DEFINE dirty == {k \in Fields : p.form[k] # p.base[k]}
           omitted == p.omitted \cup {k \in dirty : \/ k \notin DOMAIN sanitize(p.form)
                                                    \/ k \notin DOMAIN sanitize(p.base)}
           w == [base |-> sanitize(p.base), changes |-> [k \in dirty \ omitted |-> p.form[k]],
                 omitted |-> omitted, uncertain |-> p.uncertain, prior |-> p.prior,
                 op |-> IF p.op # NoOp THEN p.op ELSE p.restored]
           none == p.expired \/ (dirty = {} /\ omitted = {} /\ ~p.uncertain)
<1>1. writeClientDraft(p) = IF none THEN NoDraft ELSE w
  BY DEF writeClientDraft
<1>a. ASSUME NEW f \in Texts, NEW K \in SUBSET Fields
      PROVE  [k \in K |-> f[k]] \in SomeTexts
  <2>1. [k \in K |-> f[k]] \in [K -> {0, Pasted, Unsafe}]
    BY DEF Texts
  <2> QED BY <2>1 DEF SomeTexts
<1>2. \A f \in Texts : sanitize(f) \in SomeTexts
  BY <1>a DEF sanitize
<1>3. [k \in dirty \ omitted |-> p.form[k]] \in SomeTexts
  <2>1. dirty \ omitted \in SUBSET Fields
    OBVIOUS
  <2> HIDE DEF dirty, omitted
  <2> QED BY <1>a, <2>1 DEF PageShape
<1>4. w \in Drafts
  BY <1>2, <1>3 DEF Drafts, PageShape, NoOp
<1>5. w # NoDraft
  BY <1>4, DraftAssumption
<1>6. CASE none
  <2>1. U = {}
    BY <1>6 DEF Warns
  <2>2. p.expired \/ (p.omitted = {} /\ \A k \in Fields : p.form[k] = p.base[k])
    BY <1>6
  <2> QED BY <1>1, <1>6, <2>1, <2>2 DEF DraftWarns, RealEdits, Shown
<1>7. CASE ~none
  <2>1. writeClientDraft(p) = w /\ ~p.expired
    BY <1>1, <1>7
  <2>2. Warns(w, w.op, U) /\ w.op = Speaks(p) /\ w.prior = p.prior
    BY DEF Warns, Speaks
  <2>3. RealEdits(w)
    <3> SUFFICES ASSUME NEW k \in dirty \ omitted, k \in DOMAIN sanitize(p.base)
                 PROVE  p.form[k] # sanitize(p.base)[k]
      BY DEF RealEdits
    <3> QED BY DEF sanitize
  <2>4. Shown(p, w)
    BY DEF Shown
  <2>5. \A k \in DOMAIN w.changes : w.changes[k] = p.form[k]
    OBVIOUS
  <2> HIDE DEF w, none, dirty, omitted
  <2> QED BY <1>4, <1>5, <2>1, <2>2, <2>3, <2>4, <2>5 DEF DraftWarns
<1> QED BY <1>6, <1>7

\* What restoring a draft on top of a registration shows.
LEMMA Restored ==
    ASSUME NEW d \in Drafts, NEW f \in Texts, RealEdits(d), d # NoDraft
    PROVE  /\ restoreClientDraft(d, f).form \in Texts /\ restoreClientDraft(d, f).omitted \subseteq Fields
           /\ restoreClientDraft(d, f).conflicts = {} /\ restoreClientDraft(d, f).omitted = {} =>
                \A k \in DOMAIN d.changes : restoreClientDraft(d, f).form[k] # f[k]
<1>1. /\ DOMAIN d.changes \subseteq Fields /\ \A k \in DOMAIN d.changes : d.changes[k] \in {0, Pasted, Unsafe}
      /\ d.omitted \subseteq Fields
  BY DEF Drafts, SomeTexts
<1>2. Lost(d, f) \subseteq DOMAIN d.changes
  BY DEF Lost
<1>3. restoreClientDraft(d, f).form \in Texts /\ restoreClientDraft(d, f).omitted \subseteq Fields
  BY <1>1, <1>2 DEF restoreClientDraft, Texts
<1>4. ASSUME restoreClientDraft(d, f).conflicts = {}, restoreClientDraft(d, f).omitted = {},
             NEW k \in DOMAIN d.changes
      PROVE  restoreClientDraft(d, f).form[k] # f[k]
  <2>1. k \notin Lost(d, f) /\ k \notin Conflicting(d, f) /\ k \in Fields
    BY <1>1, <1>4 DEF restoreClientDraft
  <2>2. k \in DOMAIN d.base
    BY <2>1 DEF Lost, dependencies
  <2>3. d.base[k] = f[k]
    BY <2>1 DEF Conflicting, dependencies
  <2>4. restoreClientDraft(d, f).form[k] = d.changes[k]
    BY <2>1 DEF restoreClientDraft
  <2> QED BY <2>2, <2>3, <2>4 DEF RealEdits
<1> QED BY <1>3, <1>4

\* What the rules make of a text, and what an empty set of unknowns asks.
LEMMA NormalizedText == ASSUME NEW f \in Texts PROVE Normalized(f) \in Texts
BY DEF Texts, Normalized, normalizePath, Fields, Pasted, Unsafe

LEMMA NothingUnknown ==
    /\ \A d : DraftWarns(d, {})
    /\ \A p : PageWarns(p, {}) /\ Warns(p, Speaks(p), {})
BY DEF DraftWarns, PageWarns, Warns

LEMMA AwayShape ==
    /\ PageShape(Away) /\ Away.on = FALSE /\ Away.at = "away" /\ ~Away.expired /\ ~Away.refresh
    /\ Away.op = NoOp /\ Away.restored = NoOp
BY DraftAssumption DEF Away, PageShape, PageFields, Texts, Fields, NoOp

\* A page that is not there, or forgot its draft, warns of nothing; a document
\* that was unloaded hears nothing.
LEMMA PageGone ==
    ASSUME NEW p, p.on = FALSE, p.at # "ready", NEW d, NEW U
    PROVE  PageWarns(p, U) /\ Expiry(p, d, U) /\ Shown(p, d)
BY DEF PageWarns, Expiry, Shown

LEMMA AllDead ==
    ASSUME NetShape(net)
    PROVE  /\ NetShape(Unloaded) /\ Begun(Unloaded) = Begun(net)
           /\ \A o \in Ops : Unloaded[o].ear = "dead"
           /\ \A d : SentAll(d, Unloaded)
<1>1. \A o \in Ops : Unloaded[o] = [net[o] EXCEPT !.ear = "dead"]
  BY DEF Unloaded
<1>2. \A o \in Ops : /\ DOMAIN Unloaded[o] = {"kind", "form", "state", "ear"} /\ Unloaded[o].form = net[o].form
                     /\ Unloaded[o].kind = net[o].kind /\ Unloaded[o].ear = "dead"
  BY <1>1 DEF NetShape
<1>3. DOMAIN Unloaded = Ops
  BY DEF Unloaded
<1> QED BY <1>2, <1>3 DEF NetShape, Begun, SentAll

-----------------------------------------------------------------------------
(* Opening the page and editing.                                           *)
LEMMA BeginOK ==
    ASSUME DraftInv, NEW op \in Ops, Started = 1..(op - 1), page.at = "ready", page.lock = "idle",
           NEW kind \in {"save", "disable", "enable", "delete"}, beginMutation(op, kind)
    PROVE  DraftInv'
<1>0. /\ PageShape(page) /\ NetShape(net) /\ RowShape(row) /\ Owed \subseteq Begun(net)
      /\ Mounting(page, net) /\ PageWarns(page, Owed) /\ Expiry(page, store, Owed)
      /\ op \in 1..MaxOps /\ op # NoOp
  BY DraftAssumption DEF DraftInv, DraftShapes, Ops, NoOp
<1>1. /\ page' = [page EXCEPT !.on = TRUE, !.op = op, !.restored = NoOp, !.settled = FALSE,
                              !.prior = page.uncertain, !.uncertain = TRUE, !.lock = "pending",
                              !.refresh = FALSE, !.expired = page.expired /\ page.on]
      /\ net' = [net EXCEPT ![op] = [kind |-> kind, form |-> page.form, state |-> "sent", ear |-> "page"]]
      /\ store' = persistDraft(page') /\ row' = row
      /\ Owed' \subseteq IF page'.expired THEN {} ELSE Owed \cup {op}
  BY DEF beginMutation, Owed
<1>2. /\ DOMAIN page' = PageFields /\ page'.on = TRUE /\ page'.op = op /\ page'.restored = NoOp
      /\ page'.prior = page.uncertain /\ page'.uncertain = TRUE /\ page'.lock = "pending"
      /\ page'.refresh = FALSE /\ page'.expired = (page.expired /\ page.on) /\ page'.at = "ready"
      /\ page'.form = page.form /\ page'.base = page.base /\ page'.omitted = page.omitted
  BY <1>0, <1>1 DEF PageShape, PageFields
<1>3. PageShape(page')
  <2>1. NoOp \in 0..MaxOps /\ op \in 0..MaxOps
    BY <1>0, DraftAssumption DEF NoOp
  <2>2. (page.expired /\ page.on) \in BOOLEAN /\ TRUE \in BOOLEAN /\ FALSE \in BOOLEAN
    OBVIOUS
  <2> QED BY <1>0, <1>2, <2>1, <2>2, Zenon DEF PageShape
<1>4. /\ net'[op] = [kind |-> kind, form |-> page.form, state |-> "sent", ear |-> "page"]
      /\ \A o \in Ops : o # op => net'[o] = net[o]
      /\ DOMAIN net' = Ops
  BY <1>0, <1>1 DEF NetShape
<1>5. NetShape(net')
  BY <1>0, <1>4 DEF NetShape, PageShape
<1>6. Begun(net') = Begun(net) \cup {op} /\ Begun(net) = 1..(op - 1)
  BY <1>4 DEF Begun, Started
<1>7. Mounting(page', net')
  <2>1. \A o \in Ops : net'[o].ear = "page" => o = op
    BY <1>0, <1>4 DEF Mounting
  <2>2. \A b \in Begun(net') : b <= op
    BY <1>0, <1>6
  <2> QED BY <1>2, <2>1, <2>2 DEF Mounting
<1>8. Speaks(page') = op
  BY <1>0, <1>2 DEF Speaks
<1>9. Warns(page', op, Owed') /\ Owed' \subseteq Begun(net')
  <2>1. Owed' \subseteq Owed \cup {op}
    BY <1>1
  <2>2. \A o \in Owed' : o <= op
    BY <1>0, <1>6, <2>1
  <2>3. Owed' \ {op} # {} => page.uncertain
    BY <1>0, <2>1 DEF PageWarns, Warns
  <2> QED BY <1>0, <1>2, <1>6, <2>1, <2>2, <2>3 DEF Warns
<1>10. page'.expired => Owed' = {}
  BY <1>1
<1>11. store' = writeClientDraft(page')
  BY <1>1, <1>2 DEF persistDraft
<1>12. /\ store' \in Drafts \cup {NoDraft} /\ DraftWarns(store', Owed') /\ RealEdits(store')
       /\ Shown(page', store') /\ (page'.expired => store' = NoDraft)
       /\ store' # NoDraft => /\ store'.op = op
                              /\ \A k \in DOMAIN store'.changes : store'.changes[k] = page'.form[k]
  BY <1>3, <1>8, <1>9, <1>10, <1>11, Written
<1>13. SentAll(store', net')
  BY <1>2, <1>4, <1>12 DEF SentAll
<1> QED
  BY <1>0, <1>1, <1>3, <1>5, <1>7, <1>8, <1>9, <1>10, <1>12, <1>13
     DEF DraftInv, DraftShapes, PageWarns, Expiry, RowShape

LEMMA SetOK ==
    ASSUME DraftInv, NEW k \in Fields, NEW v \in {0, Pasted, Unsafe}, set(k, v)
    PROVE  DraftInv'
<1>0. /\ PageShape(page) /\ NetShape(net) /\ RowShape(row) /\ Owed \subseteq Begun(net)
      /\ Mounting(page, net) /\ PageWarns(page, Owed) /\ Expiry(page, store, Owed)
  BY DEF DraftInv, DraftShapes
<1>1. /\ page.at = "ready" /\ page.lock # "pending" /\ UNCHANGED <<row, net, Owed>>
      /\ page' = [page EXCEPT !.form = blur(k, v).form, !.bad = blur(k, v).bad, !.on = TRUE,
                              !.op = NoOp, !.restored = NoOp, !.settled = FALSE,
                              !.omitted = @ \ {k}, !.expired = page.expired /\ page.on]
      /\ store' = persistDraft(page')
  BY DEF set, formLocked, Owed
<1>2. blur(k, v).form \in Texts
  <2>1. [page.form EXCEPT ![k] = v] \in Texts
    BY <1>0 DEF PageShape, Texts
  <2> QED BY <2>1, NormalizedText DEF blur
<1>3. /\ DOMAIN page' = PageFields /\ page'.on = TRUE /\ page'.op = NoOp /\ page'.restored = NoOp
      /\ page'.prior = page.prior /\ page'.uncertain = page.uncertain
      /\ page'.refresh = page.refresh /\ page'.expired = (page.expired /\ page.on)
      /\ page'.form = blur(k, v).form /\ page'.base = page.base /\ page'.omitted = page.omitted \ {k}
  BY <1>0, <1>1 DEF PageShape, PageFields
<1>4. PageShape(page')
  <2>1. NoOp \in 0..MaxOps
    BY DraftAssumption DEF NoOp
  <2>2. (page.expired /\ page.on) \in BOOLEAN /\ TRUE \in BOOLEAN
    OBVIOUS
  <2>3. page.omitted \ {k} \subseteq Fields
    BY <1>0 DEF PageShape
  <2> QED BY <1>0, <1>2, <1>3, <2>1, <2>2, <2>3, Zenon DEF PageShape
<1>5. Mounting(page', net)
  BY <1>0, <1>1, <1>3 DEF Mounting
<1>6. Speaks(page') = NoOp /\ Warns(page', NoOp, Owed) /\ (page'.expired => Owed = {})
  BY <1>0, <1>1, <1>3 DEF Speaks, Warns, PageWarns, Expiry
<1>7. store' = writeClientDraft(page')
  BY <1>1, <1>3 DEF persistDraft
<1>8. /\ store' \in Drafts \cup {NoDraft} /\ DraftWarns(store', Owed) /\ RealEdits(store')
      /\ Shown(page', store') /\ (page'.expired => store' = NoDraft)
      /\ store' # NoDraft => store'.op = NoOp
  BY <1>4, <1>6, <1>7, Written
<1>9. SentAll(store', net)
  BY <1>8 DEF SentAll, NoOp, Ops
<1> QED
  BY <1>0, <1>1, <1>4, <1>5, <1>6, <1>8, <1>9 DEF DraftInv, DraftShapes, PageWarns, Expiry

LEMMA FormOK ==
    ASSUME DraftInv, ClientEditForm
    PROVE  DraftInv'
<1>0. /\ PageShape(page) /\ NetShape(net) /\ RowShape(row) /\ Owed \subseteq Begun(net)
      /\ Mounting(page, net) /\ PageWarns(page, Owed) /\ Expiry(page, store, Owed)
      /\ store \in Drafts \cup {NoDraft} /\ DraftWarns(store, Owed) /\ RealEdits(store)
      /\ SentAll(store, net) /\ page.at = "loading" /\ UNCHANGED <<row, net>>
  BY DEF DraftInv, DraftShapes, ClientEditForm, Owed, DropsWarnings
<1>1. \A o \in Ops : net[o].ear # "page"
  BY <1>0 DEF Mounting
<1>2. CASE ~row.exists
  <2>1. page' = [Away EXCEPT !.at = "failed"] /\ store' = NoDraft /\ Owed' = {}
    BY <1>2 DEF ClientEditForm, Owed, DropsWarnings
  <2>2. /\ PageShape(page') /\ page'.at = "failed" /\ page'.on = FALSE /\ page'.refresh = FALSE
        /\ page'.op = NoOp
    BY <2>1, AwayShape DEF PageShape, PageFields
  <2> QED
    BY <1>0, <1>1, <2>1, <2>2, PageGone, NothingUnknown
       DEF DraftInv, DraftShapes, Mounting, RealEdits, SentAll
<1> DEFINE b == Blank(row)
<1>3. /\ PageShape(b) /\ b.at = "ready" /\ b.on = TRUE /\ b.refresh = FALSE /\ b.op = NoOp
      /\ b.restored = NoOp /\ b.expired = FALSE /\ b.form = row.form /\ b.base = row.form
  BY <1>0, AwayShape DEF PageShape, PageFields, Blank, RowShape
<1> HIDE DEF b
<1>4. CASE row.exists /\ (store = NoDraft \/ row.disabled)
  <2>1. page' = b /\ store' = NoDraft /\ Owed' = {}
    BY <1>0, <1>4 DEF ClientEditForm, DraftWarns, b, Owed, DropsWarnings
  <2> QED
    BY <1>0, <1>1, <1>3, <2>1, NothingUnknown
       DEF DraftInv, DraftShapes, Mounting, RealEdits, SentAll, Expiry, Shown
<1>5. CASE row.exists /\ store # NoDraft /\ ~row.disabled
  <2> DEFINE r == restoreClientDraft(store, row.form)
  <2>1. /\ page' = [b EXCEPT !.form = r.form, !.omitted = r.omitted, !.uncertain = store.uncertain,
                             !.prior = store.prior, !.restored = store.op]
        /\ store' = (IF r.conflicts # {} THEN NoDraft ELSE store)
        /\ Owed' = (IF r.conflicts # {} THEN {} ELSE Owed)
    BY <1>5 DEF ClientEditForm, b, Owed, DropsWarnings
  <2>2. /\ r.form \in Texts /\ r.omitted \subseteq Fields
        /\ r.conflicts = {} /\ r.omitted = {} => \A k \in DOMAIN store.changes : r.form[k] # row.form[k]
    BY <1>0, <1>5, Restored DEF RowShape
  <2> HIDE DEF r
  <2>3. store.uncertain \in BOOLEAN /\ store.prior \in BOOLEAN /\ store.op \in 0..MaxOps
    BY <1>0, <1>5 DEF Drafts
  <2>4. /\ DOMAIN page' = PageFields /\ page'.at = "ready" /\ page'.on = TRUE /\ page'.refresh = FALSE
        /\ page'.op = NoOp /\ page'.restored = store.op /\ page'.expired = FALSE
        /\ page'.form = r.form /\ page'.base = row.form /\ page'.omitted = r.omitted
        /\ page'.uncertain = store.uncertain /\ page'.prior = store.prior
    BY <1>3, <2>1 DEF PageShape, PageFields
  <2>5. PageShape(page')
    <3>1. NoOp \in 0..MaxOps
      BY DraftAssumption DEF NoOp
    <3>2. TRUE \in BOOLEAN /\ FALSE \in BOOLEAN
      OBVIOUS
    <3> QED BY <1>0, <2>2, <2>3, <2>4, <3>1, <3>2, Zenon DEF PageShape, RowShape
  <2>6. Mounting(page', net)
    BY <1>1, <2>4 DEF Mounting
  <2>7. CASE r.conflicts # {}
    <3>1. store' = NoDraft /\ Owed' = {}
      BY <2>1, <2>7
    <3> QED
      BY <1>0, <2>4, <2>5, <2>6, <3>1, NothingUnknown
         DEF DraftInv, DraftShapes, RealEdits, SentAll, Expiry, Shown
  <2>8. CASE r.conflicts = {}
    <3>1. store' = store /\ Owed' = Owed
      BY <2>1, <2>8
    <3>2. Warns(page', Speaks(page'), Owed)
      BY <1>0, <1>5, <2>4 DEF DraftWarns, Warns, Speaks
    <3>3. Shown(page', store)
      BY <2>2, <2>4, <2>8 DEF Shown
    <3> QED
      BY <1>0, <2>4, <2>5, <2>6, <3>1, <3>2, <3>3 DEF DraftInv, DraftShapes, Expiry, PageWarns
  <2> QED BY <2>7, <2>8
<1> QED BY <1>2, <1>4, <1>5

-----------------------------------------------------------------------------
(* The answers.                                                            *)

\* An answer that was heard leaves no other request changed.
LEMMA HeardNet ==
    ASSUME NetShape(net), NEW op \in Ops, NEW success, NEW uncertain, Heard(op, success, uncertain)
    PROVE  /\ NetShape(net') /\ Begun(net') = Begun(net)
           /\ \A o \in Ops : net'[o].ear # "dead" => o # op /\ net'[o] = net[o]
<1>1. /\ net' = [net EXCEPT ![op].ear = "dead",
                            ![op].form = IF net[op].state = "sent" THEN @ ELSE Quiet.form]
      /\ Quiet.form \in Texts
  BY DEF Heard, Quiet, Texts
<1>a. PICK b \in Texts : b = (IF net[op].state = "sent" THEN net[op].form ELSE Quiet.form)
  BY <1>1 DEF NetShape
<1>2. /\ DOMAIN net' = Ops /\ \A o \in Ops : o # op => net'[o] = net[o]
      /\ net'[op] = [net[op] EXCEPT !.ear = "dead", !.form = b]
  BY <1>1, <1>a DEF NetShape
<1>b. DOMAIN net[op] = {"kind", "form", "state", "ear"}
  BY DEF NetShape
<1>3. /\ DOMAIN net'[op] = {"kind", "form", "state", "ear"} /\ net'[op].form \in Texts
      /\ net'[op].kind = net[op].kind /\ net'[op].ear = "dead"
  <2>1. DOMAIN net'[op] = DOMAIN net[op]
    BY <1>2
  <2>2. net'[op].form = b /\ net'[op].kind = net[op].kind /\ net'[op].ear = "dead"
    BY <1>2, <1>b
  <2> QED BY <1>a, <1>b, <2>1, <2>2
<1>4. NetShape(net')
  BY <1>2, <1>3 DEF NetShape
<1>5. Begun(net') = Begun(net)
  BY <1>2, <1>3 DEF Begun
<1> QED BY <1>2, <1>3, <1>4, <1>5

\* A failure settles the draft of its own mutation: it still warns of what was
\* Owed before.
LEMMA FailureSettles ==
    ASSUME DraftInv, NEW op \in Ops, NEW uncertain \in BOOLEAN
    PROVE  LET d == settleClientDraft(op, FALSE, uncertain)
               U == IF uncertain THEN Owed ELSE Owed \ {op}
           IN  /\ d \in Drafts \cup {NoDraft} /\ (d = NoDraft <=> store = NoDraft)
               /\ DraftWarns(d, U) /\ RealEdits(d) /\ Shown(page, d)
               /\ \A n : (\A o \in Ops : n[o].ear # "dead" => n[o] = net[o]) => SentAll(d, n)
<1>0. /\ store \in Drafts \cup {NoDraft} /\ DraftWarns(store, Owed) /\ RealEdits(store)
      /\ Shown(page, store) /\ SentAll(store, net) /\ op # NoOp
  BY DEF DraftInv, DraftShapes, NoOp, Ops
<1> DEFINE d == settleClientDraft(op, FALSE, uncertain)
           U == IF uncertain THEN Owed ELSE Owed \ {op}
<1>1. CASE ~Settles(op)
  <2>1. d = store
    BY <1>1 DEF settleClientDraft
  <2>2. DraftWarns(store, U)
    BY <1>0 DEF DraftWarns, Warns
  <2>3. \A n : (\A o \in Ops : n[o].ear # "dead" => n[o] = net[o]) => SentAll(store, n)
    BY <1>0 DEF SentAll
  <2> QED BY <1>0, <2>1, <2>2, <2>3
<1>2. CASE Settles(op)
  <2>0. store # NoDraft /\ store.op = op /\ store \in Drafts
    BY <1>0, <1>2 DEF Settles
  <2>1. PICK before \in BOOLEAN : before = (store.prior \/ uncertain)
    OBVIOUS
  <2>2. d = [store EXCEPT !.op = NoOp, !.uncertain = before, !.prior = before]
    BY <1>2, <2>1 DEF settleClientDraft, PriorKept
  <2>a. NoOp \in 0..MaxOps
    BY DraftAssumption DEF NoOp
  <2>b. d \in Drafts
    BY <2>0, <2>1, <2>2, <2>a DEF Drafts
  <2>3. d.op = NoOp /\ d.uncertain = before /\ d.prior = before
        /\ d.changes = store.changes /\ d.base = store.base
    BY <2>0, <2>2 DEF Drafts
  <2>4. d # NoDraft
    BY <2>b, DraftAssumption
  <2> HIDE DEF d, U
  <2>5. U # {} => before
    BY <1>0, <2>0, <2>1 DEF DraftWarns, Warns, U
  <2>6. DraftWarns(d, U)
    BY <2>3, <2>4, <2>5 DEF DraftWarns, Warns
  <2>7. RealEdits(d) /\ Shown(page, d)
    BY <1>0, <2>0, <2>3 DEF RealEdits, Shown
  <2>8. \A n : SentAll(d, n)
    BY <2>3 DEF SentAll, NoOp, Ops
  <2>9. /\ d \in Drafts \cup {NoDraft} /\ (d = NoDraft <=> store = NoDraft)
        /\ DraftWarns(d, U) /\ RealEdits(d) /\ Shown(page, d)
        /\ \A n : (\A o \in Ops : n[o].ear # "dead" => n[o] = net[o]) => SentAll(d, n)
    BY <2>0, <2>b, <2>4, <2>6, <2>7, <2>8
  <2> QED BY <2>9 DEF d, U
<1> QED BY <1>1, <1>2

LEMMA FailedOK ==
    ASSUME DraftInv, NEW op \in Ops, NEW uncertain \in BOOLEAN, Failed(op, uncertain)
    PROVE  DraftInv'
<1>0. /\ PageShape(page) /\ NetShape(net) /\ RowShape(row) /\ Owed \subseteq Begun(net)
      /\ Mounting(page, net) /\ PageWarns(page, Owed) /\ Expiry(page, store, Owed)
      /\ DraftWarns(store, Owed) /\ op # NoOp /\ store \in Drafts \cup {NoDraft}
  BY DEF DraftInv, DraftShapes, NoOp, Ops
<1> DEFINE d == settleClientDraft(op, FALSE, uncertain)
           U == IF uncertain THEN Owed ELSE Owed \ {op}
<1>1. /\ Heard(op, FALSE, uncertain) /\ store' = d /\ Owed' = U /\ row' = row /\ U \subseteq Owed
      /\ page' = IF Mounted(op) THEN [settleMutation(op, FALSE, uncertain) EXCEPT !.lock = "error"]
                 ELSE observed(op, FALSE, uncertain)
  BY DEF Failed, Heard, Owed
<1>2. /\ NetShape(net') /\ Begun(net') = Begun(net)
      /\ \A o \in Ops : net'[o].ear # "dead" => o # op /\ net'[o] = net[o]
  BY <1>0, <1>1, HeardNet
<1>3. /\ d \in Drafts \cup {NoDraft} /\ (d = NoDraft <=> store = NoDraft)
      /\ DraftWarns(d, U) /\ RealEdits(d) /\ Shown(page, d) /\ SentAll(d, net')
  BY <1>2, FailureSettles
<1> HIDE DEF d, U
<1>4. ASSUME NEW p, PageShape(p), p.form = page.form, p.base = page.base, p.omitted = page.omitted,
             p.on = page.on, p.expired = page.expired, Mounting(p, net'), PageWarns(p, U), page' = p
      PROVE  DraftInv'
  <2>1. Shown(p, d) /\ Expiry(p, d, U)
    BY <1>0, <1>1, <1>3, <1>4 DEF Shown, Expiry
  <2> QED BY <1>0, <1>1, <1>2, <1>3, <1>4, <2>1 DEF DraftInv, DraftShapes
<1>5. CASE page' = page
  <2>1. Mounting(page, net')
    BY <1>0, <1>2 DEF Mounting
  <2>2. PageWarns(page, U)
    BY <1>0, <1>1 DEF PageWarns, Warns
  <2> QED BY <1>0, <1>4, <1>5, <2>1, <2>2
<1>6. CASE Mounted(op)
  <2>0. page.at = "ready" /\ page.lock = "pending" /\ page.on /\ page.op = op /\ page.restored = NoOp
        /\ ~page.refresh
    BY <1>0, <1>6 DEF Mounting, Mounted
  <2>1. PICK after \in BOOLEAN : after = (page.prior \/ uncertain)
    OBVIOUS
  <2>2. page' = [[page EXCEPT !.op = NoOp, !.uncertain = after, !.prior = after] EXCEPT !.lock = "error"]
    BY <1>1, <1>6, <2>0, <2>1 DEF settleMutation
  <2>3. /\ DOMAIN page' = PageFields /\ page'.op = NoOp /\ page'.uncertain = after /\ page'.prior = after
        /\ page'.form = page.form /\ page'.base = page.base /\ page'.omitted = page.omitted
        /\ page'.on = page.on /\ page'.expired = page.expired /\ page'.restored = page.restored
        /\ page'.refresh = page.refresh /\ page'.at = page.at
    BY <1>0, <2>2 DEF PageShape, PageFields
  <2>4. PageShape(page')
    <3>1. NoOp \in 0..MaxOps
      BY DraftAssumption DEF NoOp
    <3> QED BY <1>0, <2>3, <3>1, Zenon DEF PageShape
  <2>5. Mounting(page', net')
    <3>1. \A o \in Ops : net'[o].ear # "page"
      BY <1>0, <1>2, <2>0 DEF Mounting
    <3> QED BY <2>0, <2>3, <3>1 DEF Mounting
  <2>6. U # {} => after
    BY <1>0, <2>0, <2>1 DEF PageWarns, Warns, Speaks, U
  <2>7. PageWarns(page', U)
    BY <2>0, <2>3, <2>6 DEF PageWarns, Warns, Speaks
  <2> QED BY <1>4, <2>3, <2>4, <2>5, <2>7
<1>7. CASE ~Mounted(op) /\ page.restored = op /\ Settles(op)
  <2>0. page.op = NoOp /\ store # NoDraft /\ store.op = op /\ store.prior \in BOOLEAN /\ ~page.refresh
    BY <1>0, <1>7 DEF Mounting, Settles, Drafts
  <2>1. PICK after \in BOOLEAN : after = (store.prior \/ uncertain)
    OBVIOUS
  <2>2. page' = [page EXCEPT !.restored = NoOp, !.uncertain = after, !.prior = after]
    BY <1>1, <1>7, <2>1 DEF observed
  <2>3. /\ DOMAIN page' = PageFields /\ page'.op = NoOp /\ page'.uncertain = after /\ page'.prior = after
        /\ page'.form = page.form /\ page'.base = page.base /\ page'.omitted = page.omitted
        /\ page'.on = page.on /\ page'.expired = page.expired /\ page'.restored = NoOp
        /\ page'.refresh = page.refresh /\ page'.at = page.at
    BY <1>0, <2>0, <2>2 DEF PageShape, PageFields
  <2>4. PageShape(page')
    <3>1. NoOp \in 0..MaxOps
      BY DraftAssumption DEF NoOp
    <3> QED BY <1>0, <2>3, <3>1, Zenon DEF PageShape
  <2>5. Mounting(page', net')
    <3>1. \A o \in Ops : net'[o].ear # "page"
      BY <1>0, <1>2, <2>0 DEF Mounting, Ops, NoOp
    <3> QED BY <2>0, <2>3, <3>1 DEF Mounting
  <2>6. U # {} => after
    BY <1>0, <2>0, <2>1 DEF DraftWarns, Warns, U
  <2>7. PageWarns(page', U)
    BY <2>3, <2>6 DEF PageWarns, Warns, Speaks
  <2> QED BY <1>4, <2>3, <2>4, <2>5, <2>7
<1>8. CASE ~Mounted(op) /\ ~(page.restored = op /\ Settles(op))
  BY <1>1, <1>5, <1>8 DEF observed
<1> QED BY <1>6, <1>7, <1>8

LEMMA SucceededOK ==
    ASSUME DraftInv, NEW op \in Ops, Succeeded(op)
    PROVE  DraftInv'
<1>0. /\ PageShape(page) /\ NetShape(net) /\ RowShape(row) /\ Owed \subseteq Begun(net)
      /\ Mounting(page, net) /\ PageWarns(page, Owed) /\ Expiry(page, store, Owed)
      /\ DraftWarns(store, Owed) /\ op # NoOp /\ store \in Drafts \cup {NoDraft} /\ op \in Int
      /\ RealEdits(store) /\ Shown(page, store) /\ SentAll(store, net)
  BY DraftAssumption DEF DraftInv, DraftShapes, NoOp, Ops
<1> DEFINE U == {o \in Owed : o > op}
           s == settleMutation(op, TRUE, FALSE)
<1>a. /\ unknown' = unknown \ {op} /\ dropped' = dropped \cup {o \in unknown : o < op}
      /\ \A o \in Owed : o \in Int
  BY <1>0, DraftAssumption DEF Succeeded, Begun, Ops
<1>b. Owed' = U
  BY <1>0, <1>a DEF Owed
<1>1. /\ Heard(op, TRUE, FALSE) /\ Owed' = U /\ row' = row /\ U \subseteq Owed
      /\ store' = settleClientDraft(op, TRUE, FALSE)
      /\ page' = CASE ~Mounted(op) -> observed(op, TRUE, FALSE)
                   [] Mounted(op) /\ net[op].kind = "save" ->
                        [s EXCEPT !.base = net[op].form, !.lock = "success", !.refresh = TRUE]
                   [] Mounted(op) /\ net[op].kind = "delete" -> Away
                   [] OTHER -> [s EXCEPT !.at = "loading", !.lock = "idle"]
  BY <1>b DEF Succeeded, Heard
<1>2. /\ NetShape(net') /\ Begun(net') = Begun(net)
      /\ \A o \in Ops : net'[o].ear # "dead" => o # op /\ net'[o] = net[o]
  BY <1>0, <1>1, HeardNet
<1>3. store' = (IF Settles(op) THEN NoDraft ELSE store)
  BY <1>1 DEF settleClientDraft
<1>4. Settles(op) => U = {}
  <2>1. Settles(op) => \A o \in Owed : o <= op
    BY <1>0 DEF Settles, DraftWarns, Warns
  <2>2. \A o \in Owed : o \in Int
    BY <1>0 DEF Begun, Ops
  <2> QED BY <1>0, <2>1, <2>2
<1>5. Mounted(op) => U = {}
  <2>1. Mounted(op) => \A o \in Owed : o <= op
    BY <1>0 DEF Mounted, Mounting
  <2>2. \A o \in Owed : o \in Int
    BY <1>0 DEF Begun, Ops
  <2> QED BY <1>0, <2>1, <2>2
<1> HIDE DEF U
<1>6. /\ store' \in Drafts \cup {NoDraft} /\ DraftWarns(store', U) /\ RealEdits(store')
      /\ SentAll(store', net') /\ Owed' \subseteq Begun(net')
  <2>1. DraftWarns(store, U)
    BY <1>0, <1>1 DEF DraftWarns, Warns
  <2>2. SentAll(store, net')
    BY <1>0, <1>2 DEF SentAll
  <2>3. RealEdits(NoDraft) /\ SentAll(NoDraft, net')
    BY DEF RealEdits, SentAll
  <2> QED BY <1>0, <1>1, <1>2, <1>3, <1>4, <2>1, <2>2, <2>3, NothingUnknown
<1>7. ASSUME NEW p, PageShape(p), p.on = FALSE, p.op = NoOp, p.restored = NoOp, U = {}, page' = p,
             \A o \in Ops : net'[o].ear # "page"
      PROVE  DraftInv'
  <2>1. Mounting(p, net') /\ Expiry(p, store', U) /\ Shown(p, store') /\ PageWarns(p, U)
    BY <1>7, NothingUnknown DEF Mounting, Expiry, Shown
  <2> QED BY <1>0, <1>1, <1>2, <1>6, <1>7, <2>1 DEF DraftInv, DraftShapes
<1>8. CASE Mounted(op)
  <2>0. page.op = op /\ page.restored = NoOp /\ \A o \in Ops : net'[o].ear # "page"
    BY <1>0, <1>2, <1>8 DEF Mounting, Mounted
  <2>1. s = [page EXCEPT !.on = FALSE, !.op = NoOp, !.uncertain = FALSE,
                         !.prior = FALSE, !.omitted = {}, !.expired = FALSE]
    BY <2>0 DEF settleMutation
  <2>2. /\ DOMAIN s = PageFields /\ s.on = FALSE /\ s.op = NoOp /\ s.uncertain = FALSE /\ s.prior = FALSE
        /\ s.omitted = {} /\ s.expired = FALSE /\ s.restored = NoOp
        /\ s.form = page.form /\ s.base = page.base /\ s.refresh = page.refresh
    BY <1>0, <2>0, <2>1 DEF PageShape, PageFields
  <2>3. NoOp \in 0..MaxOps /\ TRUE \in BOOLEAN /\ FALSE \in BOOLEAN
    BY DraftAssumption DEF NoOp
  <2> HIDE DEF s
  <2>4. CASE net[op].kind = "save"
    <3>1. page' = [s EXCEPT !.base = net[op].form, !.lock = "success", !.refresh = TRUE]
      BY <1>1, <1>8, <2>4
    <3>2. /\ DOMAIN page' = PageFields /\ page'.on = FALSE /\ page'.op = NoOp /\ page'.uncertain = FALSE
          /\ page'.prior = FALSE /\ page'.omitted = {} /\ page'.expired = FALSE /\ page'.restored = NoOp
          /\ page'.form = page.form /\ page'.base = net[op].form /\ page'.refresh = TRUE
      BY <2>2, <3>1 DEF PageFields
    <3>3. PageShape(page')
      BY <1>0, <2>3, <3>2, Zenon DEF PageShape, NetShape
    <3> QED BY <1>5, <1>7, <1>8, <2>0, <3>2, <3>3
  <2>5. CASE net[op].kind # "save" /\ net[op].kind = "delete"
    <3>1. page' = Away
      BY <1>1, <1>8, <2>5
    <3> QED BY <1>5, <1>7, <1>8, <2>0, <3>1, AwayShape
  <2>6. CASE net[op].kind # "save" /\ net[op].kind # "delete"
    <3>1. page' = [s EXCEPT !.at = "loading", !.lock = "idle"]
      BY <1>1, <1>8, <2>6
    <3>2. /\ DOMAIN page' = PageFields /\ page'.on = FALSE /\ page'.op = NoOp /\ page'.uncertain = FALSE
          /\ page'.prior = FALSE /\ page'.omitted = {} /\ page'.expired = FALSE /\ page'.restored = NoOp
          /\ page'.form = page.form /\ page'.base = page.base /\ page'.refresh = page.refresh
      BY <2>2, <3>1 DEF PageFields
    <3>3. PageShape(page')
      BY <1>0, <2>3, <3>2, Zenon DEF PageShape
    <3> QED BY <1>5, <1>7, <1>8, <2>0, <3>2, <3>3
  <2> QED BY <2>4, <2>5, <2>6
<1>9. CASE ~Mounted(op) /\ page.restored = op /\ Settles(op)
  <2>0. page.op = NoOp /\ \A o \in Ops : net'[o].ear # "page"
    BY <1>0, <1>2, <1>9 DEF Mounting, NoOp, Ops
  <2>1. page' = [page EXCEPT !.on = FALSE, !.restored = NoOp, !.uncertain = FALSE, !.prior = FALSE,
                             !.omitted = {}, !.settled = TRUE, !.expired = FALSE]
    BY <1>1, <1>9 DEF observed
  <2>2. /\ DOMAIN page' = PageFields /\ page'.on = FALSE /\ page'.op = NoOp /\ page'.uncertain = FALSE
        /\ page'.prior = FALSE /\ page'.omitted = {} /\ page'.expired = FALSE /\ page'.restored = NoOp
        /\ page'.form = page.form /\ page'.base = page.base /\ page'.refresh = page.refresh
    BY <1>0, <2>0, <2>1 DEF PageShape, PageFields
  <2>3. NoOp \in 0..MaxOps /\ TRUE \in BOOLEAN /\ FALSE \in BOOLEAN
    BY DraftAssumption DEF NoOp
  <2>4. PageShape(page')
    BY <1>0, <2>2, <2>3, Zenon DEF PageShape
  <2> QED BY <1>4, <1>7, <1>9, <2>0, <2>2, <2>4
<1>10. CASE ~Mounted(op) /\ ~(page.restored = op /\ Settles(op))
  <2>1. page' = page
    BY <1>1, <1>10 DEF observed
  <2>2. Mounting(page, net')
    BY <1>0, <1>2 DEF Mounting
  <2>3. PageWarns(page, U)
    BY <1>0, <1>1 DEF PageWarns, Warns
  <2>4. Shown(page, store') /\ Expiry(page, store', U)
    BY <1>0, <1>1, <1>3 DEF Shown, Expiry
  <2> QED BY <1>0, <1>1, <1>2, <1>6, <2>1, <2>2, <2>3, <2>4 DEF DraftInv, DraftShapes
<1> QED BY <1>8, <1>9, <1>10

-----------------------------------------------------------------------------
(* The server, and leaving the page.                                       *)

\* A page that nobody waits on may come and go while it keeps what it holds.
LEMMA PageMoves ==
    ASSUME DraftInv, DOMAIN page' = PageFields, UNCHANGED <<row, store, net, Owed>>,
           page'.form = page.form, page'.base = page.base, page'.on = page.on, page'.omitted = page.omitted,
           page'.uncertain = page.uncertain, page'.prior = page.prior, page'.expired = page.expired,
           page'.refresh = page.refresh, page'.op = page.op, page'.restored = page.restored,
           page'.at = "ready" => page.at = "ready", \A o \in Ops : net[o].ear # "page"
    PROVE  DraftInv'
<1>1. PageShape(page) /\ Mounting(page, net) /\ PageWarns(page, Owed) /\ Expiry(page, store, Owed)
      /\ Shown(page, store)
  BY DEF DraftInv, DraftShapes
<1>2. PageShape(page')
  BY <1>1, Zenon DEF PageShape
<1>3. Mounting(page', net) /\ PageWarns(page', Owed)
  BY <1>1 DEF Mounting, PageWarns, Warns, Speaks
<1>4. Expiry(page', store, Owed) /\ Shown(page', store)
  BY <1>1 DEF Expiry, Shown
<1> QED BY <1>2, <1>3, <1>4 DEF DraftInv, DraftShapes

LEMMA MovesOK ==
    ASSUME DraftInv, load \/ LoadFailed \/ createSaveFeedback
    PROVE  DraftInv'
<1>1. PageShape(page) /\ Mounting(page, net)
  BY DEF DraftInv, DraftShapes
<1>2. CASE load
  <2>1. page' = [page EXCEPT !.at = "loading"] /\ UNCHANGED <<row, store, net, Owed>>
        /\ page.lock # "pending"
    BY <1>2 DEF load, formLocked, Owed
  <2>2. \A o \in Ops : net[o].ear # "page"
    BY <1>1, <2>1 DEF Mounting
  <2> QED BY <1>1, <2>1, <2>2, PageMoves DEF PageShape, PageFields
<1>3. CASE LoadFailed
  <2>1. page' = [page EXCEPT !.at = "failed"] /\ UNCHANGED <<row, store, net, Owed>>
        /\ page.at = "loading"
    BY <1>3 DEF LoadFailed, Owed
  <2>2. \A o \in Ops : net[o].ear # "page"
    BY <1>1, <2>1 DEF Mounting
  <2> QED BY <1>1, <2>1, <2>2, PageMoves DEF PageShape, PageFields
<1>4. CASE createSaveFeedback
  <2>1. page' = [page EXCEPT !.lock = "idle"] /\ UNCHANGED <<row, store, net, Owed>>
        /\ page.lock # "pending"
    BY <1>4 DEF createSaveFeedback, Owed
  <2>2. \A o \in Ops : net[o].ear # "page"
    BY <1>1, <2>1 DEF Mounting
  <2> QED BY <1>1, <2>1, <2>2, PageMoves DEF PageShape, PageFields
<1> QED BY <1>2, <1>3, <1>4

LEMMA ForgottenOK ==
    ASSUME DraftInv, Discard \/ DraftExpires
    PROVE  DraftInv'
<1>0. /\ PageShape(page) /\ NetShape(net) /\ RowShape(row) /\ Mounting(page, net)
  BY DEF DraftInv, DraftShapes
<1>1. store' = NoDraft /\ Owed' = {} /\ UNCHANGED <<row, net>>
  BY DEF Discard, DraftExpires, Owed, DropsWarnings
<1>2. DraftWarns(NoDraft, {}) /\ RealEdits(NoDraft) /\ SentAll(NoDraft, net)
      /\ \A p : PageWarns(p, {}) /\ Expiry(p, NoDraft, {}) /\ Shown(p, NoDraft)
  BY NothingUnknown DEF RealEdits, SentAll, Expiry, Shown
<1>3. PageShape(page') /\ Mounting(page', net)
  <2>1. CASE Discard
    <3>1. page' = [Away EXCEPT !.at = "loading"] /\ page.lock # "pending"
      BY <2>1 DEF Discard, formLocked
    <3>2. /\ PageShape(page') /\ page'.refresh = FALSE /\ page'.op = NoOp /\ page'.restored = NoOp
      BY <3>1, AwayShape DEF PageShape, PageFields
    <3> QED BY <1>0, <3>1, <3>2 DEF Mounting
  <2>2. CASE DraftExpires
    <3>1. page' = [page EXCEPT !.expired = page.on]
      BY <2>2 DEF DraftExpires
    <3>2. /\ DOMAIN page' = PageFields /\ page'.expired = page.on /\ page'.lock = page.lock
          /\ page'.form = page.form /\ page'.base = page.base /\ page'.on = page.on
          /\ page'.omitted = page.omitted /\ page'.uncertain = page.uncertain
          /\ page'.prior = page.prior /\ page'.refresh = page.refresh /\ page'.op = page.op
          /\ page'.restored = page.restored /\ page'.at = page.at
      BY <1>0, <3>1 DEF PageShape, PageFields
    <3>3. PageShape(page')
      BY <1>0, <3>2, Zenon DEF PageShape
    <3> QED BY <1>0, <3>2, <3>3 DEF Mounting
  <2> QED BY <2>1, <2>2
<1> QED BY <1>0, <1>1, <1>2, <1>3 DEF DraftInv, DraftShapes

LEMMA ServerOK ==
    ASSUME DraftInv, Foreign \/ \E op \in Ops : Handled(op)
    PROVE  DraftInv'
<1>0. /\ PageShape(page) /\ NetShape(net) /\ RowShape(row) /\ Mounting(page, net) /\ SentAll(store, net)
  BY DEF DraftInv, DraftShapes
<1>1. UNCHANGED <<store, page, Owed>>
  BY DEF Foreign, Handled, Owed
<1>2. CASE Foreign
  <2>1. RowShape(row') /\ net' = net
    <3>1. CASE \E f \in {[row.form EXCEPT !["host"] = 1], [row.form EXCEPT !["path"] = Unsafe]} :
                 row' = [row EXCEPT !.form = f]
      BY <1>0, <1>2, <3>1 DEF Foreign, RowShape, Texts, Pasted, Unsafe
    <3>2. CASE row' = [row EXCEPT !.disabled = ~row.disabled]
      BY <1>0, <1>2, <3>2 DEF Foreign, RowShape
    <3> QED BY <1>2, <3>1, <3>2 DEF Foreign
  <2> QED BY <1>1, <2>1 DEF DraftInv, DraftShapes
<1>3. ASSUME NEW op \in Ops, Handled(op)
      PROVE  DraftInv'
  <2>1. RowShape(row')
    <3>1. CASE row' = row
      BY <1>0, <3>1
    <3>2. CASE row' = [row EXCEPT !.form = Normalized(net[op].form)]
      BY <1>0, <3>2, NormalizedText DEF RowShape, NetShape
    <3>3. CASE \E b \in BOOLEAN : row' = [row EXCEPT !.disabled = b] \/ row' = [row EXCEPT !.exists = b]
      BY <1>0, <3>3 DEF RowShape
    <3>4. row' = row \/ patchClient(net[op].form) \/ disableClient \/ enableClient \/ deleteClient
      BY <1>3 DEF Handled
    <3> QED
      BY <3>1, <3>2, <3>3, <3>4 DEF patchClient, disableClient, enableClient, deleteClient
  <2>2. PICK st \in {"committed", "refused"}, b \in Texts :
          /\ net' = [net EXCEPT ![op].state = st, ![op].form = b]
          /\ st = "committed" => b = net[op].form
    <3>1. net[op].form \in Texts /\ Quiet.form \in Texts /\ DOMAIN net = Ops
          /\ DOMAIN net[op] = {"kind", "form", "state", "ear"}
      BY <1>0 DEF NetShape, Quiet, Texts
    <3>2. CASE net' = [net EXCEPT ![op].state = "committed"]
      <4>1. [net EXCEPT ![op].state = "committed"]
              = [net EXCEPT ![op].state = "committed", ![op].form = net[op].form]
        BY <3>1
      <4> QED BY <3>1, <3>2, <4>1
    <3>3. CASE net' = [net EXCEPT ![op].state = "refused", ![op].form = Quiet.form]
      BY <3>1, <3>3
    <3> QED BY <1>3, <3>2, <3>3 DEF Handled
  <2>3. net[op].state = "sent" /\ DOMAIN net[op] = {"kind", "form", "state", "ear"}
    BY <1>0, <1>3 DEF Handled, NetShape
  <2>4. /\ DOMAIN net' = Ops /\ \A o \in Ops : o # op => net'[o] = net[o]
        /\ DOMAIN net'[op] = DOMAIN net[op]
        /\ net'[op].kind = net[op].kind /\ net'[op].ear = net[op].ear
        /\ net'[op].state = st /\ net'[op].form = b
    BY <1>0, <2>2, <2>3 DEF NetShape
  <2>5. NetShape(net') /\ Begun(net') = Begun(net)
    BY <1>0, <2>2, <2>3, <2>4 DEF NetShape, Begun
  <2>6. Mounting(page, net')
    <3>1. \A o \in Ops : net'[o].ear = net[o].ear
      BY <2>4
    <3> QED BY <1>0, <2>5, <3>1 DEF Mounting
  <2>7. SentAll(store, net')
    BY <1>0, <2>2, <2>3, <2>4 DEF SentAll
  <2> QED BY <1>1, <2>1, <2>5, <2>6, <2>7 DEF DraftInv, DraftShapes
<1> QED BY <1>2, <1>3

\* The document goes: whatever the page left in storage warns by itself.
LEMMA PageLeft ==
    ASSUME DraftInv, NEW d \in Drafts \cup {NoDraft}, RealEdits(d), NEW U, U \subseteq Owed,
           DraftWarns(d, U), store' = d, Owed' = U, page' = Away, net' = Unloaded, row' = row
    PROVE  DraftInv'
<1>1. NetShape(net) /\ RowShape(row) /\ Owed \subseteq Begun(net)
  BY DEF DraftInv, DraftShapes
<1>2. NetShape(net') /\ Begun(net') = Begun(net) /\ (\A o \in Ops : net'[o].ear = "dead") /\ SentAll(d, net')
  BY <1>1, AllDead
<1>3. Mounting(Away, net')
  BY <1>2, AwayShape DEF Mounting
<1>4. PageWarns(Away, U) /\ Expiry(Away, d, U) /\ Shown(Away, d)
  BY AwayShape, PageGone
<1> QED BY <1>1, <1>2, <1>3, <1>4, AwayShape DEF DraftInv, DraftShapes

LEMMA NavigateOK ==
    ASSUME DraftInv, Navigate
    PROVE  DraftInv'
<1>0. /\ NetShape(net) /\ RowShape(row) /\ Owed \subseteq Begun(net) /\ SentAll(store, net)
  BY DEF DraftInv, DraftShapes
<1>1. /\ page' = Away /\ UNCHANGED <<row, store, Owed>>
      /\ net' = [o \in Ops |-> IF net[o].ear = "page" THEN [net[o] EXCEPT !.ear = "spa"] ELSE net[o]]
  BY DEF Navigate, Owed
<1>2. /\ DOMAIN net' = Ops
      /\ \A o \in Ops : net'[o] = IF net[o].ear = "page" THEN [net[o] EXCEPT !.ear = "spa"] ELSE net[o]
  BY <1>1
<1>3. \A o \in Ops : /\ DOMAIN net'[o] = {"kind", "form", "state", "ear"} /\ net'[o].form = net[o].form
                     /\ net'[o].kind = net[o].kind /\ net'[o].state = net[o].state
                     /\ net'[o].ear # "page" /\ (net'[o].ear = "dead" <=> net[o].ear = "dead")
  BY <1>0, <1>2 DEF NetShape
<1>4. NetShape(net') /\ Begun(net') = Begun(net)
  BY <1>0, <1>2, <1>3 DEF NetShape, Begun
<1>5. SentAll(store, net')
  BY <1>0, <1>3 DEF SentAll
<1>6. Mounting(Away, net')
  BY <1>3, AwayShape DEF Mounting
<1>7. PageWarns(Away, Owed) /\ Expiry(Away, store, Owed) /\ Shown(Away, store)
  BY AwayShape, PageGone
<1> QED BY <1>0, <1>1, <1>4, <1>5, <1>6, <1>7, AwayShape DEF DraftInv, DraftShapes

LEMMA ReloadOK ==
    ASSUME DraftInv, Reload
    PROVE  DraftInv'
<1>0. /\ PageShape(page) /\ PageWarns(page, Owed) /\ Expiry(page, store, Owed)
      /\ store \in Drafts \cup {NoDraft} /\ DraftWarns(store, Owed) /\ RealEdits(store)
  BY DEF DraftInv, DraftShapes
<1>1. store' = persistDraft(page) /\ page' = Away /\ net' = Unloaded /\ UNCHANGED <<row, Owed>>
  BY DEF Reload, Owed
<1>2. CASE page.on
  <2>1. Warns(page, Speaks(page), Owed) /\ (page.expired => Owed = {})
    BY <1>0, <1>2 DEF PageWarns, Expiry
  <2>2. /\ writeClientDraft(page) \in Drafts \cup {NoDraft} /\ RealEdits(writeClientDraft(page))
        /\ DraftWarns(writeClientDraft(page), Owed)
    BY <1>0, <2>1, Written
  <2>3. store' = writeClientDraft(page)
    BY <1>1, <1>2 DEF persistDraft
  <2> QED BY <1>1, <2>2, <2>3, PageLeft
<1>3. CASE ~page.on
  <2>1. store' = store
    BY <1>1, <1>3 DEF persistDraft
  <2> QED BY <1>0, <1>1, <2>1, PageLeft
<1> QED BY <1>2, <1>3

\* The draft that a page keeps when an answer sends the document to the login.
LEMMA KeptOnLogin ==
    ASSUME DraftInv, NEW p, p = [page EXCEPT !.uncertain = page.prior], NEW U,
           page.on => Warns(p, Speaks(page), U), U \subseteq Owed,
           ~page.on \/ page.at = "away" => DraftWarns(store, U),
           NEW kept, kept = (IF page.at = "away" THEN store ELSE persistDraft(p))
    PROVE  /\ kept \in Drafts \cup {NoDraft} /\ DraftWarns(kept, U) /\ RealEdits(kept)
           /\ page.on /\ page.at # "away" /\ kept # NoDraft => kept.op = Speaks(page)
<1>0. /\ PageShape(page) /\ Expiry(page, store, Owed) /\ store \in Drafts \cup {NoDraft} /\ RealEdits(store)
  BY DEF DraftInv, DraftShapes
<1>1. CASE ~page.on \/ page.at = "away"
  <2>1. p.on = page.on
    BY <1>0 DEF PageShape, PageFields
  <2>2. kept = store
    BY <1>1, <2>1 DEF persistDraft
  <2> QED BY <1>0, <1>1, <2>2
<1>2. CASE page.on /\ page.at # "away"
  <2>1. /\ DOMAIN p = PageFields /\ p.uncertain = page.prior /\ p.expired = page.expired
        /\ p.form = page.form /\ p.base = page.base /\ p.on = page.on
        /\ p.omitted = page.omitted /\ p.prior = page.prior /\ p.refresh = page.refresh
        /\ p.op = page.op /\ p.restored = page.restored
    BY <1>0 DEF PageShape, PageFields
  <2>2. PageShape(p)
    BY <1>0, <2>1, Zenon DEF PageShape
  <2>3. Speaks(p) = Speaks(page)
    BY <2>1 DEF Speaks
  <2>4. p.expired => U = {}
    BY <1>0, <1>2, <2>1 DEF Expiry
  <2>5. kept = writeClientDraft(p)
    BY <1>2, <2>1 DEF persistDraft
  <2>6. Warns(p, Speaks(p), U)
    BY <1>2, <2>3
  <2>7. /\ writeClientDraft(p) \in Drafts \cup {NoDraft} /\ DraftWarns(writeClientDraft(p), U)
        /\ RealEdits(writeClientDraft(p))
        /\ writeClientDraft(p) # NoDraft => writeClientDraft(p).op = Speaks(p)
    BY <2>2, <2>4, <2>6, Written
  <2> QED BY <2>3, <2>5, <2>7
<1> QED BY <1>1, <1>2

LEMMA LoginOK ==
    ASSUME DraftInv, NEW op \in Ops, req(op)
    PROVE  DraftInv'
<1>0. /\ PageShape(page) /\ Mounting(page, net) /\ PageWarns(page, Owed)
      /\ DraftWarns(store, Owed) /\ op # NoOp
  BY DEF DraftInv, DraftShapes, NoOp, Ops
<1> DEFINE p == [page EXCEPT !.uncertain = page.prior]
           kept == IF page.at = "away" THEN store ELSE persistDraft(p)
           U == IF Mounted(op) THEN Owed \ {op} ELSE {}
<1>1. /\ store' = (IF kept # NoDraft /\ kept.op = op
                   THEN [kept EXCEPT !.op = NoOp, !.uncertain = kept.prior] ELSE kept)
      /\ page' = Away /\ net' = Unloaded /\ row' = row /\ Owed' = U
  BY DEF req, clientDraftAuthUncertain, Owed, DropsWarnings
<1>2. U \subseteq Owed
  OBVIOUS
<1>3. page.on => Warns(p, Speaks(page), U)
  <2>1. p.prior = page.prior /\ p.uncertain = page.prior
    BY <1>0 DEF PageShape, PageFields
  <2>2. CASE Mounted(op)
    <3>1. page.at = "ready" /\ page.op = op /\ Speaks(page) = op
      BY <1>0, <2>2 DEF Mounting, Mounted, Speaks
    <3> QED BY <1>0, <2>1, <2>2, <3>1 DEF PageWarns, Warns
  <2>3. CASE ~Mounted(op)
    BY <2>3 DEF Warns
  <2> QED BY <2>2, <2>3
<1>4. ~page.on \/ page.at = "away" => DraftWarns(store, U)
  <2>1. ~page.on \/ page.at = "away" => ~Mounted(op)
    BY <1>0 DEF Mounting, Mounted
  <2> QED BY <2>1, NothingUnknown
<1>a. Speaks(p) = Speaks(page)
  BY <1>0 DEF Speaks, PageShape, PageFields
<1>5. /\ kept \in Drafts \cup {NoDraft} /\ DraftWarns(kept, U) /\ RealEdits(kept)
      /\ page.on /\ page.at # "away" /\ kept # NoDraft => kept.op = Speaks(page)
  <2> HIDE DEF U
  <2> QED BY <1>2, <1>3, <1>4, <1>a, KeptOnLogin
<1>6. Mounted(op) => page.on /\ page.at # "away" /\ Speaks(page) = op
  BY <1>0 DEF Mounting, Mounted, Speaks
<1> HIDE DEF kept, p
<1>7. CASE kept # NoDraft /\ kept.op = op
  <2>1. PICK before \in BOOLEAN : before = kept.prior
    BY <1>5, <1>7 DEF Drafts
  <2>2. store' = [kept EXCEPT !.op = NoOp, !.uncertain = before]
    BY <1>1, <1>7, <2>1
  <2>3. NoOp \in 0..MaxOps
    BY DraftAssumption DEF NoOp
  <2>4. kept \in Drafts
    BY <1>5, <1>7
  <2>5. store' \in Drafts
    BY <2>2, <2>3, <2>4 DEF Drafts
  <2>6. /\ store'.op = NoOp /\ store'.uncertain = before /\ store'.prior = before
        /\ store'.changes = kept.changes /\ store'.base = kept.base
    BY <2>1, <2>2, <2>4 DEF Drafts
  <2>7. store' # NoDraft
    BY <2>5, DraftAssumption
  <2>8. U # {} => before
    <3>1. U # {} => U \ {op} # {}
      BY DEF U
    <3> QED BY <1>0, <1>5, <1>7, <2>1, <3>1 DEF DraftWarns, Warns
  <2>9. DraftWarns(store', U) /\ RealEdits(store')
    BY <1>5, <1>7, <2>6, <2>7, <2>8 DEF DraftWarns, Warns, RealEdits
  <2> HIDE DEF U
  <2> QED BY <1>1, <1>2, <2>5, <2>9, PageLeft
<1>8. CASE ~(kept # NoDraft /\ kept.op = op)
  <2> HIDE DEF U
  <2> QED BY <1>1, <1>2, <1>5, <1>8, PageLeft
<1> QED BY <1>7, <1>8

LEMMA RefreshedOK ==
    ASSUME DraftInv, Refreshed
    PROVE  DraftInv'
<1>0. /\ PageShape(page) /\ RowShape(row) /\ Mounting(page, net) /\ PageWarns(page, Owed)
      /\ Expiry(page, store, Owed) /\ store \in Drafts \cup {NoDraft} /\ DraftWarns(store, Owed)
      /\ RealEdits(store) /\ SentAll(store, net)
  BY DEF DraftInv, DraftShapes
<1>1. /\ page.refresh /\ page.at = "ready" /\ UNCHANGED <<row, net, Owed>>
      /\ page' = [page EXCEPT !.refresh = FALSE, !.base = row.form, !.off = row.disabled,
                              !.form = rebaseClientDraftForm(page.form, page.base, row.form)]
      /\ store' = persistDraft(page')
  BY DEF Refreshed, Owed
<1>2. rebaseClientDraftForm(page.form, page.base, row.form) \in Texts
  BY <1>0 DEF rebaseClientDraftForm, PageShape, RowShape, Texts
<1>3. /\ DOMAIN page' = PageFields /\ page'.refresh = FALSE /\ page'.base = row.form
      /\ page'.form = rebaseClientDraftForm(page.form, page.base, row.form)
      /\ page'.on = page.on /\ page'.omitted = page.omitted /\ page'.uncertain = page.uncertain
      /\ page'.prior = page.prior /\ page'.expired = page.expired /\ page'.op = page.op
      /\ page'.restored = page.restored /\ page'.at = page.at
  BY <1>0, <1>1 DEF PageShape, PageFields
<1>4. PageShape(page')
  <2>1. FALSE \in BOOLEAN
    OBVIOUS
  <2> QED BY <1>0, <1>2, <1>3, <2>1, Zenon DEF PageShape, RowShape
<1>5. page.op = NoOp /\ page.restored = NoOp /\ \A o \in Ops : net[o].ear # "page"
  BY <1>0, <1>1 DEF Mounting, NoOp, Ops
<1>6. Mounting(page', net) /\ PageWarns(page', Owed) /\ Speaks(page') = NoOp
  BY <1>0, <1>1, <1>3, <1>5 DEF Mounting, PageWarns, Warns, Speaks
<1>7. CASE page.on
  <2>1. Warns(page', Speaks(page'), Owed) /\ (page'.expired => Owed = {})
    BY <1>0, <1>3, <1>6, <1>7 DEF PageWarns, Expiry
  <2>2. store' = writeClientDraft(page')
    BY <1>1, <1>3, <1>7 DEF persistDraft
  <2>3. /\ store' \in Drafts \cup {NoDraft} /\ DraftWarns(store', Owed) /\ RealEdits(store')
        /\ Shown(page', store') /\ (page'.expired => store' = NoDraft)
        /\ store' # NoDraft => store'.op = NoOp
    BY <1>4, <1>6, <2>1, <2>2, Written
  <2>4. SentAll(store', net)
    BY <2>3 DEF SentAll, NoOp, Ops
  <2>5. Expiry(page', store', Owed)
    BY <2>1, <2>3 DEF Expiry
  <2> QED BY <1>1, <1>4, <1>6, <2>3, <2>4, <2>5 DEF DraftInv, DraftShapes
<1>8. CASE ~page.on
  <2>1. store' = store
    BY <1>1, <1>3, <1>8 DEF persistDraft
  <2>2. Shown(page', store) /\ Expiry(page', store, Owed)
    BY <1>3, <1>8 DEF Shown, Expiry
  <2> QED BY <1>1, <1>4, <1>6, <2>1, <2>2 DEF DraftInv, DraftShapes
<1> QED BY <1>7, <1>8

-----------------------------------------------------------------------------
LEMMA DraftStart ==
    ASSUME \E f \in {g \in Forms : g["path"] # Pasted} : DraftInit(f)
    PROVE  DraftInv
<1>1. PICK f \in Forms : DraftInit(f)
  OBVIOUS
<1>2. RowShape(row)
  BY <1>1 DEF DraftInit, Forms, RowShape, Texts
<1>3. DOMAIN net = Ops /\ \A o \in Ops : net[o] = Quiet
  BY <1>1 DEF DraftInit
<1>4. NetShape(net) /\ \A o \in Ops : net[o].ear # "page"
  BY <1>3 DEF NetShape, Quiet, Texts
<1>5. page = Away /\ store = NoDraft /\ Owed = {}
  BY <1>1 DEF DraftInit, Owed
<1> QED
  BY <1>2, <1>4, <1>5, AwayShape, NothingUnknown
     DEF DraftInv, DraftShapes, Mounting, RealEdits, SentAll, Expiry, Shown

LEMMA DraftStep ==
    ASSUME DraftInv, [DraftNext]_draftVars
    PROVE  DraftInv'
<1>1. CASE load \/ LoadFailed \/ createSaveFeedback
  BY <1>1, MovesOK
<1>2. CASE ClientEditForm
  BY <1>2, FormOK
<1>3. CASE Discard \/ DraftExpires
  BY <1>3, ForgottenOK
<1>4. CASE ClientForm
  BY <1>4, SetOK DEF ClientForm, Fields, Pasted, Unsafe
<1>5. ASSUME NEW op \in Ops, Started = 1..(op - 1), save(op) \/ DangerZone(op)
      PROVE  DraftInv'
  <2>1. PICK kind \in {"save", "disable", "enable", "delete"} :
          page.at = "ready" /\ page.lock = "idle" /\ beginMutation(op, kind)
    BY <1>5 DEF save, canSave, DangerZone, lifecycle
  <2> QED BY <1>5, <2>1, BeginOK
<1>6. CASE Foreign \/ \E op \in Ops : Handled(op)
  BY <1>6, ServerOK
<1>7. CASE \E op \in Ops : Succeeded(op) \/ req(op)
  BY <1>7, SucceededOK, LoginOK
<1>8. CASE \E op \in Ops, uncertain \in BOOLEAN : Failed(op, uncertain)
  BY <1>8, FailedOK
<1>9. CASE Refreshed
  BY <1>9, RefreshedOK
<1>10. CASE Navigate
  BY <1>10, NavigateOK
<1>11. CASE Reload
  BY <1>11, ReloadOK
<1>12. CASE UNCHANGED draftVars
  BY <1>12
     DEF draftVars, DraftInv, DraftShapes, PageShape, RowShape, NetShape, Mounting, DraftWarns, Warns, PageWarns,
         Speaks, Expiry, RealEdits, Shown, SentAll, Begun, Owed
<1> QED
  BY <1>1, <1>2, <1>3, <1>4, <1>5, <1>6, <1>7, <1>8, <1>9, <1>10, <1>11, <1>12 DEF DraftNext

\* A page that lets the administrator act says when an earlier mutation may
\* have been committed without the tab knowing, whatever reloads, sign-ins and
\* late answers came between, unless its warning went with the draft in one of
\* the ways the property names (beginMutation, settleClientDraft).
THEOREM OutcomeAlwaysRemembered == DraftSpec => []OutcomeRemembered
<1>1. DraftInv => OutcomeRemembered
  BY DEF DraftInv, PageWarns, Warns, OutcomeRemembered, Owed
<1>2. (\E f \in {g \in Forms : g["path"] # Pasted} : DraftInit(f)) => DraftInv
  BY DraftStart
<1> QED BY <1>1, <1>2, DraftStep, PTL DEF DraftSpec

-----------------------------------------------------------------------------
(* Which answers may remove a draft.                                       *)

\* Of a draft that the page shows, nothing is lost when the page writes it.
LEMMA WrittenKeeps ==
    ASSUME DraftInv, store # NoDraft, page.on, NEW p, p.form = page.form, p.base = page.base,
           p.omitted = page.omitted, p.expired = page.expired, PageShape(p),
           NEW U, Warns(p, Speaks(p), U), p.expired => U = {}, writeClientDraft(p) = NoDraft
    PROVE  DOMAIN store.changes = {}
<1>1. Expiry(page, store, Owed) /\ Shown(page, store) /\ store \in Drafts
  BY DEF DraftInv, DraftShapes
<1>2. p.omitted = {} /\ \A k \in Fields : p.form[k] = p.base[k]
  BY <1>1, Written DEF Expiry
<1>3. \A k \in DOMAIN store.changes : k \in Fields /\ page.form[k] # page.base[k]
  BY <1>1, <1>2 DEF Shown, Drafts, SomeTexts
<1> QED BY <1>2, <1>3

\* The requests whose answer nobody will hear any more, after this step.
LeftUnheard(o) == net[o].ear # "dead" /\ net'[o].ear = "dead"

\* A settled mutation removes only what it sent.
LEMMA SettledKeeps ==
    ASSUME DraftInv, NEW op \in Ops, Succeeded(op), NEW o \in Ops, LeftUnheard(o),
           store # NoDraft, store' = NoDraft
    PROVE  \A k \in DOMAIN store.changes : store.changes[k] = net[o].form[k]
<1>1. NetShape(net) /\ SentAll(store, net)
  BY DEF DraftInv, DraftShapes
<1>2. Heard(op, TRUE, FALSE) /\ net[op].state = "committed" /\ store' = settleClientDraft(op, TRUE, FALSE)
  BY DEF Succeeded, Heard
<1>3. o = op
  BY <1>1, <1>2 DEF Heard, LeftUnheard, NetShape
<1>4. store.op = op
  BY <1>2 DEF settleClientDraft, Settles
<1> QED BY <1>1, <1>2, <1>3, <1>4 DEF SentAll, LeftUnheard

\* A document that goes writes its page first.
LEMMA UnloadKeeps ==
    ASSUME DraftInv, Reload \/ \E op \in Ops : req(op), store # NoDraft, store' = NoDraft
    PROVE  DOMAIN store.changes = {}
<1>0. /\ PageShape(page) /\ PageWarns(page, Owed) /\ Expiry(page, store, Owed) /\ Mounting(page, net)
  BY DEF DraftInv, DraftShapes
<1>1. CASE Reload
  <2>1. page.on /\ writeClientDraft(page) = NoDraft
    BY <1>1 DEF Reload, persistDraft
  <2>2. Warns(page, Speaks(page), Owed) /\ (page.expired => Owed = {})
    BY <1>0, <2>1 DEF PageWarns, Expiry
  <2> QED BY <1>0, <2>1, <2>2, WrittenKeeps
<1>2. ASSUME NEW op \in Ops, req(op)
      PROVE  DOMAIN store.changes = {}
  <2> DEFINE p == [page EXCEPT !.uncertain = page.prior]
             kept == IF page.at = "away" THEN store ELSE persistDraft(p)
             U == {}
  <2>1. store' = (IF kept # NoDraft /\ kept.op = op
                  THEN [kept EXCEPT !.op = NoOp, !.uncertain = kept.prior] ELSE kept)
    BY <1>2 DEF req, clientDraftAuthUncertain
  <2>2. /\ DOMAIN p = PageFields /\ p.uncertain = page.prior /\ p.expired = page.expired
        /\ p.form = page.form /\ p.base = page.base /\ p.on = page.on
        /\ p.omitted = page.omitted /\ p.prior = page.prior /\ p.refresh = page.refresh
        /\ p.op = page.op /\ p.restored = page.restored
    BY <1>0 DEF PageShape, PageFields
  <2>3. PageShape(p)
    BY <1>0, <2>2, Zenon DEF PageShape
  <2> HIDE DEF p
  <2>4. kept = NoDraft
    <3>1. page.on => kept = store \/ kept = writeClientDraft(p)
      BY <2>2 DEF persistDraft
    <3>2. ~page.on => kept = store
      BY <2>2 DEF persistDraft
    <3>3. kept \in Drafts \cup {NoDraft}
      <4>1. store \in Drafts
        BY DEF DraftInv, DraftShapes
      <4>2. Warns(p, Speaks(p), {}) /\ (p.expired => {} = {})
        BY NothingUnknown
      <4>3. writeClientDraft(p) \in Drafts \cup {NoDraft}
        BY <2>3, <4>2, Written
      <4> QED BY <3>1, <3>2, <4>1, <4>3
    <3> HIDE DEF kept
    <3>4. ASSUME kept # NoDraft, kept.op = op PROVE FALSE
      <4>1. PICK before \in BOOLEAN : before = kept.prior
        BY <3>3, <3>4 DEF Drafts
      <4>2. NoOp \in 0..MaxOps /\ kept \in Drafts
        BY <3>3, <3>4, DraftAssumption DEF NoOp
      <4>3. store' = [kept EXCEPT !.op = NoOp, !.uncertain = before]
        BY <2>1, <3>4, <4>1
      <4>4. store' \in Drafts
        BY <4>2, <4>3 DEF Drafts
      <4> QED BY <4>4, DraftAssumption
    <3> QED BY <2>1, <3>4
  <2>5. page.on /\ writeClientDraft(p) = NoDraft
    BY <2>2, <2>4 DEF persistDraft
  <2>6. Warns(p, Speaks(p), {}) /\ (p.expired => {} = {})
    BY NothingUnknown
  <2> QED BY <2>2, <2>3, <2>5, <2>6, WrittenKeeps
<1> QED BY <1>1, <1>2

\* No other step both stops hearing a request and removes a draft.
LEMMA OthersKeep ==
    ASSUME DraftInv, [DraftNext]_draftVars, NEW o \in Ops, LeftUnheard(o), store # NoDraft, store' = NoDraft
    PROVE  Reload \/ \E op \in Ops : Succeeded(op) \/ req(op)
<1>0. NetShape(net)
  BY DEF DraftInv, DraftShapes
<1>1. ~(load \/ LoadFailed \/ createSaveFeedback \/ ClientEditForm \/ Discard \/ DraftExpires \/ ClientForm
        \/ Foreign \/ Refreshed \/ UNCHANGED draftVars)
  BY DEF LeftUnheard, load, LoadFailed, createSaveFeedback, ClientEditForm, Discard, DraftExpires, ClientForm, set,
         Foreign, Refreshed, draftVars
<1>2. ASSUME NEW op \in Ops, save(op) \/ DangerZone(op)
      PROVE  FALSE
  <2>1. PICK kind : beginMutation(op, kind)
    BY <1>2 DEF save, DangerZone, lifecycle
  <2>2. net' = [net EXCEPT ![op] = [kind |-> kind, form |-> page.form, state |-> "sent", ear |-> "page"]]
    BY <2>1 DEF beginMutation
  <2>3. net'[o].ear # "dead"
    BY <1>0, <2>2 DEF NetShape, LeftUnheard
  <2> QED BY <2>3 DEF LeftUnheard
<1>3. ASSUME NEW op \in Ops, NEW uncertain \in BOOLEAN, Failed(op, uncertain)
      PROVE  FALSE
  <2>1. store' = settleClientDraft(op, FALSE, uncertain)
    BY <1>3 DEF Failed, Heard
  <2>2. settleClientDraft(op, FALSE, uncertain) # NoDraft
    BY FailureSettles
  <2> QED BY <2>1, <2>2
<1>4. ASSUME NEW op \in Ops, Handled(op)
      PROVE  FALSE
  BY <1>4 DEF Handled
<1>5. ~Navigate
  BY DEF Navigate
<1> QED BY <1>1, <1>2, <1>3, <1>4, <1>5 DEF DraftNext

\* The late answer of a mutation never removes edits made after it was sent
\* (settleClientDraft); those made before it went with a save, and are dropped
\* by the success of a disable, an enable or a delete (lifecycle).
THEOREM EditsAlwaysKept == DraftSpec => EditsKept
<1>1. ASSUME DraftInv, [DraftNext]_draftVars, NEW o \in Ops, LeftUnheard(o), store # NoDraft, store' = NoDraft
      PROVE  \A k \in DOMAIN store.changes : store.changes[k] = net[o].form[k]
  BY <1>1, OthersKeep, SettledKeeps, UnloadKeeps
<1>2. DraftInv /\ [DraftNext]_draftVars =>
        [\A o \in Ops :
           net[o].ear # "dead" /\ net'[o].ear = "dead" /\ store # NoDraft /\ store' = NoDraft
             => \A k \in DOMAIN store.changes : store.changes[k] = net[o].form[k]]_draftVars
  BY <1>1 DEF LeftUnheard
<1>3. (\E f \in {g \in Forms : g["path"] # Pasted} : DraftInit(f)) => DraftInv
  BY DraftStart
<1> QED BY <1>2, <1>3, DraftStep, PTL DEF DraftSpec, EditsKept

-----------------------------------------------------------------------------
(* The key pages.  Reads that may still confirm the page were asked for    *)
(* after the last attempt ended, and so was what a confirmed page shows.   *)
ReadShapes ==
    /\ gen \in Nat /\ attempts \in Nat /\ DOMAIN reads = 1..MaxReads
    /\ \A i \in 1..MaxReads : /\ DOMAIN reads[i] = {"gen", "since", "doc", "state"}
                              /\ reads[i].gen \in Nat /\ reads[i].gen <= gen
ReadsFresh ==
    \A i \in 1..MaxReads :
        reads[i].state \in {"sent", "answered"} /\ reads[i].gen = gen => reads[i].since = attempts
ShownFresh == sure /\ shown # NoDoc => shown.since = attempts
KeyPageInv == ReadShapes /\ ReadsFresh /\ ShownFresh

\* A read that is issued carries a generation nobody had.
LEMMA IssuedOK ==
    ASSUME ReadShapes, ReadsFresh, NEW i \in 1..MaxReads, NEW g \in Nat, g > gen, gen' = g,
           attempts' \in Nat, reads' = Issued(i, g, attempts')
    PROVE  ReadShapes' /\ ReadsFresh'
<1>1. /\ DOMAIN reads' = 1..MaxReads
      /\ reads'[i] = [gen |-> g, since |-> attempts', doc |-> NoDoc, state |-> "sent"]
      /\ \A l \in 1..MaxReads : l # i => reads'[l] = reads[l]
  BY DEF Issued, ReadShapes
<1>2. \A l \in 1..MaxReads : l # i => reads'[l].gen < gen'
  BY <1>1 DEF ReadShapes
<1>3. ReadShapes'
  BY <1>1, <1>2 DEF ReadShapes
<1>4. ReadsFresh'
  BY <1>1, <1>2 DEF ReadsFresh
<1> QED BY <1>3, <1>4

\* A read that ended confirms nothing any more.
LEMMA ReadEnds ==
    ASSUME ReadShapes, ReadsFresh, NEW i \in 1..MaxReads, UNCHANGED <<gen, attempts>>,
           reads' = [reads EXCEPT ![i] = [NoRead EXCEPT !.state = "done"]]
    PROVE  ReadShapes' /\ ReadsFresh'
<1>1. /\ DOMAIN reads' = 1..MaxReads
      /\ reads'[i] = [gen |-> 0, since |-> 0, doc |-> NoDoc, state |-> "done"]
      /\ \A l \in 1..MaxReads : l # i => reads'[l] = reads[l]
  BY DEF ReadShapes, NoRead
<1> QED BY <1>1 DEF ReadShapes, ReadsFresh

LEMMA KeyPageStart == ASSUME NEW v, NEW loose, PageInit(v, loose) PROVE KeyPageInv
<1>1. /\ gen = 1 /\ attempts = 0 /\ shown = NoDoc /\ DOMAIN reads = 1..MaxReads
      /\ \A i \in 1..MaxReads : reads[i] = IF i = 1 THEN [NoRead EXCEPT !.gen = 1, !.state = "sent"] ELSE NoRead
  BY DEF PageInit
<1>2. \A i \in 1..MaxReads : /\ DOMAIN reads[i] = {"gen", "since", "doc", "state"}
                             /\ reads[i].gen \in {0, 1} /\ reads[i].since = 0
  <2> SUFFICES ASSUME NEW i \in 1..MaxReads
               PROVE  /\ DOMAIN reads[i] = {"gen", "since", "doc", "state"}
                      /\ reads[i].gen \in {0, 1} /\ reads[i].since = 0
    OBVIOUS
  <2>1. CASE i = 1
    BY <1>1, <2>1 DEF NoRead
  <2>2. CASE i # 1
    BY <1>1, <2>2 DEF NoRead
  <2> QED BY <2>1, <2>2
<1> QED BY <1>1, <1>2 DEF KeyPageInv, ReadShapes, ReadsFresh, ShownFresh

LEMMA KeyPageStep == ASSUME KeyPageInv, [PageNext]_pageVars PROVE KeyPageInv'
<1>0. ReadShapes /\ ReadsFresh /\ ShownFresh /\ gen \in Nat /\ attempts \in Nat
  BY DEF KeyPageInv, ReadShapes
<1>1. CASE UNCHANGED keyPageVars
  BY <1>1 DEF keyPageVars, KeyPageInv, ReadShapes, ReadsFresh, ShownFresh
<1>2. ASSUME NEW i \in 1..MaxReads, poll(i) PROVE KeyPageInv'
  <2>1. gen' = gen + 1 /\ reads' = Issued(i, gen + 1, attempts) /\ UNCHANGED <<shown, sure, attempts>>
    BY <1>2 DEF poll
  <2> QED BY <1>0, <2>1, IssuedOK DEF KeyPageInv, ShownFresh
<1>3. ASSUME NEW i \in 1..MaxReads, getKeys(i) PROVE KeyPageInv'
  <2>1. /\ reads[i].state = "sent" /\ UNCHANGED <<gen, shown, sure, attempts>>
        /\ reads' = [reads EXCEPT ![i].state = "answered", ![i].doc = key]
    BY <1>3 DEF getKeys
  <2>2. /\ DOMAIN reads' = 1..MaxReads /\ DOMAIN reads'[i] = {"gen", "since", "doc", "state"}
        /\ reads'[i].gen = reads[i].gen /\ reads'[i].since = reads[i].since
        /\ \A l \in 1..MaxReads : l # i => reads'[l] = reads[l]
    BY <1>0, <2>1 DEF ReadShapes
  <2>3. ReadShapes'
    BY <1>0, <2>1, <2>2 DEF ReadShapes
  <2>4. ReadsFresh'
    BY <1>0, <2>1, <2>2 DEF ReadsFresh
  <2> QED BY <1>0, <2>1, <2>3, <2>4 DEF KeyPageInv, ShownFresh
<1>4. ASSUME NEW i \in 1..MaxReads, readAcctKey(i) PROVE KeyPageInv'
  <2>1. /\ reads[i].state = "answered" /\ UNCHANGED <<gen, attempts>>
        /\ shown' = IF Current(i) THEN [rotation |-> reads[i].doc, since |-> reads[i].since] ELSE shown
        /\ sure' = (sure \/ Current(i))
        /\ reads' = [reads EXCEPT ![i] = [NoRead EXCEPT !.state = "done"]]
    BY <1>4 DEF readAcctKey
  <2>2. Current(i) => reads[i].since = attempts
    BY <1>0, <2>1 DEF Current, ReadsFresh
  <2>3. ShownFresh'
    BY <1>0, <2>1, <2>2 DEF ShownFresh
  <2> QED BY <1>0, <2>1, <2>3, ReadEnds DEF KeyPageInv
<1>5. ASSUME NEW i \in 1..MaxReads, readFailed(i) PROVE KeyPageInv'
  <2>1. /\ UNCHANGED <<gen, shown, attempts>> /\ sure' \in {sure, FALSE}
        /\ reads' = [reads EXCEPT ![i] = [NoRead EXCEPT !.state = "done"]]
    BY <1>5 DEF readFailed
  <2>2. ShownFresh'
    <3>1. sure' => sure
      BY <2>1
    <3> QED BY <1>0, <2>1, <3>1 DEF ShownFresh
  <2> QED BY <1>0, <2>1, <2>2, ReadEnds DEF KeyPageInv
<1>6. ASSUME NEW ok \in BOOLEAN, NEW i \in 1..MaxReads, runRotateAcctKey(ok, i) PROVE KeyPageInv'
  <2>1. /\ attempts' = attempts + 1
        /\ shown' = IF ok THEN [rotation |-> TRUE, since |-> attempts + 1] ELSE shown
    BY <1>6 DEF runRotateAcctKey
  <2>2. CASE ok /\ view = "portal"
    <3>1. gen' = gen + 1 /\ reads' = reads
      BY <1>6, <2>2 DEF runRotateAcctKey
    <3>2. \A l \in 1..MaxReads : reads[l].gen < gen'
      BY <1>0, <3>1 DEF ReadShapes
    <3> QED BY <1>0, <2>1, <2>2, <3>1, <3>2 DEF KeyPageInv, ReadShapes, ReadsFresh, ShownFresh
  <2>3. CASE ~(ok /\ view = "portal")
    <3>1. sure' = FALSE /\ gen' = gen + 2 /\ reads' = Issued(i, gen + 2, attempts')
      BY <1>6, <2>1, <2>3 DEF runRotateAcctKey
    <3> QED BY <1>0, <2>1, <3>1, IssuedOK DEF KeyPageInv, ShownFresh
  <2> QED BY <2>2, <2>3
<1>7. CASE rotate
  <2>1. gen' = gen + 1 /\ UNCHANGED <<shown, sure, reads, attempts>>
    BY <1>7 DEF rotate
  <2>2. \A l \in 1..MaxReads : reads[l].gen < gen'
    BY <1>0, <2>1 DEF ReadShapes
  <2> QED BY <1>0, <2>1, <2>2 DEF KeyPageInv, ReadShapes, ReadsFresh, ShownFresh
<1>8. CASE rotateKeys \/ RotationEnds
  <2>1. UNCHANGED <<shown, sure, gen, reads, attempts>>
    BY <1>8 DEF rotateKeys, RotationEnds
  <2> QED BY <1>0, <2>1 DEF KeyPageInv, ReadShapes, ReadsFresh, ShownFresh
<1> QED
  BY <1>1, <1>2, <1>3, <1>4, <1>5, <1>6, <1>7, <1>8 DEF PageNext, SettingsPage, KeysPage, pageVars, keyPageVars

\* A rotation is offered only on a status that was asked for after the last
\* attempt ended, or that was its answer (readGeneration, setUncertain).
THEOREM OfferAlwaysFresh == PageSpec => []FreshOffer
<1>1. KeyPageInv => FreshOffer
  BY DEF KeyPageInv, ShownFresh, FreshOffer, Offered
<1>2. PageStart => KeyPageInv
  BY KeyPageStart DEF PageStart
<1> QED BY <1>1, <1>2, KeyPageStep, PTL DEF PageSpec

-----------------------------------------------------------------------------
(* The settings page.  What differs from the page's document was typed     *)
(* since it arrived.                                                       *)
ReqShapes ==
    /\ DOMAIN pageReq = Cards
    /\ \A c \in Cards : /\ DOMAIN pageReq[c] = {"phase", "body", "doc"}
                        /\ pageReq[c].phase = "none" => pageReq[c] = NoReq
                        /\ pageReq[c].phase = "answer" => DOMAIN pageReq[c].doc = Inputs
TypedOnly ==
    form # NoDoc =>
       /\ DOMAIN form = Inputs
       /\ \A k \in Inputs : form[k] = snap[k] \/ form[k] = Tidied(snap[k]) \/ k \in typed
FormInv == ReqShapes /\ TypedOnly

LEMMA FormStart == ASSUME NEW v, NEW loose, PageInit(v, loose) PROVE FormInv
<1>1. /\ DOMAIN pageReq = Cards /\ form = NoDoc
      /\ \A c \in Cards : pageReq[c] = IF c = "mount" THEN [NoReq EXCEPT !.phase = "load"] ELSE NoReq
  BY DEF PageInit
<1> QED BY <1>1 DEF FormInv, ReqShapes, TypedOnly, NoReq

LEMMA TypingOK ==
    ASSUME FormInv, NEW k \in Inputs, NEW v, blurField(k, v)
    PROVE  FormInv'
<1>1. /\ form # NoDoc /\ form' = [form EXCEPT ![k] = v] /\ typed' = typed \cup {k}
      /\ UNCHANGED <<snap, pageReq>>
  BY DEF blurField
<1>2. DOMAIN form' = Inputs /\ \A j \in Inputs : j # k => form'[j] = form[j]
  BY <1>1 DEF FormInv, TypedOnly
<1> QED BY <1>1, <1>2 DEF FormInv, ReqShapes, TypedOnly

\* The fields a card sends were typed, or are the form's spelling of what was read.
Sent(c) ==
    LET body == pageReq'[c].body
    IN \A k \in DOMAIN body \ typed : body[k] # snap[k] /\ body[k] = Tidied(snap[k])

LEMMA SavingOK ==
    ASSUME FormInv, NEW c \in Cards, NEW K \in SUBSET Inputs, form # NoDoc, saveCard(c, Changed(K))
    PROVE  /\ FormInv'
           /\ \A d \in Cards : pageReq[d].phase = "none" /\ pageReq'[d].phase = "put" => Sent(d)
<1>1. /\ pageReq' = [pageReq EXCEPT ![c] = [phase |-> "put", body |-> [k \in Changed(K) |-> form[k]], doc |-> NoDoc]]
      /\ UNCHANGED <<snap, form, typed>>
  BY DEF saveCard
<1>2. \A k \in Changed(K) : k \in typed \/ (form[k] # snap[k] /\ form[k] = Tidied(snap[k]))
  BY DEF Changed, FormInv, TypedOnly
<1> HIDE DEF Changed
<1>3. /\ DOMAIN pageReq' = Cards /\ \A d \in Cards : d # c => pageReq'[d] = pageReq[d]
      /\ pageReq'[c] = [phase |-> "put", body |-> [k \in Changed(K) |-> form[k]], doc |-> NoDoc]
  BY <1>1 DEF FormInv, ReqShapes
<1>4. /\ DOMAIN pageReq'[c] = {"phase", "body", "doc"} /\ pageReq'[c].phase = "put"
      /\ pageReq'[c].body = [k \in Changed(K) |-> form[k]]
  BY <1>3
<1>5. FormInv'
  BY <1>1, <1>3, <1>4 DEF FormInv, ReqShapes, TypedOnly
<1>6. Sent(c)
  BY <1>2, <1>4 DEF Sent
<1> QED BY <1>3, <1>5, <1>6

LEMMA FormStep ==
    ASSUME FormInv, [PageNext]_pageVars
    PROVE  /\ FormInv'
           /\ \A c \in Cards : pageReq[c].phase = "none" /\ pageReq'[c].phase = "put" => Sent(c)
<1>0. ReqShapes /\ TypedOnly
  BY DEF FormInv
<1>1. CASE UNCHANGED formVars
  BY <1>1 DEF formVars, FormInv, ReqShapes, TypedOnly
<1>2. CASE typeSite \/ typeSec \/ typeReg \/ typeTs \/ typeEmail
  <2>1. PICK k \in Inputs : \E v : blurField(k, v)
    <3>1. CASE typeSite
      BY <3>1 DEF typeSite, Inputs
    <3>2. CASE typeSec \/ typeReg
      BY <3>2 DEF typeSec, typeReg, Inputs
    <3>3. CASE typeTs
      BY <3>3 DEF typeTs, Inputs, Secrets
    <3>4. CASE typeEmail
      BY <3>4 DEF typeEmail, Inputs, Secrets
    <3> QED BY <1>2, <3>1, <3>2, <3>3, <3>4
  <2>2. PICK v : blurField(k, v)
    BY <2>1
  <2> QED BY <2>2, TypingOK DEF blurField
<1>3. CASE saveSite \/ saveSec \/ saveReg \/ saveTs \/ saveEmail
  <2>1. PICK c \in Cards, K \in SUBSET Inputs : form # NoDoc /\ saveCard(c, Changed(K))
    <3>1. CASE saveSite
      BY <3>1 DEF saveSite, siteDirty, Cards, Inputs
    <3>2. CASE saveSec
      BY <3>2 DEF saveSec, secDirty, Cards, Inputs
    <3>3. CASE saveReg
      BY <3>3 DEF saveReg, regDirty, Cards, Inputs
    <3>4. CASE saveTs
      BY <3>4 DEF saveTs, tsDirty, Cards, Inputs, Secrets
    <3>5. CASE saveEmail
      BY <3>5 DEF saveEmail, emailDirty, Cards, Inputs, Secrets
    <3> QED BY <1>3, <3>1, <3>2, <3>3, <3>4, <3>5
  <2> QED BY <2>1, SavingOK
<1>4. CASE runGenerateGateKey
  <2>1. /\ pageReq' = [pageReq EXCEPT !["gate"].phase = "put"] /\ UNCHANGED <<snap, form, typed>>
        /\ pageReq["gate"] = NoReq /\ "gate" \in Cards
    BY <1>0, <1>4 DEF runGenerateGateKey, Free, ReqShapes, Cards
  <2>2. /\ DOMAIN pageReq' = Cards /\ \A d \in Cards : d # "gate" => pageReq'[d] = pageReq[d]
        /\ pageReq'["gate"] = [NoReq EXCEPT !.phase = "put"]
    BY <1>0, <2>1 DEF ReqShapes
  <2>3. /\ DOMAIN pageReq'["gate"] = {"phase", "body", "doc"} /\ pageReq'["gate"].phase = "put"
        /\ DOMAIN pageReq'["gate"].body = {}
    BY <2>2 DEF NoReq
  <2>4. FormInv'
    BY <1>0, <2>1, <2>2, <2>3 DEF FormInv, ReqShapes, TypedOnly
  <2>5. Sent("gate")
    BY <2>3 DEF Sent
  <2> QED BY <2>2, <2>4, <2>5
<1>8. CASE leaveAccount
  <2>1. /\ form # NoDoc /\ form' = [form EXCEPT !["cf_account_id"] = Tidied(form["cf_account_id"])]
        /\ UNCHANGED <<snap, pageReq, typed>> /\ form["cf_account_id"] = Loose
    BY <1>8 DEF leaveAccount
  <2>2. DOMAIN form' = Inputs /\ \A j \in Inputs : j # "cf_account_id" => form'[j] = form[j]
    BY <1>0, <2>1 DEF TypedOnly
  <2>3. "cf_account_id" \in Inputs /\ form'["cf_account_id"] = Tidied(form["cf_account_id"])
    BY <1>0, <2>1 DEF TypedOnly, Inputs
  <2>4. \/ form["cf_account_id"] = snap["cf_account_id"]
        \/ form["cf_account_id"] = Tidied(snap["cf_account_id"])
        \/ "cf_account_id" \in typed
    BY <1>0, <2>1, <2>3 DEF TypedOnly
  <2>5. \A x : Tidied(x) # Loose
    BY DEF Tidied, Loose
  <2>6. TypedOnly'
    BY <1>0, <2>1, <2>2, <2>3, <2>4, <2>5 DEF TypedOnly
  <2>7. ReqShapes'
    BY <1>0, <2>1 DEF ReqShapes
  <2> QED BY <2>1, <2>6, <2>7 DEF FormInv
<1>5. CASE OtherAdmin
  BY <1>5 DEF OtherAdmin, FormInv, ReqShapes, TypedOnly
<1>6. ASSUME NEW c \in Cards, updateSettings(c) \/ getSettingsPage(c) \/ loadFails(c)
      PROVE  /\ FormInv'
             /\ \A d \in Cards : ~(pageReq[d].phase = "none" /\ pageReq'[d].phase = "put")
  <2>1. UNCHANGED <<snap, form, typed>>
    BY <1>6 DEF updateSettings, getSettingsPage, loadFails
  <2>2. /\ DOMAIN pageReq' = Cards /\ \A d \in Cards : d # c => pageReq'[d] = pageReq[d]
        /\ DOMAIN pageReq'[c] = {"phase", "body", "doc"}
        /\ \/ pageReq'[c].phase = "load" \/ pageReq'[c] = NoReq
           \/ pageReq'[c].phase = "answer" /\ pageReq'[c].doc = Document
    BY <1>0, <1>6 DEF updateSettings, getSettingsPage, loadFails, ReqShapes, NoReq
  <2>3. DOMAIN Document = Inputs
    BY DEF Document
  <2>4. ReqShapes'
    BY <1>0, <2>2, <2>3 DEF ReqShapes, NoReq
  <2>5. TypedOnly'
    BY <1>0, <2>1 DEF TypedOnly
  <2> QED BY <2>2, <2>4, <2>5 DEF FormInv, NoReq
<1>7. ASSUME NEW c \in Cards, loadPage(c)
      PROVE  /\ FormInv'
             /\ \A d \in Cards : ~(pageReq[d].phase = "none" /\ pageReq'[d].phase = "put")
  <2>1. /\ snap' = pageReq[c].doc /\ form' = Taken(pageReq[c].doc)
        /\ DOMAIN pageReq[c].doc = Inputs
        /\ pageReq' = [pageReq EXCEPT ![c] = NoReq]
    BY <1>0, <1>7 DEF loadPage, ReqShapes
  <2>2. /\ DOMAIN pageReq' = Cards /\ \A d \in Cards : d # c => pageReq'[d] = pageReq[d]
        /\ pageReq'[c] = NoReq
    BY <1>0, <2>1 DEF ReqShapes
  <2>3. ReqShapes'
    BY <1>0, <2>2 DEF ReqShapes, NoReq
  <2>4. TypedOnly'
    <3>1. /\ DOMAIN form' = Inputs
          /\ \A k \in Inputs : k # "account_portal_url" => form'[k] = snap'[k]
          /\ form'["account_portal_url"] = Tidied(snap'["account_portal_url"])
      BY <2>1 DEF Taken, Inputs
    <3> QED BY <3>1 DEF TypedOnly
  <2> QED BY <2>2, <2>3, <2>4 DEF FormInv, NoReq
<1> QED
  BY <1>1, <1>2, <1>3, <1>4, <1>5, <1>6, <1>7, <1>8
     DEF PageNext, SettingsPage, KeysPage, pageVars, formVars

\* A save never overwrites a setting that the administrator did not type since
\* the page read the settings, in whatever order the cards' documents arrived;
\* except that a value read in a spelling the form cannot keep is sent in the
\* form's spelling of it (SettingsPage.jsx, splitPortal, saveSite).
THEOREM NeverBlindOverwrite == PageSpec => NoBlindOverwrite
<1>1. PageStart => FormInv
  BY FormStart DEF PageStart
<1>2. FormInv /\ [PageNext]_pageVars =>
        [\A c \in Cards : pageReq[c].phase = "none" /\ pageReq'[c].phase = "put"
           => LET body == pageReq'[c].body
              IN \A k \in DOMAIN body \ typed :
                   body[k] # snap[k] /\ body[k] = Tidied(snap[k])]_pageVars
  BY FormStep DEF Sent
<1>3. FormInv /\ [PageNext]_pageVars => FormInv'
  BY FormStep
<1> QED BY <1>1, <1>2, <1>3, PTL DEF PageSpec, NoBlindOverwrite

-----------------------------------------------------------------------------
(* Settings.  While no two writers met and none stopped half-way: one      *)
(* writer at a time leads the rows from one coherent table to another,     *)
(* and the cache differs from them only at the row it has just written.    *)
IsJob(r) == r = [f \in {"kind", "arg", "got", "writes", "step", "sel", "valid", "clean"} |-> r[f]]
IsWrites(w) ==
    /\ \E S : w \in Seq(S)
    /\ \A i \in 1..Len(w) : w[i][1] \in Rows
    /\ \A i, l \in 1..Len(w) : w[i][1] = w[l][1] => i = l
JobKinds == Mutators \cup {"none", "get", "status", "outbound"}
JobShapes ==
    /\ job = [j \in Slots |-> job[j]]
    /\ \A j \in Slots :
         /\ IsJob(job[j]) /\ job[j].kind \in JobKinds /\ IsWrites(job[j].writes)
         /\ job[j].writes # << >> => job[j].step \in {"writing", "written"} /\ job[j].kind \in Mutators
         /\ job[j].step = "written" => job[j].writes # << >>
         /\ job[j].step = "select" => job[j].sel \in DOMAIN job[j].got \cap Rows
         /\ job[j].kind = "get" => job[j].arg \in Rows
         /\ job[j].kind = "put" => job[j].arg \in Bodies
RowShapes ==
    /\ table = [k \in Rows |-> table[k]] /\ cache = [k \in Rows |-> cache[k]] /\ made \in Nat

\* A writer takes the mark from every request it meets.
CleanAlone ==
    \A j \in Slots : Busy(j) /\ job[j].clean /\ ~Mutating(j) => \A i \in Slots : ~Mutating(i)

OneMutator == \A i, j \in Slots : Mutating(i) /\ Mutating(j) => i = j
WrittenAt(k) == \E i \in Slots : job[i].step = "written" /\ job[i].writes[1][1] = k
CacheTrue ==
    /\ \A k \in Rows : cache[k] = Absent \/ cache[k] = table[k] \/ WrittenAt(k)
    /\ \A j \in Slots : job[j].step = "select" /\ job[j].valid =>
         job[j].got[job[j].sel] = table[job[j].sel] \/ WrittenAt(job[j].sel)
WrittenTrue == \A j \in Slots : job[j].step = "written" => table[job[j].writes[1][1]] = job[j].writes[1][2]
Undisturbed(j) == job[j].step \in {"reading", "select"} /\ (Mutating(j) \/ job[j].clean)
ReadTrue == \A j \in Slots : Undisturbed(j) => \A k \in DOMAIN job[j].got : job[j].got[k] = table[k]

\* The rows when a writer is done.
Aim(t, w) ==
    [k \in Rows |-> IF \E i \in 1..Len(w) : w[i][1] = k THEN w[CHOOSE i \in 1..Len(w) : w[i][1] = k][2] ELSE t[k]]
Coherent(v) ==
    /\ \A k \in {"idle", "max", "trans"} : v[k] = Null \/ v[k] \in Int
    /\ WindowsOrdered(v) /\ IdentityMatches(v)
AimsWell ==
    /\ \A j \in Slots : Mutating(j) => Coherent(Aim(table, job[j].writes))
    /\ (\A j \in Slots : ~Mutating(j)) => Coherent(table)

\* The name the applications know, or will know when what is on its way arrives.
Naming(j) == job[j].kind = "site" /\ job[j].step \in {"writing", "written"}
Announced(n) == (spreading = {} /\ (missed \/ toldName = n)) \/ spreading = {n}
NameFollows ==
    /\ (\A j \in Slots : ~Naming(j)) => Announced(table["site"])
    /\ \A j \in Slots : Naming(j) => /\ Announced(job[j].got["site"])
                                     /\ job[j].writes # << >> => job[j].writes = <<<<"site", job[j].arg>>>>
                                     /\ job[j].writes = << >> => table["site"] = job[j].arg
    /\ \A j \in Slots : Mutating(j) /\ job[j].kind # "site" =>
         \A i \in 1..Len(job[j].writes) : job[j].writes[i][1] # "site"

ArgsFit ==
    \A j \in Slots : job[j].kind = "install" => job[j].arg.key \in Nat /\ job[j].arg.key <= made
\* A key moves on, out of the way, before its certificate arrives.
KeyMoves(w, kind, arg) ==
    /\ \A i \in 1..Len(w) :
         /\ w[i][1] = "activeKey" => w[i][2] \in {Null, table["pendingKey"]}
         /\ w[i][1] = "pendingKey" => w[i][2] = Null \/ (kind = "csr" /\ w[i][2] = arg)
         /\ w[i][1] = "cert" /\ w[i][2] # Null =>
              /\ kind = "install" /\ w[i][2] = arg
              /\ (\E l \in 1..Len(w) : w[l][1] = "pendingKey") \/ table["pendingKey"] = Null
    /\ \A i, l \in 1..Len(w) :
         /\ w[i][1] = "activeKey" /\ w[l][1] = "pendingKey" => i < l
         /\ w[i][1] = "pendingKey" /\ w[l][1] = "cert" /\ w[l][2] # Null => i < l
KeysMove == \A j \in Slots : Mutating(j) => KeyMoves(job[j].writes, job[j].kind, job[j].arg)

\* A certificate that somebody knows is not for a key yet to be used.
Spent(c) ==
    c = Null \/ /\ c.key \in Nat /\ c.key <= made /\ c.key # table["pendingKey"]
                /\ \A i \in Slots : Mutating(i) /\ job[i].kind = "csr" => c.key # job[i].arg
CertsSpent ==
    /\ Spent(table["cert"]) /\ (cache["cert"] = Absent \/ Spent(cache["cert"]))
    /\ \A j \in Slots : Busy(j) /\ "cert" \in DOMAIN job[j].got => Spent(job[j].got["cert"])
    /\ agent = Null \/ Spent(agent.cert)
\* What does not fit is out of use for good.
Fits(c, k) == c = Null \/ k = Null \/ k = c.key \/ c.key # table["activeKey"]
IdentitiesFit ==
    /\ \A j \in Slots : Busy(j) /\ job[j].kind = "outbound" /\ "activeKey" \in DOMAIN job[j].got =>
         "cert" \in DOMAIN job[j].got /\ Fits(job[j].got["cert"], job[j].got["activeKey"])
    /\ agent = Null \/ (agent.cert # Null /\ agent.key # Null /\ Fits(agent.cert, agent.key))
    /\ \A j \in Slots : job[j].step = "sent" /\ job[j].clean /\ job[j].arg # Null => job[j].arg.key = job[j].arg.cert.key

Calm ==
    /\ OneMutator /\ CacheTrue /\ WrittenTrue /\ ReadTrue /\ AimsWell /\ NameFollows
    /\ ArgsFit /\ KeysMove /\ CertsSpent /\ IdentitiesFit
SettingInv == JobShapes /\ RowShapes /\ CleanAlone /\ (~torn => Calm)

USE SettingsAssumption

LEMMA JobWritten ==
    ASSUME JobShapes, NEW j \in Slots, NEW p, job' = [job EXCEPT ![j] = p]
    PROVE  job' = [i \in Slots |-> job'[i]] /\ job'[j] = p /\ \A i \in Slots : i # j => job'[i] = job[i]
  BY DEF JobShapes

\* Requests that go on without becoming or ceasing to be writers.
LEMMA Roles ==
    ASSUME CleanAlone,
           \A i \in Slots : /\ job'[i].kind = job[i].kind /\ (job'[i].step = "idle" <=> job[i].step = "idle")
                            /\ job'[i].clean = job[i].clean
    PROVE  /\ \A i \in Slots : (Mutating(i)' <=> Mutating(i)) /\ (Busy(i)' <=> Busy(i))
           /\ CleanAlone' /\ (OneMutator => OneMutator')
  BY DEF Mutating, Busy, CleanAlone, OneMutator

LEMMA GotOK ==
    ASSUME NEW k, NEW v, NEW g, NEW h, h = Learned(g, k, v)
    PROVE  DOMAIN h = {k} \cup DOMAIN g /\ h[k] = v /\ \A l \in DOMAIN g : l # k => h[l] = g[l]
  BY DEF Learned

LEMMA ReadsOf ==
    ASSUME JobShapes, NEW j \in Slots, NEW k \in Reads(job[j])
    PROVE  /\ k \in Rows /\ k \notin DOMAIN job[j].got
           /\ job[j].kind = "outbound" /\ k = "activeKey" => "cert" \in DOMAIN job[j].got
<1>1. job[j].kind \in JobKinds /\ (job[j].kind = "get" => job[j].arg \in Rows)
  BY DEF JobShapes
<1>2. CASE job[j].kind = "put"
  BY <1>2 DEF Reads, windowReads, Rows, Known
<1>3. CASE job[j].kind = "install"
  BY <1>3 DEF Reads, installReads, Rows, MtlsRows, Known
<1>4. CASE job[j].kind = "status"
  BY <1>4 DEF Reads, statusReads, Rows, MtlsRows, Known
<1>5. CASE job[j].kind = "outbound"
  BY <1>5 DEF Reads, outboundReads, Rows, MtlsRows, Known
<1>6. CASE job[j].kind \in {"get", "site", "enforce"}
  BY <1>1, <1>6 DEF Reads, Rows, MtlsRows, Known
<1>7. CASE job[j].kind \notin {"put", "install", "status", "outbound", "get", "site", "enforce"}
  BY <1>7 DEF Reads
<1> QED BY <1>2, <1>3, <1>4, <1>5, <1>6, <1>7

\* A request reads a row, or a reader fills the cache.
LEMMA Reading ==
    ASSUME SettingInv, NEW j \in Slots, NEW p, job' = [job EXCEPT ![j] = p], IsJob(p),
           job[j].step \in {"reading", "select"}, p.step \in {"reading", "select"},
           p.kind = job[j].kind, p.arg = job[j].arg, p.writes = job[j].writes, p.clean = job[j].clean,
           p.step = "select" => p.sel \in DOMAIN p.got \cap Rows,
           UNCHANGED <<table, made, torn, spreading, toldName, missed, agent>>,
           cache' = [k \in Rows |-> cache'[k]],
           ~torn => /\ \A k \in Rows : cache'[k] = Absent \/ cache'[k] = table[k] \/ WrittenAt(k)
                    /\ p.step = "select" /\ p.valid => p.got[p.sel] = table[p.sel] \/ WrittenAt(p.sel)
                    /\ Undisturbed(j) => \A k \in DOMAIN p.got : p.got[k] = table[k]
                    /\ "cert" \in DOMAIN p.got => Spent(p.got["cert"])
                    /\ cache'["cert"] = Absent \/ Spent(cache'["cert"])
                    /\ p.kind = "outbound" /\ "activeKey" \in DOMAIN p.got =>
                         "cert" \in DOMAIN p.got /\ Fits(p.got["cert"], p.got["activeKey"])
    PROVE  SettingInv'
<1>0. JobShapes /\ RowShapes /\ CleanAlone /\ (~torn => Calm)
  BY DEF SettingInv
<1>1. job' = [i \in Slots |-> job'[i]] /\ job'[j] = p /\ \A i \in Slots : i # j => job'[i] = job[i]
  BY <1>0, JobWritten
<1>2. \A i \in Slots : /\ job'[i].kind = job[i].kind /\ (job'[i].step = "idle" <=> job[i].step = "idle")
                       /\ job'[i].clean = job[i].clean /\ job'[i].arg = job[i].arg /\ job'[i].writes = job[i].writes
  BY <1>1
<1>3. /\ \A i \in Slots : (Mutating(i)' <=> Mutating(i)) /\ (Busy(i)' <=> Busy(i))
      /\ CleanAlone' /\ (OneMutator => OneMutator')
  BY <1>0, <1>2, Roles
<1>4. JobShapes'
  BY <1>0, <1>1 DEF JobShapes
<1>5. RowShapes'
  BY <1>0 DEF RowShapes
<1>6. \A i \in Slots : /\ job'[i].step \in {"written", "writing", "sent", "idle"} \/ job[i].step \in {"written", "writing", "sent", "idle"} => job'[i] = job[i]
                       /\ job'[i].step \in {"reading", "select"} <=> job[i].step \in {"reading", "select"}
  BY <1>1
<1>7. ASSUME ~torn PROVE Calm'
  <2>0. /\ OneMutator /\ CacheTrue /\ WrittenTrue /\ ReadTrue /\ AimsWell /\ NameFollows
        /\ ArgsFit /\ KeysMove /\ CertsSpent /\ IdentitiesFit
    BY <1>0, <1>7 DEF Calm
  <2>1. \A k : WrittenAt(k)' <=> WrittenAt(k)
    BY <1>6 DEF WrittenAt
  <2>2. CacheTrue'
    BY <1>1, <1>7, <2>0, <2>1 DEF CacheTrue
  <2>3. WrittenTrue'
    BY <1>6, <2>0 DEF WrittenTrue
  <2>4. ReadTrue'
    BY <1>1, <1>2, <1>3, <1>6, <1>7, <2>0 DEF ReadTrue, Undisturbed
  <2>5. AimsWell'
    <3>1. \A i \in Slots : Aim(table, job[i].writes)' = Aim(table, job[i].writes)
      BY <1>2
    <3> QED BY <1>3, <2>0, <3>1 DEF AimsWell
  <2>6. NameFollows'
    BY <1>2, <1>3, <1>6, <2>0 DEF NameFollows, Naming, Announced
  <2>7. ArgsFit' /\ KeysMove'
    BY <1>2, <1>3, <2>0 DEF ArgsFit, KeysMove, KeyMoves
  <2>8. \A c : Spent(c)' <=> Spent(c)
    BY <1>2, <1>3 DEF Spent
  <2>9. CertsSpent'
    BY <1>1, <1>3, <1>7, <2>0, <2>8 DEF CertsSpent
  <2>10. \A c, k : Fits(c, k)' <=> Fits(c, k)
    BY DEF Fits
  <2>11. IdentitiesFit'
    BY <1>1, <1>3, <1>6, <1>7, <2>0, <2>10 DEF IdentitiesFit
  <2> QED BY <1>3, <2>0, <2>2, <2>3, <2>4, <2>5, <2>6, <2>7, <2>9, <2>11 DEF Calm
<1> QED BY <1>3, <1>4, <1>5, <1>7 DEF SettingInv

\* While nobody has just written, the cache is the table.
LEMMA CachedIs ==
    ASSUME Calm, RowShapes, NEW j \in Slots, Undisturbed(j), CleanAlone, JobShapes, NEW k \in Rows, cache[k] # Absent
    PROVE  cache[k] = table[k]
<1>1. ~WrittenAt(k)
  <2>1. SUFFICES ASSUME NEW i \in Slots, job[i].step = "written" PROVE FALSE
    BY DEF WrittenAt
  <2>2. Mutating(i) /\ i # j
    BY <2>1 DEF JobShapes, Mutating, Busy, Undisturbed
  <2> QED BY <2>2 DEF Calm, OneMutator, Undisturbed, CleanAlone, Busy
<1> QED BY <1>1 DEF Calm, CacheTrue

LEMMA getSettingOK == ASSUME SettingInv, NEW j \in Slots, getSetting(j) PROVE SettingInv'
<1>0. JobShapes /\ RowShapes /\ CleanAlone /\ (~torn => Calm)
  BY DEF SettingInv
<1>1. /\ job[j].step = "reading" /\ IsJob(job[j])
      /\ UNCHANGED <<topic, table, cache, card, agent, lapsed, made, spreading, toldName, missed, torn, requests>>
  BY <1>0 DEF getSetting, JobShapes
<1>2. PICK k \in Reads(job[j]) :
         \/ /\ cache[k] # Absent
            /\ job' = [job EXCEPT ![j].got = Learned(job[j].got, k, cache[k])]
         \/ /\ cache[k] = Absent
            /\ job' = [job EXCEPT ![j].got = Learned(job[j].got, k, table[k]), ![j].step = "select", ![j].sel = k,
                                  ![j].valid = TRUE]
  BY <1>0 DEF getSetting, JobShapes, IsJob
<1>3. PICK v : v = IF cache[k] # Absent THEN cache[k] ELSE table[k]
  OBVIOUS
<1>4. PICK g : g = Learned(job[j].got, k, v)
  OBVIOUS
<1>5. DOMAIN g = {k} \cup DOMAIN job[j].got /\ g[k] = v /\ \A l \in DOMAIN job[j].got : l # k => g[l] = job[j].got[l]
  BY <1>4 DEF Learned
<1>6. /\ k \in Rows /\ k \notin DOMAIN job[j].got
      /\ job[j].kind = "outbound" /\ k = "activeKey" => "cert" \in DOMAIN job[j].got
  BY <1>0, ReadsOf
<1>7. PICK p : /\ job' = [job EXCEPT ![j] = p] /\ IsJob(p) /\ p.got = g /\ p.kind = job[j].kind /\ p.arg = job[j].arg
               /\ p.writes = job[j].writes /\ p.clean = job[j].clean
               /\ p.step = "reading" \/ (p.step = "select" /\ p.sel = k /\ v = table[k])
  <2>1. CASE cache[k] # Absent
    <3> DEFINE p == [job[j] EXCEPT !.got = g]
    <3>1. job' = [job EXCEPT ![j] = p]
      BY <1>0, <1>2, <1>3, <1>4, <2>1 DEF JobShapes
    <3>2. IsJob(p) /\ p.got = g /\ \A f \in {"kind", "arg", "writes", "clean", "step"} : p[f] = job[j][f]
      BY <1>1 DEF IsJob
    <3> HIDE DEF p
    <3> QED BY <1>1, <3>1, <3>2
  <2>2. CASE cache[k] = Absent
    <3> DEFINE p == [job[j] EXCEPT !.got = g, !.step = "select", !.sel = k, !.valid = TRUE]
    <3>1. job' = [job EXCEPT ![j] = p]
      BY <1>0, <1>2, <1>3, <1>4, <2>2 DEF JobShapes
    <3>2. IsJob(p) /\ p.got = g /\ p.step = "select" /\ p.sel = k /\ \A f \in {"kind", "arg", "writes", "clean"} : p[f] = job[j][f]
      BY <1>1 DEF IsJob
    <3> HIDE DEF p
    <3> QED BY <1>3, <2>2, <3>1, <3>2
  <2> QED BY <2>1, <2>2
<1> HIDE <1>2
<1>8. ASSUME ~torn
      PROVE  /\ \A l \in Rows : cache[l] = Absent \/ cache[l] = table[l] \/ WrittenAt(l)
             /\ p.step = "select" /\ p.valid => p.got[p.sel] = table[p.sel] \/ WrittenAt(p.sel)
             /\ Undisturbed(j) => \A l \in DOMAIN p.got : p.got[l] = table[l]
             /\ "cert" \in DOMAIN p.got => Spent(p.got["cert"])
             /\ cache["cert"] = Absent \/ Spent(cache["cert"])
             /\ p.kind = "outbound" /\ "activeKey" \in DOMAIN p.got =>
                  "cert" \in DOMAIN p.got /\ Fits(p.got["cert"], p.got["activeKey"])
  <2>0. /\ OneMutator /\ CacheTrue /\ WrittenTrue /\ ReadTrue /\ AimsWell /\ NameFollows
        /\ ArgsFit /\ KeysMove /\ CertsSpent /\ IdentitiesFit
    BY <1>0, <1>8 DEF Calm
  <2>1. \A l \in Rows : cache[l] = Absent \/ cache[l] = table[l] \/ WrittenAt(l)
    BY <2>0 DEF CacheTrue
  <2>2. p.step = "select" => p.got[p.sel] = table[p.sel]
    BY <1>5, <1>7
  <2>3. Undisturbed(j) => v = table[k]
    BY <1>0, <1>3, <1>6, <1>8, CachedIs
  <2>4. Undisturbed(j) => \A l \in DOMAIN p.got : p.got[l] = table[l]
    BY <1>5, <1>7, <2>0, <2>3 DEF ReadTrue
  <2>5. Busy(j)
    BY <1>1 DEF Busy
  <2>6. k = "cert" => Spent(v)
    BY <1>3, <2>0 DEF CertsSpent
  <2>7. "cert" \in DOMAIN p.got => Spent(p.got["cert"])
    BY <1>5, <1>7, <2>0, <2>5, <2>6 DEF CertsSpent
  <2>8. cache["cert"] = Absent \/ Spent(cache["cert"])
    BY <2>0 DEF CertsSpent
  <2>9. ASSUME p.kind = "outbound", "activeKey" \in DOMAIN p.got
        PROVE  "cert" \in DOMAIN p.got /\ Fits(p.got["cert"], p.got["activeKey"])
    <3>1. CASE k # "activeKey"
      <4>1. /\ "activeKey" \in DOMAIN job[j].got /\ "cert" \in DOMAIN job[j].got
            /\ Fits(job[j].got["cert"], job[j].got["activeKey"])
        BY <1>5, <1>7, <2>0, <2>5, <2>9, <3>1 DEF IdentitiesFit
      <4>2. k # "cert" /\ p.got["cert"] = job[j].got["cert"] /\ p.got["activeKey"] = job[j].got["activeKey"]
        BY <1>5, <1>6, <1>7, <3>1, <4>1
      <4> QED BY <1>5, <1>7, <4>1, <4>2
    <3>2. CASE k = "activeKey"
      <4>1. "cert" \in DOMAIN job[j].got /\ p.got["cert"] = job[j].got["cert"] /\ p.got["activeKey"] = v
        BY <1>5, <1>6, <1>7, <2>9, <3>2
      <4>2. PICK c : c = job[j].got["cert"]
        OBVIOUS
      <4>3. Spent(c)
        BY <2>0, <2>5, <4>1, <4>2 DEF CertsSpent
      <4>4. ASSUME v = table["activeKey"] PROVE Fits(c, v)
        BY <4>4 DEF Fits
      <4>5. ASSUME v # table["activeKey"] PROVE Fits(c, v)
        <5>1. WrittenAt("activeKey")
          BY <1>3, <1>6, <2>0, <3>2, <4>5 DEF CacheTrue
        <5>2. PICK i \in Slots : job[i].step = "written" /\ job[i].writes[1][1] = "activeKey"
          BY <5>1 DEF WrittenAt
        <5>3. Mutating(i) /\ 1 \in 1..Len(job[i].writes)
          <6>1. job[i].writes # << >> /\ job[i].kind \in Mutators /\ \E S : job[i].writes \in Seq(S)
            BY <1>0, <5>2 DEF JobShapes, IsWrites
          <6> QED BY <5>2, <6>1 DEF Mutating, Busy
        <5>4. table["activeKey"] \in {Null, table["pendingKey"]}
          BY <2>0, <5>2, <5>3 DEF WrittenTrue, KeysMove, KeyMoves
        <5>5. c = Null \/ c.key # table["activeKey"]
          BY <4>3, <5>4 DEF Spent
        <5> QED BY <5>5 DEF Fits
      <4> QED BY <1>5, <1>7, <4>1, <4>2, <4>4, <4>5
    <3> QED BY <3>1, <3>2
  <2> QED BY <2>1, <2>2, <2>4, <2>7, <2>8, <2>9
<1>9. cache' = [l \in Rows |-> cache'[l]]
  BY <1>0, <1>1 DEF RowShapes
<1>10. p.step \in {"reading", "select"} /\ (p.step = "select" => p.sel \in DOMAIN p.got \cap Rows)
  BY <1>5, <1>6, <1>7
<1> QED BY <1>1, <1>7, <1>8, <1>9, <1>10, Reading

LEMMA readRawOK == ASSUME SettingInv, NEW j \in Slots, readRaw(j) PROVE SettingInv'
<1>0. JobShapes /\ RowShapes /\ CleanAlone /\ (~torn => Calm)
  BY DEF SettingInv
<1>1. /\ job[j].step = "select" /\ IsJob(job[j]) /\ job[j].sel \in DOMAIN job[j].got \cap Rows
      /\ UNCHANGED <<topic, table, card, agent, lapsed, made, spreading, toldName, missed, torn, requests>>
      /\ cache' = IF Stores(j) THEN [cache EXCEPT ![job[j].sel] = job[j].got[job[j].sel]] ELSE cache
  BY <1>0 DEF readRaw, JobShapes
<1>b. PICK k \in Rows : k = job[j].sel
  BY <1>1
<1>2. PICK v : k = job[j].sel /\ v = job[j].got[k]
  BY <1>b
<1>3. /\ cache' = [l \in Rows |-> cache'[l]]
      /\ \A l \in Rows : cache'[l] = cache[l] \/ (l = k /\ cache'[l] = v /\ job[j].valid)
  BY <1>0, <1>1, <1>2 DEF Stores, RowShapes
<1> DEFINE p == [job[j] EXCEPT !.step = "reading", !.sel = Null, !.valid = FALSE]
<1>4. job' = [job EXCEPT ![j] = p]
  BY <1>0 DEF readRaw, JobShapes
<1>5. IsJob(p) /\ p.step = "reading" /\ \A f \in {"kind", "arg", "writes", "clean", "got"} : p[f] = job[j][f]
  BY <1>1 DEF IsJob
<1> HIDE DEF p
<1>6. ASSUME ~torn
      PROVE  /\ \A l \in Rows : cache'[l] = Absent \/ cache'[l] = table[l] \/ WrittenAt(l)
             /\ Undisturbed(j) => \A l \in DOMAIN p.got : p.got[l] = table[l]
             /\ "cert" \in DOMAIN p.got => Spent(p.got["cert"])
             /\ cache'["cert"] = Absent \/ Spent(cache'["cert"])
             /\ p.kind = "outbound" /\ "activeKey" \in DOMAIN p.got =>
                  "cert" \in DOMAIN p.got /\ Fits(p.got["cert"], p.got["activeKey"])
  <2>0. CacheTrue /\ ReadTrue /\ CertsSpent /\ IdentitiesFit
    BY <1>0, <1>6 DEF Calm
  <2>1. job[j].valid => v = table[k] \/ WrittenAt(k)
    BY <1>1, <1>2, <2>0 DEF CacheTrue
  <2>2. \A l \in Rows : cache'[l] = Absent \/ cache'[l] = table[l] \/ WrittenAt(l)
    BY <1>3, <2>0, <2>1 DEF CacheTrue
  <2>3. Busy(j)
    BY <1>1 DEF Busy
  <2>4. k = "cert" => Spent(v)
    BY <1>1, <1>2, <2>0, <2>3 DEF CertsSpent
  <2>5. cache'["cert"] = Absent \/ Spent(cache'["cert"])
    BY <1>3, <2>0, <2>4 DEF CertsSpent, Rows, MtlsRows
  <2>6. Undisturbed(j) => \A l \in DOMAIN p.got : p.got[l] = table[l]
    BY <1>5, <2>0 DEF ReadTrue
  <2>7. "cert" \in DOMAIN p.got => Spent(p.got["cert"])
    BY <1>5, <2>0, <2>3 DEF CertsSpent
  <2>8. p.kind = "outbound" /\ "activeKey" \in DOMAIN p.got =>
                  "cert" \in DOMAIN p.got /\ Fits(p.got["cert"], p.got["activeKey"])
    BY <1>5, <2>0, <2>3 DEF IdentitiesFit
  <2> QED BY <2>2, <2>5, <2>6, <2>7, <2>8
<1> QED BY <1>1, <1>3, <1>4, <1>5, <1>6, Reading

LEMMA AimOf ==
    ASSUME NEW t, NEW w, IsWrites(w)
    PROVE  /\ \A i \in 1..Len(w) : Aim(t, w)[w[i][1]] = w[i][2]
           /\ \A k \in Rows : (\A i \in 1..Len(w) : w[i][1] # k) => Aim(t, w)[k] = t[k]
<1>1. ASSUME NEW i \in 1..Len(w) PROVE Aim(t, w)[w[i][1]] = w[i][2]
  <2> DEFINE c == CHOOSE l \in 1..Len(w) : w[l][1] = w[i][1]
  <2>1. c \in 1..Len(w) /\ w[c][1] = w[i][1]
    OBVIOUS
  <2>2. c = i
    BY <2>1 DEF IsWrites
  <2>3. w[i][1] \in Rows
    BY DEF IsWrites
  <2>4. Aim(t, w)[w[i][1]] = w[c][2]
    BY <2>3 DEF Aim
  <2> QED BY <2>2, <2>4
<1>2. \A k \in Rows : (\A i \in 1..Len(w) : w[i][1] # k) => Aim(t, w)[k] = t[k]
  BY DEF Aim
<1> QED BY <1>1, <1>2

LEMMA NoWrites == /\ IsWrites(<< >>)
                  /\ \A t : t = [k \in Rows |-> t[k]] => Aim(t, << >>) = t
<1>1. << >> \in Seq({}) /\ Len(<< >>) = 0
  OBVIOUS
<1>2. IsWrites(<< >>)
  BY <1>1 DEF IsWrites
<1> QED BY <1>1, <1>2 DEF Aim

\* Lists of writes, one after the other.
Says(w, A, f) ==
    /\ IsWrites(w) /\ A \subseteq Rows
    /\ \A i \in 1..Len(w) : w[i][1] \in A /\ w[i][2] = f[w[i][1]]
    /\ \A k \in A : \E i \in 1..Len(w) : w[i][1] = k
LEMMA SaysBoth ==
    ASSUME NEW v, NEW w, NEW A, NEW B, NEW f, Says(v, A, f), Says(w, B, f), A \cap B = {}
    PROVE  Says(v \o w, A \cup B, f)
<1>1. PICK S : v \in Seq(S)
  BY DEF Says, IsWrites
<1>2. PICK R : w \in Seq(R)
  BY DEF Says, IsWrites
<1>3. v \in Seq(S \cup R) /\ w \in Seq(S \cup R)
  BY <1>1, <1>2
<1>4. PICK z : z = v \o w
  OBVIOUS
<1>5. /\ z \in Seq(S \cup R) /\ Len(z) = Len(v) + Len(w) /\ Len(v) \in Nat /\ Len(w) \in Nat
      /\ \A i \in 1..Len(v) : z[i] = v[i]
      /\ \A i \in 1..Len(w) : z[Len(v) + i] = w[i]
  BY <1>3, <1>4
<1>6. \A i \in 1..Len(z) : i \in 1..Len(v) \/ (i - Len(v) \in 1..Len(w) /\ z[i] = w[i - Len(v)])
  BY <1>5
<1>7. ASSUME NEW i \in 1..Len(z) PROVE z[i][1] \in A \cup B /\ z[i][2] = f[z[i][1]]
  <2>1. CASE i \in 1..Len(v)
    <3>1. z[i] = v[i]
      BY <1>5, <2>1
    <3> QED BY <2>1, <3>1 DEF Says
  <2>2. ASSUME NEW l \in 1..Len(w), z[i] = w[l] PROVE z[i][1] \in A \cup B /\ z[i][2] = f[z[i][1]]
    BY <2>2 DEF Says
  <2> QED BY <1>6, <2>1, <2>2
<1>8. \A k \in A \cup B : \E i \in 1..Len(z) : z[i][1] = k
  <2>1. \A k \in A : \E i \in 1..Len(z) : z[i][1] = k
    <3> SUFFICES ASSUME NEW k \in A PROVE \E i \in 1..Len(z) : z[i][1] = k
      OBVIOUS
    <3>1. PICK i \in 1..Len(v) : v[i][1] = k
      BY DEF Says
    <3> QED BY <1>5, <3>1
  <2>2. \A k \in B : \E i \in 1..Len(z) : z[i][1] = k
    <3> SUFFICES ASSUME NEW k \in B PROVE \E i \in 1..Len(z) : z[i][1] = k
      OBVIOUS
    <3>1. PICK i \in 1..Len(w) : w[i][1] = k
      BY DEF Says
    <3>2. Len(v) + i \in 1..Len(z) /\ z[Len(v) + i] = w[i]
      BY <1>5
    <3> QED BY <3>1, <3>2
  <2> QED BY <2>1, <2>2
<1>9. \A i, l \in 1..Len(z) : z[i][1] = z[l][1] => i = l
  <2> SUFFICES ASSUME NEW i \in 1..Len(z), NEW l \in 1..Len(z), z[i][1] = z[l][1] PROVE i = l
    OBVIOUS
  <2>1. CASE i \in 1..Len(v) /\ l \in 1..Len(v)
    BY <1>5, <2>1 DEF Says, IsWrites
  <2>2. CASE i - Len(v) \in 1..Len(w) /\ l - Len(v) \in 1..Len(w) /\ z[i] = w[i - Len(v)] /\ z[l] = w[l - Len(v)]
    <3>2. \A m, n \in 1..Len(w) : w[m][1] = w[n][1] => m = n
      BY DEF Says, IsWrites
    <3>3. PICK m \in 1..Len(w), n \in 1..Len(w) : m = i - Len(v) /\ n = l - Len(v)
      BY <2>2
    <3>4. w[m][1] = w[n][1]
      BY <2>2, <3>3
    <3>1. i - Len(v) = l - Len(v)
      BY <3>2, <3>3, <3>4
    <3> QED BY <1>5, <3>1
  <2>3. ASSUME NEW m \in 1..Len(v), NEW n \in 1..Len(z), n - Len(v) \in 1..Len(w), z[n] = w[n - Len(v)] PROVE z[m][1] # z[n][1]
    <3>1. z[m][1] \in A /\ z[n][1] \in B
      BY <1>5, <2>3 DEF Says
    <3> QED BY <3>1
  <2> QED BY <1>6, <2>1, <2>2, <2>3
<1>10. IsWrites(z)
  <2>1. \A i \in 1..Len(z) : z[i][1] \in Rows
    BY <1>7 DEF Says
  <2> QED BY <1>5, <1>9, <2>1 DEF IsWrites
<1> QED BY <1>4, <1>7, <1>8, <1>10 DEF Says

LEMMA SaysOne ==
    ASSUME NEW k \in Rows, NEW a
    PROVE  Says(IF k \in DOMAIN a THEN <<<<k, a[k]>>>> ELSE << >>, {k} \cap DOMAIN a, a)
<1>1. CASE k \in DOMAIN a
  <2>1. PICK w : w = <<<<k, a[k]>>>>
    OBVIOUS
  <2>2. w \in Seq({<<k, a[k]>>}) /\ Len(w) = 1 /\ w[1] = <<k, a[k]>>
    BY <2>1
  <2>3. IsWrites(w) /\ \A i \in 1..Len(w) : i = 1
    BY <2>2 DEF IsWrites
  <2>4. Says(w, {k}, a)
    BY <2>2, <2>3 DEF Says
  <2>5. {k} \cap DOMAIN a = {k}
    BY <1>1
  <2> QED BY <1>1, <2>1, <2>4, <2>5
<1>2. CASE k \notin DOMAIN a
  <2>1. Says(<< >>, {}, a)
    BY NoWrites DEF Says
  <2>2. {k} \cap DOMAIN a = {}
    BY <1>2
  <2> QED BY <1>2, <2>1, <2>2
<1> QED BY <1>1, <1>2

\* What each kind of request writes.
LEMMA WindowWrites ==
    ASSUME NEW r, r.arg \in Bodies
    PROVE  \/ putWindows(r) = << >>
           \/ /\ Says(putWindows(r), DOMAIN r.arg, r.arg)
              /\ (\A k \in {"idle", "max", "trans"} : hourVal(r.arg, r.got, k) \in Int) =>
                   /\ hourVal(r.arg, r.got, "idle") <= hourVal(r.arg, r.got, "max")
                   /\ hourVal(r.arg, r.got, "trans") <= hourVal(r.arg, r.got, "max")
<1> DEFINE eff == [k \in {"idle", "max", "trans"} |-> hourVal(r.arg, r.got, k)]
           put(k) == IF k \in DOMAIN r.arg THEN <<<<k, r.arg[k]>>>> ELSE << >>
<1>1. putWindows(r) = IF eff["max"] < eff["idle"] \/ eff["trans"] > eff["max"] THEN << >>
                      ELSE put("idle") \o put("max") \o put("trans")
  BY DEF putWindows
<1>2. DOMAIN r.arg \subseteq {"idle", "max", "trans"}
  OBVIOUS
<1>3. \A k \in {"idle", "max", "trans"} : Says(put(k), {k} \cap DOMAIN r.arg, r.arg)
  BY SaysOne DEF Rows
<1> HIDE DEF put
<1>4. Says(put("idle") \o put("max"), ({"idle"} \cap DOMAIN r.arg) \cup ({"max"} \cap DOMAIN r.arg), r.arg)
  <2>1. ({"idle"} \cap DOMAIN r.arg) \cap ({"max"} \cap DOMAIN r.arg) = {}
    OBVIOUS
  <2> QED BY <1>3, <2>1, SaysBoth
<1>5. Says(put("idle") \o put("max") \o put("trans"), DOMAIN r.arg, r.arg)
  <2>1. (({"idle"} \cap DOMAIN r.arg) \cup ({"max"} \cap DOMAIN r.arg)) \cap ({"trans"} \cap DOMAIN r.arg) = {}
    OBVIOUS
  <2>2. ({"idle"} \cap DOMAIN r.arg) \cup ({"max"} \cap DOMAIN r.arg) \cup ({"trans"} \cap DOMAIN r.arg) = DOMAIN r.arg
    BY <1>2
  <2> QED BY <1>3, <1>4, <2>1, <2>2, SaysBoth
<1>6. eff["idle"] = hourVal(r.arg, r.got, "idle") /\ eff["max"] = hourVal(r.arg, r.got, "max")
      /\ eff["trans"] = hourVal(r.arg, r.got, "trans")
  OBVIOUS
<1> HIDE DEF eff
<1> QED BY <1>1, <1>5, <1>6

LEMMA Lists ==
    /\ \A a, b, c, d : /\ IsWrites(<<a, b, c, d>>) <=> {a[1], b[1], c[1], d[1]} \subseteq Rows
                              /\ a[1] # b[1] /\ a[1] # c[1] /\ a[1] # d[1] /\ b[1] # c[1] /\ b[1] # d[1] /\ c[1] # d[1]
                       /\ Len(<<a, b, c, d>>) = 4
    /\ \A a, b : /\ IsWrites(<<a, b>>) <=> {a[1], b[1]} \subseteq Rows /\ a[1] # b[1]
                 /\ Len(<<a, b>>) = 2
    /\ \A a : (IsWrites(<<a>>) <=> a[1] \in Rows) /\ Len(<<a>>) = 1
<1>1. ASSUME NEW a, NEW b, NEW c, NEW d
      PROVE /\ IsWrites(<<a, b, c, d>>) <=> {a[1], b[1], c[1], d[1]} \subseteq Rows
                              /\ a[1] # b[1] /\ a[1] # c[1] /\ a[1] # d[1] /\ b[1] # c[1] /\ b[1] # d[1] /\ c[1] # d[1]
            /\ Len(<<a, b, c, d>>) = 4
  <2>1. PICK w : w = <<a, b, c, d>>
    OBVIOUS
  <2>2. w \in Seq({a, b, c, d}) /\ Len(w) = 4 /\ w[1] = a /\ w[2] = b /\ w[3] = c /\ w[4] = d
    BY <2>1
  <2>3. IsWrites(w) <=> {a[1], b[1], c[1], d[1]} \subseteq Rows
                              /\ a[1] # b[1] /\ a[1] # c[1] /\ a[1] # d[1] /\ b[1] # c[1] /\ b[1] # d[1] /\ c[1] # d[1]
    <3>1. 1..Len(w) = {1, 2, 3, 4}
      BY <2>2
    <3> QED BY <2>2, <3>1 DEF IsWrites
  <2> QED BY <2>1, <2>2, <2>3
<1>2. ASSUME NEW a, NEW b
      PROVE /\ IsWrites(<<a, b>>) <=> {a[1], b[1]} \subseteq Rows /\ a[1] # b[1]
            /\ Len(<<a, b>>) = 2
  <2>1. PICK w : w = <<a, b>>
    OBVIOUS
  <2>2. w \in Seq({a, b}) /\ Len(w) = 2 /\ w[1] = a /\ w[2] = b /\ 1..Len(w) = {1, 2}
    BY <2>1
  <2>3. IsWrites(w) <=> {a[1], b[1]} \subseteq Rows /\ a[1] # b[1]
    BY <2>2 DEF IsWrites
  <2> QED BY <2>1, <2>2, <2>3
<1>3. ASSUME NEW a PROVE (IsWrites(<<a>>) <=> a[1] \in Rows) /\ Len(<<a>>) = 1
  <2>1. PICK w : w = <<a>>
    OBVIOUS
  <2>2. w \in Seq({a}) /\ Len(w) = 1 /\ w[1] = a /\ 1..Len(w) = {1}
    BY <2>1
  <2> QED BY <2>1, <2>2 DEF IsWrites
<1> QED BY <1>1, <1>2, <1>3

\* Rows that have nothing to do with each other.
LEMMA OtherRows ==
    ASSUME NEW u, NEW v, Coherent(v), \A k \in {"idle", "max", "trans", "cert", "activeKey"} : u[k] = v[k]
    PROVE  Coherent(u)
  BY DEF Coherent, WindowsOrdered, IdentityMatches

LEMMA WritesShape ==
    ASSUME JobShapes, NEW j \in Slots, NEW w, w = Writes(job[j])
    PROVE  IsWrites(w) /\ (w # << >> => job[j].kind \in Mutators)
<1>1. job[j].kind \in JobKinds /\ (job[j].kind = "put" => job[j].arg \in Bodies)
  BY DEF JobShapes
<1>2. CASE job[j].kind = "put"
  <2>1. PICK r : r = job[j]
    OBVIOUS
  <2>2. w = putWindows(r) /\ r.arg \in Bodies
    BY <1>1, <1>2, <2>1 DEF Writes
  <2> QED BY <1>2, <2>2, WindowWrites, NoWrites DEF Says, Mutators
<1>3. CASE job[j].kind = "install"
  <2>1. PICK planned : planned = job[j].got["pendingKey"]
    OBVIOUS
  <2>2. w \in {<< >>, <<<<"cert", job[j].arg>>, <<"enforce", TRUE>>>>,
               <<<<"activeKey", planned>>, <<"pendingKey", Null>>, <<"cert", job[j].arg>>, <<"enforce", TRUE>>>>}
    BY <1>3, <2>1 DEF Writes, installCert
  <2>3. IsWrites(<<<<"cert", job[j].arg>>, <<"enforce", TRUE>>>>)
    BY Lists DEF Rows, MtlsRows
  <2>4. IsWrites(<<<<"activeKey", planned>>, <<"pendingKey", Null>>, <<"cert", job[j].arg>>, <<"enforce", TRUE>>>>)
    BY Lists DEF Rows, MtlsRows
  <2> QED BY <1>3, <2>2, <2>3, <2>4, NoWrites DEF Mutators
<1>4. CASE job[j].kind = "enforce"
  <2>1. w \in {<< >>, <<<<"enforce", job[j].arg>>>>}
    BY <1>4 DEF Writes, setEnforce
  <2> QED BY <1>4, <2>1, NoWrites, Lists DEF Mutators, Rows, MtlsRows
<1>5. CASE job[j].kind = "reset"
  BY <1>5, Lists DEF Writes, mtlsReset, Mutators, Rows, MtlsRows
<1>6. CASE job[j].kind \in {"site", "gateKey", "csr"}
  BY <1>6, Lists DEF Writes, startSetup, Mutators, Rows, MtlsRows
<1>7. CASE job[j].kind \in {"none", "get", "status", "outbound"}
  BY <1>7, NoWrites DEF Writes
<1> QED BY <1>1, <1>2, <1>3, <1>4, <1>5, <1>6, <1>7 DEF JobKinds, Mutators

\* One row, which no other goes with.
LEMMA LoneWrite ==
    ASSUME RowShapes, Coherent(table), NEW k \in {"site", "gate", "enforce", "pendingKey"}, NEW v,
           NEW w, w = <<<<k, v>>>>, NEW kind, NEW arg, k = "pendingKey" => kind = "csr" /\ v = arg
    PROVE  /\ Coherent(Aim(table, w)) /\ KeyMoves(w, kind, arg)
           /\ k # "site" => \A i \in 1..Len(w) : w[i][1] # "site"
<1>1. Len(w) = 1 /\ w[1] = <<k, v>> /\ IsWrites(w) /\ 1..Len(w) = {1}
  BY Lists DEF Rows, MtlsRows
<1>2. \A l \in {"idle", "max", "trans", "cert", "activeKey"} : Aim(table, w)[l] = table[l]
  BY <1>1, AimOf DEF Rows, MtlsRows
<1>3. Coherent(Aim(table, w))
  BY <1>2, OtherRows
<1>4. KeyMoves(w, kind, arg)
  BY <1>1 DEF KeyMoves
<1> QED BY <1>1, <1>3, <1>4

LEMMA NothingWritten ==
    ASSUME RowShapes, Coherent(table), NEW w, w = << >>, NEW kind, NEW arg
    PROVE  Coherent(Aim(table, w)) /\ KeyMoves(w, kind, arg) /\ \A i \in 1..Len(w) : w[i][1] # "site"
<1>1. Len(w) = 0
  OBVIOUS
<1>2. Aim(table, w) = table
  BY NoWrites DEF RowShapes
<1> QED BY <1>1, <1>2 DEF KeyMoves

\* Where each kind of request leads the rows.
LEMMA PutAim ==
    ASSUME RowShapes, NEW r, r.arg \in Bodies, Reads(r) = {}, r.kind = "put", Coherent(table),
           \A k \in DOMAIN r.got : r.got[k] = table[k], NEW w, w = Writes(r)
    PROVE  /\ Coherent(Aim(table, w)) /\ KeyMoves(w, r.kind, r.arg)
           /\ \A i \in 1..Len(w) : w[i][1] # "site"
<1> DEFINE W == {"idle", "max", "trans"}
<1>1. w = putWindows(r) /\ windowReads(r) = {}
  BY DEF Writes, Reads
<1>2. \A k \in W : k \in DOMAIN r.arg \/ (k \in DOMAIN r.got /\ r.got[k] = table[k])
  <2>1. \A k \in W : k \notin DOMAIN r.arg /\ k \notin DOMAIN r.got =>
           \E i, l \in 1..3 : Windows[l] = k /\ i < l /\ Windows[i] \notin DOMAIN r.arg \cup DOMAIN r.got
    BY <1>1 DEF windowReads, Known
  <2>2. Windows[1] = "idle" /\ Windows[2] = "max" /\ Windows[3] = "trans" /\ 1..3 = {1, 2, 3}
    BY DEF Windows
  <2>3. "idle" \in DOMAIN r.arg \cup DOMAIN r.got
    BY <2>1, <2>2
  <2>4. "max" \in DOMAIN r.arg \cup DOMAIN r.got
    BY <2>1, <2>2, <2>3
  <2>5. "trans" \in DOMAIN r.arg \cup DOMAIN r.got
    BY <2>1, <2>2, <2>3, <2>4
  <2> QED BY <2>3, <2>4, <2>5
<1>3. \A k \in W : hourVal(r.arg, r.got, k) = IF k \in DOMAIN r.arg THEN r.arg[k] ELSE Effective(k, table[k])
  BY <1>2 DEF hourVal
<1>4. \A k \in W : hourVal(r.arg, r.got, k) \in Int
  BY <1>3 DEF Effective, Coherent
<1>5. CASE w = << >>
  BY <1>5, NothingWritten
<1>6. CASE w # << >>
  <2>1. /\ Says(w, DOMAIN r.arg, r.arg)
        /\ hourVal(r.arg, r.got, "idle") <= hourVal(r.arg, r.got, "max")
        /\ hourVal(r.arg, r.got, "trans") <= hourVal(r.arg, r.got, "max")
    BY <1>1, <1>4, <1>6, WindowWrites
  <2>2. IsWrites(w) /\ \A i \in 1..Len(w) : w[i][1] \in W
    BY <2>1 DEF Says
  <2>3. PICK u : u = Aim(table, w)
    OBVIOUS
  <2>4. \A k \in W : k \in DOMAIN r.arg => u[k] = r.arg[k]
    <3> SUFFICES ASSUME NEW k \in DOMAIN r.arg PROVE u[k] = r.arg[k]
      OBVIOUS
    <3>0. PICK i \in 1..Len(w) : w[i][1] = k
      BY <2>1 DEF Says
    <3>1. w[i][1] = k /\ w[i][2] = r.arg[k]
      BY <2>1, <3>0 DEF Says
    <3> QED BY <2>2, <2>3, <3>1, AimOf
  <2>5. \A k \in W : k \notin DOMAIN r.arg => u[k] = table[k]
    <3> SUFFICES ASSUME NEW k \in W, k \notin DOMAIN r.arg PROVE u[k] = table[k]
      OBVIOUS
    <3>0. \A i \in 1..Len(w) : w[i][1] \in DOMAIN r.arg
      BY <2>1 DEF Says
    <3>1. k \in Rows /\ \A i \in 1..Len(w) : w[i][1] # k
      BY <3>0 DEF Rows
    <3> QED BY <2>2, <2>3, <3>1, AimOf
  <2>6. \A k \in {"cert", "activeKey"} : u[k] = table[k]
    BY <2>2, <2>3, AimOf DEF Rows, MtlsRows
  <2>7. \A k \in W : (u[k] = Null \/ u[k] \in Int) /\ Effective(k, u[k]) = hourVal(r.arg, r.got, k)
    BY <1>3, <2>4, <2>5 DEF Effective, Coherent
  <2>8. Coherent(u)
    BY <2>1, <2>6, <2>7 DEF Coherent, WindowsOrdered, IdentityMatches
  <2> QED BY <2>2, <2>3, <2>8 DEF KeyMoves
<1> QED BY <1>5, <1>6

LEMMA InstallAim ==
    ASSUME RowShapes, NEW r, Reads(r) = {}, r.kind = "install", Coherent(table),
           \A k \in DOMAIN r.got : r.got[k] = table[k], NEW w, w = Writes(r)
    PROVE  /\ Coherent(Aim(table, w)) /\ KeyMoves(w, r.kind, r.arg)
           /\ \A i \in 1..Len(w) : w[i][1] # "site"
<1> DEFINE planned == r.got["pendingKey"]
           held == IF planned # Null THEN planned ELSE r.got["activeKey"]
<1>1. /\ w = IF held = Null \/ ~validateCertAgainstKey(r.arg, held) THEN << >>
             ELSE IF planned = Null THEN <<<<"cert", r.arg>>, <<"enforce", TRUE>>>>
             ELSE <<<<"activeKey", planned>>, <<"pendingKey", Null>>, <<"cert", r.arg>>, <<"enforce", TRUE>>>>
      /\ installReads(r) = {}
  BY DEF Writes, Reads, installCert
<1>2. planned = table["pendingKey"] /\ (planned = Null => r.got["activeKey"] = table["activeKey"])
  BY <1>1 DEF installReads, Known
<1>3. CASE held = Null \/ ~validateCertAgainstKey(r.arg, held)
  BY <1>1, <1>3, NothingWritten
<1>4. ASSUME held # Null, validateCertAgainstKey(r.arg, held), planned = Null
      PROVE  /\ Coherent(Aim(table, w)) /\ KeyMoves(w, r.kind, r.arg)
             /\ \A i \in 1..Len(w) : w[i][1] # "site"
  <2>1. w = <<<<"cert", r.arg>>, <<"enforce", TRUE>>>> /\ r.arg.key = table["activeKey"] /\ table["pendingKey"] = Null
    BY <1>1, <1>2, <1>4 DEF validateCertAgainstKey, certInfo
  <2>2. /\ IsWrites(w) /\ Len(w) = 2 /\ 1..Len(w) = {1, 2}
        /\ w[1][1] = "cert" /\ w[1][2] = r.arg /\ w[2][1] = "enforce"
    BY <2>1, Lists DEF Rows, MtlsRows
  <2> HIDE <2>1
  <2>3. PICK u : u = Aim(table, w)
    OBVIOUS
  <2>4. u["cert"] = r.arg /\ \A k \in {"idle", "max", "trans", "activeKey"} : u[k] = table[k]
    BY <2>2, <2>3, AimOf DEF Rows, MtlsRows
  <2>5. Coherent(u)
    BY <2>1, <2>4 DEF Coherent, WindowsOrdered, IdentityMatches
  <2>6. KeyMoves(w, r.kind, r.arg)
    BY <2>1, <2>2 DEF KeyMoves
  <2> QED BY <2>2, <2>3, <2>5, <2>6
<1>5. ASSUME held # Null, validateCertAgainstKey(r.arg, held), planned # Null
      PROVE  /\ Coherent(Aim(table, w)) /\ KeyMoves(w, r.kind, r.arg)
             /\ \A i \in 1..Len(w) : w[i][1] # "site"
  <2>1. /\ w = <<<<"activeKey", planned>>, <<"pendingKey", Null>>, <<"cert", r.arg>>, <<"enforce", TRUE>>>>
        /\ r.arg.key = planned /\ planned = table["pendingKey"]
    BY <1>1, <1>2, <1>5 DEF validateCertAgainstKey, certInfo
  <2>2. /\ IsWrites(w) /\ Len(w) = 4 /\ 1..Len(w) = {1, 2, 3, 4}
        /\ w[1][1] = "activeKey" /\ w[1][2] = planned /\ w[2][1] = "pendingKey" /\ w[2][2] = Null
        /\ w[3][1] = "cert" /\ w[3][2] = r.arg /\ w[4][1] = "enforce"
    BY <2>1, Lists DEF Rows, MtlsRows
  <2>3. PICK u : u = Aim(table, w)
    OBVIOUS
  <2>7. \A i \in {1, 2, 3, 4} : u[w[i][1]] = w[i][2]
    BY <2>2, <2>3, AimOf
  <2>a. \A k \in {"idle", "max", "trans"} : k \in Rows /\ \A i \in 1..Len(w) : w[i][1] # k
    BY <2>2 DEF Rows
  <2>b. \A k \in Rows : (\A i \in 1..Len(w) : w[i][1] # k) => u[k] = table[k]
    BY <2>2, <2>3, AimOf
  <2>8. \A k \in {"idle", "max", "trans"} : u[k] = table[k]
    BY <2>a, <2>b
  <2>9. u[w[1][1]] = w[1][2] /\ u[w[3][1]] = w[3][2]
    BY <2>7
  <2>4. u["cert"] = r.arg /\ u["activeKey"] = planned /\ \A k \in {"idle", "max", "trans"} : u[k] = table[k]
    BY <2>2, <2>8, <2>9
  <2>5. Coherent(u)
    BY <2>1, <2>4 DEF Coherent, WindowsOrdered, IdentityMatches
  <2>6. KeyMoves(w, r.kind, r.arg)
    BY <2>1, <2>2 DEF KeyMoves
  <2> QED BY <2>2, <2>3, <2>5, <2>6
<1> QED BY <1>3, <1>4, <1>5

LEMMA ResetAim ==
    ASSUME RowShapes, NEW kind, NEW arg, Coherent(table), NEW w, w = mtlsReset
    PROVE  /\ Coherent(Aim(table, w)) /\ KeyMoves(w, kind, arg)
           /\ \A i \in 1..Len(w) : w[i][1] # "site"
<1>1. /\ IsWrites(w) /\ Len(w) = 4 /\ 1..Len(w) = {1, 2, 3, 4}
      /\ w[1][1] = "cert" /\ w[1][2] = Null /\ w[2][1] = "activeKey" /\ w[2][2] = Null
      /\ w[3][1] = "pendingKey" /\ w[3][2] = Null /\ w[4][1] = "enforce"
  BY Lists DEF mtlsReset, Rows, MtlsRows
<1>2. PICK u : u = Aim(table, w)
  OBVIOUS
<1>5. u[w[1][1]] = w[1][2]
  BY <1>1, <1>2, AimOf
<1>a. \A k \in {"idle", "max", "trans"} : k \in Rows /\ \A i \in 1..Len(w) : w[i][1] # k
  BY <1>1 DEF Rows
<1>b. \A k \in Rows : (\A i \in 1..Len(w) : w[i][1] # k) => u[k] = table[k]
  BY <1>1, <1>2, AimOf
<1>6. \A k \in {"idle", "max", "trans"} : u[k] = table[k]
  BY <1>a, <1>b
<1>3. u["cert"] = Null /\ \A k \in {"idle", "max", "trans"} : u[k] = table[k]
  BY <1>1, <1>5, <1>6
<1>4. Coherent(u)
  BY <1>3 DEF Coherent, WindowsOrdered, IdentityMatches
<1> QED BY <1>1, <1>2, <1>4 DEF KeyMoves

LEMMA WritesAim ==
    ASSUME SettingInv, ~torn, NEW j \in Slots, job[j].step = "reading", job[j].kind \in Mutators, Reads(job[j]) = {},
           NEW w, w = Writes(job[j])
    PROVE  /\ Coherent(Aim(table, w)) /\ KeyMoves(w, job[j].kind, job[j].arg)
           /\ job[j].kind # "site" => \A i \in 1..Len(w) : w[i][1] # "site"
           /\ job[j].kind = "site" => w = <<<<"site", job[j].arg>>>> /\ job[j].got["site"] = table["site"]
<1>0. JobShapes /\ RowShapes /\ CleanAlone /\ Calm
  BY DEF SettingInv
<1>1. Mutating(j) /\ Undisturbed(j)
  BY DEF Mutating, Busy, Undisturbed
<1>2. \A k \in DOMAIN job[j].got : job[j].got[k] = table[k]
  BY <1>0, <1>1 DEF Calm, ReadTrue
<1>3. Coherent(table)
  <2>1. Coherent(Aim(table, job[j].writes)) /\ job[j].writes = << >>
    BY <1>0, <1>1 DEF Calm, AimsWell, JobShapes
  <2>2. Aim(table, job[j].writes) = table
    BY <1>0, <2>1, NoWrites DEF RowShapes
  <2> QED BY <2>1, <2>2
<1>4. CASE job[j].kind = "put"
  BY <1>0, <1>2, <1>3, <1>4, PutAim DEF JobShapes
<1>5. CASE job[j].kind = "install"
  BY <1>0, <1>2, <1>3, <1>5, InstallAim
<1>6. CASE job[j].kind = "reset"
  <2>1. w = mtlsReset
    BY <1>6 DEF Writes
  <2> QED BY <1>0, <1>3, <1>6, <2>1, ResetAim
<1>7. CASE job[j].kind = "enforce"
  <2>1. w = << >> \/ w = <<<<"enforce", job[j].arg>>>>
    BY <1>7 DEF Writes, setEnforce
  <2>2. CASE w = << >>
    BY <1>0, <1>3, <1>7, <2>2, NothingWritten
  <2>3. CASE w = <<<<"enforce", job[j].arg>>>>
    BY <1>0, <1>3, <1>7, <2>3, LoneWrite
  <2> QED BY <2>1, <2>2, <2>3
<1>8. CASE job[j].kind = "csr"
  <2>1. w = <<<<"pendingKey", job[j].arg>>>>
    BY <1>8 DEF Writes, startSetup
  <2> QED BY <1>0, <1>3, <1>8, <2>1, LoneWrite
<1>9. CASE job[j].kind = "gateKey"
  <2>1. w = <<<<"gate", job[j].arg>>>>
    BY <1>9 DEF Writes
  <2> QED BY <1>0, <1>3, <1>9, <2>1, LoneWrite
<1>10. CASE job[j].kind = "site"
  <2>1. w = <<<<"site", job[j].arg>>>>
    BY <1>10 DEF Writes
  <2>2. "site" \in DOMAIN job[j].got
    BY <1>10 DEF Reads, Known
  <2> QED BY <1>0, <1>2, <1>3, <1>10, <2>1, <2>2, LoneWrite
<1> QED BY <1>4, <1>5, <1>6, <1>7, <1>8, <1>9, <1>10 DEF Mutators

LEMMA DecideOK == ASSUME SettingInv, NEW j \in Slots, Decide(j) PROVE SettingInv'
<1>0. JobShapes /\ RowShapes /\ CleanAlone /\ (~torn => Calm)
  BY DEF SettingInv
<1>1. /\ job[j].step = "reading" /\ job[j].kind # "outbound" /\ Reads(job[j]) = {} /\ IsJob(job[j])
      /\ job[j].writes = << >>
      /\ UNCHANGED <<table, cache, agent, made, spreading, toldName, missed, torn>>
  BY <1>0 DEF Decide, JobShapes
<1>2. PICK w : w = Writes(job[j])
  OBVIOUS
<1> DEFINE p == [job[j] EXCEPT !.step = "writing", !.writes = w]
<1>3. job' = [job EXCEPT ![j] = p]
  BY <1>0, <1>2 DEF Decide, JobShapes
<1>4. IsJob(p) /\ p.step = "writing" /\ p.writes = w /\ \A f \in {"kind", "arg", "got", "sel", "valid", "clean"} : p[f] = job[j][f]
  BY <1>1 DEF IsJob
<1> HIDE DEF p
<1>5. job' = [i \in Slots |-> job'[i]] /\ job'[j] = p /\ \A i \in Slots : i # j => job'[i] = job[i]
  BY <1>0, <1>3, JobWritten
<1>6. \A i \in Slots : /\ job'[i].kind = job[i].kind /\ (job'[i].step = "idle" <=> job[i].step = "idle")
                       /\ job'[i].clean = job[i].clean /\ job'[i].arg = job[i].arg /\ job'[i].got = job[i].got
                       /\ job'[i].sel = job[i].sel
  BY <1>1, <1>4, <1>5
<1>7. /\ \A i \in Slots : (Mutating(i)' <=> Mutating(i)) /\ (Busy(i)' <=> Busy(i))
      /\ CleanAlone' /\ (OneMutator => OneMutator')
  BY <1>0, <1>6, Roles
<1>8. IsWrites(w) /\ (w # << >> => job[j].kind \in Mutators)
  BY <1>0, <1>2, WritesShape
<1>9. JobShapes'
  BY <1>0, <1>4, <1>5, <1>8 DEF JobShapes
<1>10. RowShapes'
  BY <1>0, <1>1 DEF RowShapes
<1>11. ASSUME ~torn PROVE Calm'
  <2>0. /\ OneMutator /\ CacheTrue /\ WrittenTrue /\ ReadTrue /\ AimsWell /\ NameFollows
        /\ ArgsFit /\ KeysMove /\ CertsSpent /\ IdentitiesFit
    BY <1>0, <1>11 DEF Calm
  <2>1. \A k : WrittenAt(k)' <=> WrittenAt(k)
    BY <1>1, <1>4, <1>5 DEF WrittenAt
  <2>2. CacheTrue'
    BY <1>1, <1>4, <1>5, <2>0, <2>1 DEF CacheTrue
  <2>3. WrittenTrue'
    BY <1>1, <1>4, <1>5, <2>0 DEF WrittenTrue
  <2>4. ReadTrue'
    BY <1>1, <1>4, <1>5, <1>7, <2>0 DEF ReadTrue, Undisturbed
  <2>5. Mutating(j) <=> job[j].kind \in Mutators
    BY <1>1 DEF Mutating, Busy
  <2>6. Mutating(j) => /\ Coherent(Aim(table, w)) /\ KeyMoves(w, job[j].kind, job[j].arg)
                       /\ job[j].kind # "site" => \A i \in 1..Len(w) : w[i][1] # "site"
                       /\ job[j].kind = "site" => w = <<<<"site", job[j].arg>>>> /\ job[j].got["site"] = table["site"]
    BY <1>1, <1>2, <1>11, <2>5, WritesAim
  <2>7. \A v : Coherent(v)' <=> Coherent(v)
    BY DEF Coherent, WindowsOrdered, IdentityMatches
  <2>8. Aim(table, job[j].writes)' = Aim(table, w) /\ \A i \in Slots : i # j => Aim(table, job[i].writes)' = Aim(table, job[i].writes)
    <3>1. table' = table /\ job'[j].writes = w /\ \A i \in Slots : i # j => job'[i].writes = job[i].writes
      BY <1>1, <1>4, <1>5
    <3> QED BY <3>1
  <2>9. AimsWell'
    BY <1>1, <1>7, <2>0, <2>6, <2>8 DEF AimsWell
  <2>10. NameFollows'
    <3>1. CASE job[j].kind = "site"
      <4>1. Mutating(j) /\ \A i \in Slots : i # j => ~Mutating(i)
        BY <2>0, <2>5, <3>1 DEF OneMutator, Mutators
      <4>2. \A i \in Slots : ~Naming(i)
        BY <1>1, <4>1 DEF Naming, Mutating, Busy, Mutators
      <4>3. Announced(table["site"]) /\ w # << >>
        <5>1. w[1] = <<"site", job[j].arg>> /\ Len(w) = 1
          BY <2>6, <3>1, <4>1
        <5> QED BY <2>0, <4>2, <5>1 DEF NameFollows
      <4>4. \A i \in Slots : Naming(i)' <=> i = j
        BY <1>4, <1>5, <3>1, <4>2 DEF Naming
      <4>5. \A n : Announced(n)' <=> Announced(n)
        BY <1>1 DEF Announced
      <4>6. \A i \in Slots : Mutating(i)' => i = j
        BY <1>7, <4>1
      <4> QED BY <1>1, <1>4, <1>5, <2>6, <3>1, <4>1, <4>3, <4>4, <4>5, <4>6 DEF NameFollows
    <3>2. CASE job[j].kind # "site"
      <4>1. \A i \in Slots : Naming(i)' <=> Naming(i)
        BY <1>4, <1>5, <3>2 DEF Naming
      <4>2. ~Naming(j)
        BY <3>2 DEF Naming
      <4>3. \A n : Announced(n)' <=> Announced(n)
        BY <1>1 DEF Announced
      <4> QED BY <1>1, <1>4, <1>5, <1>7, <2>0, <2>6, <3>2, <4>1, <4>2, <4>3 DEF NameFollows
    <3> QED BY <3>1, <3>2
  <2>11. ArgsFit'
    BY <1>1, <1>6, <2>0 DEF ArgsFit
  <2>12. KeysMove'
    <3>1. \A v, kind, arg : KeyMoves(v, kind, arg)' <=> KeyMoves(v, kind, arg)
      BY <1>1 DEF KeyMoves
    <3> QED BY <1>1, <1>4, <1>5, <1>7, <2>0, <2>6, <3>1 DEF KeysMove
  <2>13. \A c : Spent(c)' <=> Spent(c)
    BY <1>1, <1>6, <1>7 DEF Spent
  <2>14. CertsSpent'
    BY <1>1, <1>6, <1>7, <2>0, <2>13 DEF CertsSpent
  <2>15. \A c, k : Fits(c, k)' <=> Fits(c, k)
    BY <1>1 DEF Fits
  <2>16. IdentitiesFit'
    BY <1>1, <1>4, <1>5, <1>6, <1>7, <2>0, <2>15 DEF IdentitiesFit
  <2> QED BY <1>7, <2>0, <2>2, <2>3, <2>4, <2>9, <2>10, <2>11, <2>12, <2>14, <2>16 DEF Calm
<1> QED BY <1>1, <1>7, <1>9, <1>10, <1>11 DEF SettingInv

LEMMA AimKept ==
    ASSUME NEW t, NEW u, NEW w, IsWrites(w), t = [k \in Rows |-> t[k]], w # << >>,
           u = [t EXCEPT ![w[1][1]] = w[1][2]]
    PROVE  Aim(u, w) = Aim(t, w)
<1>1. 1 \in 1..Len(w)
  BY DEF IsWrites
<1>2. \A k \in Rows : (\A i \in 1..Len(w) : w[i][1] # k) => u[k] = t[k]
  BY <1>1 DEF IsWrites
<1> QED BY <1>2 DEF Aim

LEMMA FirstMove ==
    ASSUME NEW w, NEW kind, NEW arg, KeyMoves(w, kind, arg), 1 \in 1..Len(w)
    PROVE  /\ w[1][1] = "pendingKey" => \A i \in 1..Len(w) : w[i][1] # "activeKey"
           /\ w[1][1] = "cert" /\ w[1][2] # Null => \A i \in 1..Len(w) : w[i][1] # "pendingKey"
<1>1. \A i \in 1..Len(w) : /\ w[i][1] = "activeKey" /\ w[1][1] = "pendingKey" => i < 1
                           /\ w[i][1] = "pendingKey" /\ w[1][1] = "cert" /\ w[1][2] # Null => i < 1
  BY DEF KeyMoves
<1>2. \A i \in 1..Len(w) : ~(i < 1)
  OBVIOUS
<1> QED BY <1>1, <1>2

LEMMA writeRowOK == ASSUME SettingInv, NEW j \in Slots, writeRow(j) PROVE SettingInv'
<1>0. JobShapes /\ RowShapes /\ CleanAlone /\ (~torn => Calm)
  BY DEF SettingInv
<1>1. /\ job[j].step = "writing" /\ IsJob(job[j]) /\ job[j].writes # << >> /\ IsWrites(job[j].writes)
      /\ job[j].kind \in Mutators
      /\ UNCHANGED <<cache, agent, made, spreading, toldName, missed, torn>>
  BY <1>0 DEF writeRow, JobShapes
<1>2. PICK w : w = job[j].writes
  OBVIOUS
<1>2a. 1 \in 1..Len(w) /\ Head(w) = w[1]
  BY <1>1, <1>2 DEF IsWrites
<1>2b. PICK k \in Rows : k = w[1][1]
  BY <1>1, <1>2, <1>2a DEF IsWrites
<1>2c. PICK x : x = w[1][2]
  OBVIOUS
<1>2d. table' = [table EXCEPT ![k] = x]
  BY <1>2, <1>2a, <1>2b, <1>2c DEF writeRow
<1>2e. /\ table' = [l \in Rows |-> table'[l]] /\ table'[k] = x /\ \A l \in Rows : l # k => table'[l] = table[l]
  BY <1>0, <1>2d DEF RowShapes
<1> DEFINE p == [job[j] EXCEPT !.step = "written"]
<1>3. job' = [job EXCEPT ![j] = p]
  BY <1>0 DEF writeRow, JobShapes
<1>4. IsJob(p) /\ p.step = "written" /\ \A f \in {"kind", "arg", "got", "writes", "sel", "valid", "clean"} : p[f] = job[j][f]
  BY <1>1 DEF IsJob
<1> HIDE DEF p
<1>5. job' = [i \in Slots |-> job'[i]] /\ job'[j] = p /\ \A i \in Slots : i # j => job'[i] = job[i]
  BY <1>0, <1>3, JobWritten
<1>6. \A i \in Slots : /\ job'[i].kind = job[i].kind /\ (job'[i].step = "idle" <=> job[i].step = "idle")
                       /\ job'[i].clean = job[i].clean /\ job'[i].arg = job[i].arg /\ job'[i].got = job[i].got
                       /\ job'[i].sel = job[i].sel /\ job'[i].writes = job[i].writes
  BY <1>1, <1>4, <1>5
<1>7. /\ \A i \in Slots : (Mutating(i)' <=> Mutating(i)) /\ (Busy(i)' <=> Busy(i))
      /\ CleanAlone' /\ (OneMutator => OneMutator')
  BY <1>0, <1>6, Roles
<1>8. JobShapes'
  BY <1>0, <1>1, <1>4, <1>5 DEF JobShapes
<1>9. RowShapes'
  BY <1>0, <1>1, <1>2e DEF RowShapes
<1>10. Mutating(j)
  BY <1>1 DEF Mutating, Busy
<1>11. ASSUME ~torn PROVE Calm'
  <2>0. /\ OneMutator /\ CacheTrue /\ WrittenTrue /\ ReadTrue /\ AimsWell /\ NameFollows
        /\ ArgsFit /\ KeysMove /\ CertsSpent /\ IdentitiesFit
    BY <1>0, <1>11 DEF Calm
  <2>1. \A i \in Slots : i # j => ~Mutating(i)
    BY <1>10, <2>0 DEF OneMutator
  <2>2. \A i \in Slots : job[i].step # "written"
    BY <1>0, <1>1, <2>1 DEF JobShapes, Mutating, Busy
  <2>3. CacheTrue'
    <3>1. WrittenAt(k)'
      BY <1>2, <1>2b, <1>4, <1>5 DEF WrittenAt
    <3>2. \A l : ~WrittenAt(l)
      BY <2>2 DEF WrittenAt
    <3>3. \A i \in Slots : job'[i].step = "select" => job'[i] = job[i] /\ job[i].sel \in Rows
      BY <1>0, <1>4, <1>5 DEF JobShapes
    <3> QED BY <1>1, <1>2e, <2>0, <3>1, <3>2, <3>3 DEF CacheTrue
  <2>4. WrittenTrue'
    BY <1>2, <1>2b, <1>2c, <1>2e, <1>4, <1>5, <2>2 DEF WrittenTrue
  <2>5. ReadTrue'
    <3>1. \A i \in Slots : ~Undisturbed(i)'
      BY <1>0, <1>4, <1>5, <1>6, <1>7, <1>10, <2>1 DEF Undisturbed, CleanAlone, Busy
    <3> QED BY <3>1 DEF ReadTrue
  <2>6. AimsWell'
    <3>1. Aim(table', w) = Aim(table, w)
      BY <1>0, <1>1, <1>2, <1>2b, <1>2c, <1>2d, AimKept DEF RowShapes
    <3>2. Aim(table, job[j].writes)' = Aim(table, w)
      BY <1>2, <1>6, <3>1
    <3>3. \A v : Coherent(v)' <=> Coherent(v)
      BY DEF Coherent, WindowsOrdered, IdentityMatches
    <3> QED BY <1>2, <1>7, <1>10, <2>0, <2>1, <3>2, <3>3 DEF AimsWell
  <2>7. NameFollows'
    <3>0. \A n : Announced(n)' <=> Announced(n)
      BY <1>1 DEF Announced
    <3>1. \A i \in Slots : Naming(i)' <=> Naming(i)
      BY <1>1, <1>4, <1>5 DEF Naming
    <3>2. \A i \in Slots : Naming(i) => i = j
      BY <2>1 DEF Naming, Mutating, Busy, Mutators
    <3>3. CASE job[j].kind = "site"
      <4>1. Naming(j)
        BY <1>1, <3>3 DEF Naming
      <4> QED BY <1>1, <1>6, <1>7, <2>0, <2>1, <3>0, <3>1, <3>2, <3>3, <4>1 DEF NameFollows
    <3>4. CASE job[j].kind # "site"
      <4>1. k # "site"
        BY <1>2, <1>2a, <1>2b, <1>10, <2>0, <3>4 DEF NameFollows
      <4>2. table'["site"] = table["site"]
        BY <1>2e, <4>1 DEF Rows
      <4> QED BY <1>6, <1>7, <2>0, <3>0, <3>1, <4>2 DEF NameFollows
    <3> QED BY <3>3, <3>4
  <2>8. ArgsFit'
    BY <1>1, <1>6, <2>0 DEF ArgsFit
  <2>9. KeyMoves(w, job[j].kind, job[j].arg)
    BY <1>2, <1>10, <2>0 DEF KeysMove
  <2>10. KeysMove'
    <3>1. KeyMoves(w, job[j].kind, job[j].arg)'
      <4>1. CASE k = "pendingKey"
        <5>1. \A i \in 1..Len(w) : w[i][1] # "activeKey"
          BY <1>2a, <1>2b, <2>9, <4>1, FirstMove
        <5>2. \E i \in 1..Len(w) : w[i][1] = "pendingKey"
          BY <1>2a, <1>2b, <4>1
        <5> QED BY <1>6, <2>9, <5>1, <5>2 DEF KeyMoves
      <4>2. CASE k # "pendingKey"
        <5>1. table'["pendingKey"] = table["pendingKey"]
          BY <1>2e, <4>2 DEF Rows, MtlsRows
        <5> QED BY <1>6, <2>9, <5>1 DEF KeyMoves
      <4> QED BY <4>1, <4>2
    <3> QED BY <1>2, <1>6, <1>7, <2>1, <3>1 DEF KeysMove
  <2>11. \A c : Spent(c) => Spent(c)'
    <3> SUFFICES ASSUME NEW c, Spent(c), c # Null PROVE Spent(c)'
      BY DEF Spent
    <3>1. c.key \in Nat /\ c.key <= made /\ c.key # table["pendingKey"] /\ (job[j].kind = "csr" => c.key # job[j].arg)
      BY <1>10 DEF Spent
    <3>2. c.key # table'["pendingKey"]
      <4>1. CASE k = "pendingKey"
        <5>1. x = Null \/ (job[j].kind = "csr" /\ x = job[j].arg)
          BY <1>2a, <1>2b, <1>2c, <2>9, <4>1 DEF KeyMoves
        <5> QED BY <1>2e, <3>1, <4>1, <5>1
      <4>2. CASE k # "pendingKey"
        BY <1>2e, <3>1, <4>2 DEF Rows, MtlsRows
      <4> QED BY <4>1, <4>2
    <3> QED BY <1>1, <1>6, <1>7, <3>1, <3>2 DEF Spent
  <2>12. CertsSpent'
    <3>1. Spent(table["cert"])'
      <4>1. CASE k = "cert"
        <5>1. x = Null \/ /\ job[j].kind = "install" /\ x = job[j].arg /\ table["pendingKey"] = Null
          <6>1. x # Null => \A i \in 1..Len(w) : w[i][1] # "pendingKey"
            BY <1>2a, <1>2b, <1>2c, <2>9, <4>1, FirstMove
          <6>2. w[1][1] = "cert" /\ w[1][2] # Null =>
                  /\ job[j].kind = "install" /\ w[1][2] = job[j].arg
                  /\ (\E l \in 1..Len(w) : w[l][1] = "pendingKey") \/ table["pendingKey"] = Null
            BY <1>2a, <2>9 DEF KeyMoves
          <6> QED BY <1>2b, <1>2c, <4>1, <6>1, <6>2
        <5>2. x = Null \/ /\ x.key \in Nat /\ x.key <= made
          BY <2>0, <5>1 DEF ArgsFit
        <5>3. table'["pendingKey"] = table["pendingKey"] /\ table'["cert"] = x
          BY <1>2e, <4>1 DEF Rows, MtlsRows
        <5> QED BY <1>1, <1>6, <1>7, <2>1, <5>1, <5>2, <5>3 DEF Spent
      <4>2. CASE k # "cert"
        <5>1. table'["cert"] = table["cert"]
          BY <1>2e, <4>2 DEF Rows, MtlsRows
        <5>2. PICK c : c = table["cert"]
          OBVIOUS
        <5> QED BY <2>0, <2>11, <5>1, <5>2 DEF CertsSpent, Spent
      <4> QED BY <4>1, <4>2
    <3>2. cache["cert"]' = cache["cert"] /\ agent' = agent
      BY <1>1
    <3>3. ASSUME NEW i \in Slots, Busy(i), "cert" \in DOMAIN job[i].got PROVE Spent(job[i].got["cert"])'
      <4>1. PICK c : c = job[i].got["cert"]
        OBVIOUS
      <4> QED BY <1>6, <2>0, <2>11, <3>3, <4>1 DEF CertsSpent, Spent
    <3>4. cache["cert"] = Absent \/ Spent(cache["cert"])'
      <4>1. PICK c : c = cache["cert"]
        OBVIOUS
      <4> QED BY <2>0, <2>11, <3>2, <4>1 DEF CertsSpent, Spent
    <3>5. agent = Null \/ Spent(agent.cert)'
      <4>1. PICK c : c = agent.cert
        OBVIOUS
      <4> QED BY <2>0, <2>11, <3>2, <4>1 DEF CertsSpent, Spent
    <3> QED BY <1>6, <1>7, <3>1, <3>2, <3>3, <3>4, <3>5 DEF CertsSpent
  <2>13. ASSUME NEW c, NEW y, Spent(c), Fits(c, y) PROVE Fits(c, y)'
    <3>1. CASE k = "activeKey"
      <4>1. x \in {Null, table["pendingKey"]} /\ table'["activeKey"] = x
        BY <1>2a, <1>2b, <1>2c, <1>2e, <2>9, <3>1 DEF KeyMoves
      <4>2. c = Null \/ c.key # x
        BY <2>13, <4>1 DEF Spent
      <4> QED BY <4>1, <4>2 DEF Fits
    <3>2. CASE k # "activeKey"
      <4>1. table'["activeKey"] = table["activeKey"]
        BY <1>2e, <3>2 DEF Rows, MtlsRows
      <4> QED BY <2>13, <4>1 DEF Fits
    <3> QED BY <3>1, <3>2
  <2>14. IdentitiesFit'
    <3>1. \A i \in Slots : Busy(i) /\ job[i].kind = "outbound" /\ "activeKey" \in DOMAIN job[i].got =>
            "cert" \in DOMAIN job[i].got /\ Fits(job[i].got["cert"], job[i].got["activeKey"])'
      <4> SUFFICES ASSUME NEW i \in Slots, Busy(i), job[i].kind = "outbound", "activeKey" \in DOMAIN job[i].got
                   PROVE "cert" \in DOMAIN job[i].got /\ Fits(job[i].got["cert"], job[i].got["activeKey"])'
        OBVIOUS
      <4>1. PICK c, y : c = job[i].got["cert"] /\ y = job[i].got["activeKey"]
        OBVIOUS
      <4>2. "cert" \in DOMAIN job[i].got /\ Fits(c, y) /\ Spent(c)
        BY <2>0, <4>1 DEF IdentitiesFit, CertsSpent
      <4>3. Fits(c, y)'
        BY <2>13, <4>2
      <4> QED BY <1>6, <4>1, <4>2, <4>3 DEF Fits
    <3>2. agent = Null \/ (agent.cert # Null /\ agent.key # Null /\ Fits(agent.cert, agent.key)')
      <4>1. PICK c, y : c = agent.cert /\ y = agent.key
        OBVIOUS
      <4>2. agent = Null \/ (c # Null /\ y # Null /\ Fits(c, y) /\ Spent(c))
        BY <2>0, <4>1 DEF IdentitiesFit, CertsSpent
      <4>3. agent = Null \/ Fits(c, y)'
        BY <2>13, <4>2
      <4> QED BY <1>1, <4>1, <4>2, <4>3 DEF Fits
    <3>3. \A i \in Slots : job'[i].step = "sent" => job'[i] = job[i]
      BY <1>4, <1>5
    <3> QED BY <1>1, <1>6, <1>7, <2>0, <3>1, <3>2, <3>3 DEF IdentitiesFit
  <2> QED BY <1>7, <2>0, <2>3, <2>4, <2>5, <2>6, <2>7, <2>8, <2>10, <2>12, <2>14 DEF Calm
<1> QED BY <1>1, <1>7, <1>8, <1>9, <1>11 DEF SettingInv

\* What is left of a list.
Leaves(v, w) ==
    /\ IsWrites(v) /\ 1 \in 1..Len(w)
    /\ \A i \in 1..Len(v) : i + 1 \in 1..Len(w) /\ v[i] = w[i + 1]
    /\ \A i \in 1..Len(w) : i = 1 \/ (i - 1 \in 1..Len(v) /\ w[i] = v[i - 1])
LEMMA TailOf == ASSUME NEW w, IsWrites(w), w # << >>, NEW v, v = Tail(w) PROVE Leaves(v, w)
<1>1. PICK S : w \in Seq(S)
  BY DEF IsWrites
<1>2. /\ v \in Seq(S) /\ Len(v) = Len(w) - 1 /\ Len(w) \in Nat \ {0}
      /\ \A i \in 1..Len(v) : v[i] = w[i + 1]
  BY <1>1
<1>3. \A i \in 1..Len(v) : i + 1 \in 1..Len(w) /\ v[i] = w[i + 1]
  BY <1>2
<1>4. \A i \in 1..Len(w) : i = 1 \/ (i - 1 \in 1..Len(v) /\ w[i] = v[i - 1])
  BY <1>2
<1>5. \A i, l \in 1..Len(v) : v[i][1] = v[l][1] => i = l
  <2> SUFFICES ASSUME NEW i \in 1..Len(v), NEW l \in 1..Len(v), v[i][1] = v[l][1] PROVE i = l
    OBVIOUS
  <2>1. i + 1 = l + 1
    BY <1>3 DEF IsWrites
  <2> QED BY <1>2, <2>1
<1>6. \A i \in 1..Len(v) : v[i][1] \in Rows
  BY <1>3 DEF IsWrites
<1>7. IsWrites(v)
  BY <1>2, <1>5, <1>6 DEF IsWrites
<1> QED BY <1>2, <1>3, <1>4, <1>7 DEF Leaves

LEMMA AimLeft ==
    ASSUME NEW t, NEW w, IsWrites(w), NEW v, Leaves(v, w), t[w[1][1]] = w[1][2]
    PROVE  Aim(t, v) = Aim(t, w)
<1>1. /\ IsWrites(v) /\ 1 \in 1..Len(w)
      /\ \A i \in 1..Len(v) : i + 1 \in 1..Len(w) /\ v[i] = w[i + 1]
      /\ \A i \in 1..Len(w) : i = 1 \/ (i - 1 \in 1..Len(v) /\ w[i] = v[i - 1])
  BY DEF Leaves
<1>a. \A i \in 1..Len(v) : Aim(t, v)[v[i][1]] = v[i][2]
  BY <1>1, AimOf
<1>b. \A k \in Rows : (\A i \in 1..Len(v) : v[i][1] # k) => Aim(t, v)[k] = t[k]
  BY <1>1, AimOf
<1>c. \A i \in 1..Len(w) : Aim(t, w)[w[i][1]] = w[i][2]
  BY AimOf
<1>d. \A k \in Rows : (\A i \in 1..Len(w) : w[i][1] # k) => Aim(t, w)[k] = t[k]
  BY AimOf
<1>2. ASSUME NEW k \in Rows PROVE Aim(t, v)[k] = Aim(t, w)[k]
  <2>1. CASE \E i \in 1..Len(v) : v[i][1] = k
    <3>1. PICK i \in 1..Len(v) : v[i][1] = k
      BY <2>1
    <3>2. Aim(t, v)[k] = v[i][2]
      BY <1>a, <3>1
    <3>3. i + 1 \in 1..Len(w) /\ w[i + 1] = v[i]
      BY <1>1
    <3>4. Aim(t, w)[k] = w[i + 1][2]
      BY <1>c, <3>1, <3>3
    <3> QED BY <3>2, <3>3, <3>4
  <2>2. CASE \A i \in 1..Len(v) : v[i][1] # k
    <3>1. Aim(t, v)[k] = t[k]
      BY <1>b, <2>2
    <3>2. CASE w[1][1] = k
      <4>1. Aim(t, w)[k] = w[1][2]
        BY <1>1, <1>c, <3>2
      <4> QED BY <3>1, <3>2, <4>1
    <3>3. CASE w[1][1] # k
      <4>1. \A i \in 1..Len(w) : w[i][1] # k
        BY <1>1, <2>2, <3>3
      <4> QED BY <1>d, <3>1, <4>1
    <3> QED BY <3>2, <3>3
  <2> QED BY <2>1, <2>2
<1>3. Aim(t, v) = [k \in Rows |-> Aim(t, v)[k]] /\ Aim(t, w) = [k \in Rows |-> Aim(t, w)[k]]
  BY DEF Aim
<1> QED BY <1>2, <1>3

LEMMA MovesLeft ==
    ASSUME NEW w, IsWrites(w), NEW v, Leaves(v, w), NEW kind, NEW arg, KeyMoves(w, kind, arg),
           table[w[1][1]] = w[1][2]
    PROVE  KeyMoves(v, kind, arg)
<1>1. /\ IsWrites(v) /\ 1 \in 1..Len(w)
      /\ \A i \in 1..Len(v) : i + 1 \in 1..Len(w) /\ v[i] = w[i + 1]
      /\ \A i \in 1..Len(w) : i = 1 \/ (i - 1 \in 1..Len(v) /\ w[i] = v[i - 1])
  BY DEF Leaves
<1>2. ASSUME NEW i \in 1..Len(v)
      PROVE  /\ v[i][1] = "activeKey" => v[i][2] \in {Null, table["pendingKey"]}
             /\ v[i][1] = "pendingKey" => v[i][2] = Null \/ (kind = "csr" /\ v[i][2] = arg)
             /\ v[i][1] = "cert" /\ v[i][2] # Null =>
                  /\ kind = "install" /\ v[i][2] = arg
                  /\ (\E l \in 1..Len(w) : w[l][1] = "pendingKey") \/ table["pendingKey"] = Null
  <2>1. i + 1 \in 1..Len(w) /\ v[i] = w[i + 1]
    BY <1>1
  <2>2. PICK n \in 1..Len(w) : v[i] = w[n]
    BY <2>1
  <2> QED BY <2>2 DEF KeyMoves
<1>3. kind = "install" /\ (\E l \in 1..Len(w) : w[l][1] = "pendingKey") =>
        (\E l \in 1..Len(v) : v[l][1] = "pendingKey") \/ table["pendingKey"] = Null
  <2> SUFFICES ASSUME kind = "install", NEW l \in 1..Len(w), w[l][1] = "pendingKey"
               PROVE  (\E m \in 1..Len(v) : v[m][1] = "pendingKey") \/ table["pendingKey"] = Null
    OBVIOUS
  <2>1. w[l][2] = Null
    BY DEF KeyMoves
  <2>2. CASE l = 1
    BY <2>1, <2>2
  <2>3. CASE l # 1
    BY <1>1, <2>3
  <2> QED BY <2>2, <2>3
<1>4. ASSUME NEW i \in 1..Len(v), NEW l \in 1..Len(v)
      PROVE  /\ v[i][1] = "activeKey" /\ v[l][1] = "pendingKey" => i < l
             /\ v[i][1] = "pendingKey" /\ v[l][1] = "cert" /\ v[l][2] # Null => i < l
  <2>1. i + 1 \in 1..Len(w) /\ v[i] = w[i + 1] /\ l + 1 \in 1..Len(w) /\ v[l] = w[l + 1]
    BY <1>1
  <2>2. PICK m, n : m = i + 1 /\ n = l + 1
    OBVIOUS
  <2>3. /\ w[m][1] = "activeKey" /\ w[n][1] = "pendingKey" => m < n
        /\ w[m][1] = "pendingKey" /\ w[n][1] = "cert" /\ w[n][2] # Null => m < n
    <3>1. m \in 1..Len(w) /\ n \in 1..Len(w)
      BY <2>1, <2>2
    <3> QED BY <3>1 DEF KeyMoves
  <2>4. m < n => i < l
    BY <2>2
  <2> QED BY <2>1, <2>2, <2>3, <2>4
<1> QED BY <1>2, <1>3, <1>4 DEF KeyMoves

LEMMA writeRawOK == ASSUME SettingInv, NEW j \in Slots, writeRaw(j) PROVE SettingInv'
<1>0. JobShapes /\ RowShapes /\ CleanAlone /\ (~torn => Calm)
  BY DEF SettingInv
<1>1. /\ job[j].step = "written" /\ IsJob(job[j]) /\ job[j].writes # << >> /\ IsWrites(job[j].writes)
      /\ job[j].kind \in Mutators
      /\ UNCHANGED <<table, agent, made, spreading, toldName, missed, torn>>
  BY <1>0 DEF writeRaw, JobShapes
<1>2. PICK w, v : w = job[j].writes /\ v = Tail(w)
  OBVIOUS
<1>2a. Leaves(v, w)
  BY <1>1, <1>2, TailOf
<1>2b. 1 \in 1..Len(w) /\ Head(w) = w[1]
  BY <1>1, <1>2, <1>2a DEF IsWrites, Leaves
<1>2c. PICK k \in Rows : k = w[1][1]
  BY <1>1, <1>2, <1>2b DEF IsWrites
<1>2d. PICK x : x = w[1][2]
  OBVIOUS
<1>2e. cache' = [cache EXCEPT ![k] = x] /\ job' = [invalidateSettingCache(k) EXCEPT ![j].step = "writing", ![j].writes = Tail(@)]
  BY <1>2, <1>2b, <1>2c, <1>2d DEF writeRaw
<1>2f. /\ cache' = [l \in Rows |-> cache'[l]] /\ cache'[k] = x /\ \A l \in Rows : l # k => cache'[l] = cache[l]
  BY <1>0, <1>2e DEF RowShapes
<1>3. /\ job' = [i \in Slots |-> job'[i]]
      /\ \A i \in Slots : i # j => job'[i] = IF job[i].step = "select" /\ job[i].sel = k
                                             THEN [job[i] EXCEPT !.valid = FALSE] ELSE job[i]
      /\ job'[j] = [job[j] EXCEPT !.step = "writing", !.writes = v]
  BY <1>1, <1>2, <1>2e DEF invalidateSettingCache
<1>4. IsJob(job'[j]) /\ job'[j].step = "writing" /\ job'[j].writes = v /\ \A f \in {"kind", "arg", "got", "sel", "valid", "clean"} : job'[j][f] = job[j][f]
  <2> DEFINE p == [job[j] EXCEPT !.step = "writing", !.writes = v]
  <2>1. IsJob(p) /\ p.step = "writing" /\ p.writes = v /\ \A f \in {"kind", "arg", "got", "sel", "valid", "clean"} : p[f] = job[j][f]
    BY <1>1 DEF IsJob
  <2>2. job'[j] = p
    BY <1>3
  <2> HIDE DEF p
  <2> QED BY <2>1, <2>2
<1>5. ASSUME NEW i \in Slots, i # j
      PROVE  /\ IsJob(job'[i]) /\ \A f \in {"kind", "arg", "got", "sel", "clean", "step", "writes"} : job'[i][f] = job[i][f]
             /\ job'[i].step = "select" /\ job'[i].valid => job[i].valid /\ job[i].sel # k
  <2>1. IsJob(job[i])
    BY <1>0 DEF JobShapes
  <2>2. CASE job[i].step = "select" /\ job[i].sel = k
    <3>1. job'[i] = [job[i] EXCEPT !.valid = FALSE]
      BY <1>3, <1>5, <2>2
    <3>2. IsJob(job'[i]) /\ job'[i].valid = FALSE /\ \A f \in {"kind", "arg", "got", "sel", "clean", "step", "writes"} : job'[i][f] = job[i][f]
      BY <2>1, <3>1 DEF IsJob
    <3> QED BY <3>2
  <2>3. CASE ~(job[i].step = "select" /\ job[i].sel = k)
    <3>1. job'[i] = job[i]
      BY <1>3, <1>5, <2>3
    <3> QED BY <2>1, <2>3, <3>1
  <2> QED BY <2>2, <2>3
<1>6. \A i \in Slots : /\ job'[i].kind = job[i].kind /\ (job'[i].step = "idle" <=> job[i].step = "idle")
                       /\ job'[i].clean = job[i].clean /\ job'[i].arg = job[i].arg /\ job'[i].got = job[i].got
                       /\ job'[i].sel = job[i].sel
  BY <1>1, <1>4, <1>5
<1>7. /\ \A i \in Slots : (Mutating(i)' <=> Mutating(i)) /\ (Busy(i)' <=> Busy(i))
      /\ CleanAlone' /\ (OneMutator => OneMutator')
  BY <1>0, <1>6, Roles
<1>7a. \A i \in Slots : i # j => job'[i].step = job[i].step /\ job'[i].writes = job[i].writes
  BY <1>5
<1> HIDE <1>3
<1>8. JobShapes'
  <2>1. job' = [i \in Slots |-> job'[i]]
    BY <1>3
  <2>2. IsWrites(v)
    BY <1>2a DEF Leaves
  <2>3. ASSUME NEW i \in Slots
        PROVE  /\ IsJob(job'[i]) /\ job'[i].kind \in JobKinds /\ IsWrites(job'[i].writes)
               /\ job'[i].writes # << >> => job'[i].step \in {"writing", "written"} /\ job'[i].kind \in Mutators
               /\ job'[i].step = "written" => job'[i].writes # << >>
               /\ job'[i].step = "select" => job'[i].sel \in DOMAIN job'[i].got \cap Rows
               /\ job'[i].kind = "get" => job'[i].arg \in Rows
               /\ job'[i].kind = "put" => job'[i].arg \in Bodies
    BY <1>0, <1>1, <1>4, <1>5, <1>6, <1>7a, <2>2 DEF JobShapes
  <2> QED BY <2>1, <2>3 DEF JobShapes
<1>9. RowShapes'
  BY <1>0, <1>1, <1>2f DEF RowShapes
<1>10. Mutating(j)
  BY <1>1 DEF Mutating, Busy
<1>11. ASSUME ~torn PROVE Calm'
  <2>0. /\ OneMutator /\ CacheTrue /\ WrittenTrue /\ ReadTrue /\ AimsWell /\ NameFollows
        /\ ArgsFit /\ KeysMove /\ CertsSpent /\ IdentitiesFit
    BY <1>0, <1>11 DEF Calm
  <2>1. \A i \in Slots : i # j => ~Mutating(i)
    BY <1>10, <2>0 DEF OneMutator
  <2>2. \A i \in Slots : i # j => job[i].step # "written"
    BY <1>0, <1>1, <2>1 DEF JobShapes, Mutating, Busy
  <2>3. table[k] = x
    BY <1>1, <1>2, <1>2c, <1>2d, <2>0 DEF WrittenTrue
  <2>4. CacheTrue'
    <3>1. \A l : WrittenAt(l) => l = k
      BY <1>2, <1>2c, <2>2 DEF WrittenAt
    <3>2. \A l \in Rows : cache'[l] = Absent \/ cache'[l] = table[l]
      BY <1>2f, <2>0, <2>3, <3>1 DEF CacheTrue
    <3>3. \A i \in Slots : job'[i].step = "select" /\ job'[i].valid => job'[i].got[job'[i].sel] = table[job'[i].sel]
      BY <1>4, <1>5, <2>0, <3>1 DEF CacheTrue
    <3> QED BY <1>1, <3>2, <3>3 DEF CacheTrue
  <2>5. WrittenTrue'
    BY <1>4, <1>7a, <2>2 DEF WrittenTrue
  <2>6. ReadTrue'
    <3>1. \A i \in Slots : ~Undisturbed(i)'
      BY <1>0, <1>4, <1>6, <1>7, <1>10, <2>1 DEF Undisturbed, CleanAlone, Busy
    <3> QED BY <3>1 DEF ReadTrue
  <2>7. AimsWell'
    <3>1. Aim(table, v) = Aim(table, w)
      BY <1>1, <1>2, <1>2a, <1>2c, <1>2d, <2>3, AimLeft
    <3>2. Aim(table, job[j].writes)' = Aim(table, w)
      BY <1>1, <1>4, <3>1
    <3>3. \A u : Coherent(u)' <=> Coherent(u)
      BY DEF Coherent, WindowsOrdered, IdentityMatches
    <3> QED BY <1>2, <1>7, <1>10, <2>0, <2>1, <3>2, <3>3 DEF AimsWell
  <2>8. NameFollows'
    <3>0. \A n : Announced(n)' <=> Announced(n)
      BY <1>1 DEF Announced
    <3>1. \A i \in Slots : Naming(i)' <=> Naming(i)
      BY <1>1, <1>4, <1>6, <1>7a DEF Naming
    <3>2. \A i \in Slots : Naming(i) => i = j
      BY <2>1 DEF Naming, Mutating, Busy, Mutators
    <3>3. CASE job[j].kind = "site"
      <4>1. Naming(j)
        BY <1>1, <3>3 DEF Naming
      <4>2. w = <<<<"site", job[j].arg>>>>
        BY <1>1, <1>2, <2>0, <4>1 DEF NameFollows
      <4>3. v = << >> /\ table["site"] = job[j].arg
        BY <1>2, <1>2c, <1>2d, <2>3, <4>2
      <4>4. \A i \in Slots : Mutating(i)' => i = j
        BY <1>7, <2>1
      <4> QED BY <1>1, <1>4, <2>0, <3>0, <3>1, <3>2, <3>3, <4>1, <4>3, <4>4 DEF NameFollows
    <3>4. CASE job[j].kind # "site"
      <4>1. \A i \in 1..Len(v) : v[i][1] # "site"
        <5>1. \A i \in 1..Len(w) : w[i][1] # "site"
          BY <1>2, <1>10, <2>0, <3>4 DEF NameFollows
        <5> QED BY <1>2a, <5>1 DEF Leaves
      <4>2. ~Naming(j)
        BY <3>4 DEF Naming
      <4>3. \A i \in Slots : ~Naming(i)
        BY <3>2, <4>2
      <4>4. \A i \in Slots : Mutating(i)' => i = j
        BY <1>7, <2>1
      <4> QED BY <1>1, <1>4, <2>0, <3>0, <3>1, <4>1, <4>3, <4>4 DEF NameFollows
    <3> QED BY <3>3, <3>4
  <2>9. ArgsFit'
    BY <1>1, <1>6, <2>0 DEF ArgsFit
  <2>10. KeysMove'
    <3>1. KeyMoves(w, job[j].kind, job[j].arg)
      BY <1>2, <1>10, <2>0 DEF KeysMove
    <3>2. KeyMoves(v, job[j].kind, job[j].arg)
      BY <1>1, <1>2, <1>2a, <1>2c, <1>2d, <2>3, <3>1, MovesLeft
    <3>3. KeyMoves(v, job[j].kind, job[j].arg)'
      BY <1>1, <1>6, <3>2 DEF KeyMoves
    <3> QED BY <1>4, <1>7, <2>1, <3>3 DEF KeysMove
  <2>11. \A c : Spent(c)' <=> Spent(c)
    BY <1>1, <1>6, <1>7 DEF Spent
  <2>12. CertsSpent'
    <3>1. cache'["cert"] = cache["cert"] \/ cache'["cert"] = table["cert"]
      BY <1>2f, <2>3 DEF Rows, MtlsRows
    <3> QED BY <1>1, <1>6, <1>7, <2>0, <2>11, <3>1 DEF CertsSpent
  <2>13. \A c, y : Fits(c, y)' <=> Fits(c, y)
    BY <1>1 DEF Fits
  <2>14. IdentitiesFit'
    BY <1>1, <1>4, <1>6, <1>7, <1>7a, <2>0, <2>13 DEF IdentitiesFit
  <2> QED BY <1>7, <2>0, <2>4, <2>5, <2>6, <2>7, <2>8, <2>9, <2>10, <2>12, <2>14 DEF Calm
<1> QED BY <1>1, <1>7, <1>8, <1>9, <1>11 DEF SettingInv

LEMMA RequestBegins ==
    ASSUME SettingInv, NEW j \in Slots, NEW kind \in JobKinds \ {"none"}, NEW arg, Begin(j, kind, arg),
           kind = "get" => arg \in Rows, kind = "put" => arg \in Bodies,
           kind = "install" => arg.key \in Nat /\ arg.key <= made,
           made' = IF kind = "csr" THEN made + 1 ELSE made, kind = "csr" => arg = made + 1
    PROVE  SettingInv'
<1>0. JobShapes /\ RowShapes /\ CleanAlone /\ (~torn => Calm)
  BY DEF SettingInv
<1>1. ~Busy(j) /\ job[j].step = "idle" /\ UNCHANGED <<table, cache, agent, spreading, toldName, missed>>
  BY DEF Begin, Busy
<1>2. PICK alone \in BOOLEAN : alone <=> \A i \in Slots : ~Mutating(i)
  OBVIOUS
<1>3. PICK r : r = [Waiting EXCEPT !.kind = kind, !.arg = arg, !.step = "reading", !.clean = alone]
  OBVIOUS
<1>4. /\ IsJob(r) /\ r.kind = kind /\ r.arg = arg /\ r.step = "reading" /\ r.clean = alone
      /\ r.got = << >> /\ r.writes = << >> /\ r.sel = Null /\ r.valid = FALSE
  BY <1>3 DEF Waiting, IsJob
<1>5. /\ job' = [i \in Slots |-> IF i = j THEN r
                                 ELSE IF kind \in Mutators THEN [job[i] EXCEPT !.clean = FALSE] ELSE job[i]]
      /\ torn' = (torn \/ (kind \in Mutators /\ ~alone))
  BY <1>2, <1>3 DEF Begin
<1>6. job' = [i \in Slots |-> job'[i]] /\ job'[j] = r
  BY <1>5
<1>7. ASSUME NEW i \in Slots, i # j
      PROVE  /\ IsJob(job'[i]) /\ \A f \in {"kind", "arg", "got", "writes", "step", "sel", "valid"} : job'[i][f] = job[i][f]
             /\ job'[i].clean = IF kind \in Mutators THEN FALSE ELSE job[i].clean
  <2>1. IsJob(job[i])
    BY <1>0 DEF JobShapes
  <2>2. CASE kind \in Mutators
    <3> DEFINE p == [job[i] EXCEPT !.clean = FALSE]
    <3>1. IsJob(p) /\ p.clean = FALSE /\ \A f \in {"kind", "arg", "got", "writes", "step", "sel", "valid"} : p[f] = job[i][f]
      BY <2>1 DEF IsJob
    <3>2. job'[i] = p
      BY <1>5, <1>7, <2>2
    <3> HIDE DEF p
    <3> QED BY <2>2, <3>1, <3>2
  <2>3. CASE kind \notin Mutators
    <3>1. job'[i] = job[i]
      BY <1>5, <1>7, <2>3
    <3> QED BY <2>1, <2>3, <3>1
  <2> QED BY <2>2, <2>3
<1>7a. \A i \in Slots : i # j =>
         /\ job'[i].kind = job[i].kind /\ job'[i].arg = job[i].arg /\ job'[i].got = job[i].got
         /\ job'[i].writes = job[i].writes /\ job'[i].step = job[i].step /\ job'[i].sel = job[i].sel
         /\ job'[i].valid = job[i].valid
  BY <1>7
<1>7b. \A i \in Slots : i # j => /\ (job'[i].clean => job[i].clean)
                                  /\ (kind \in Mutators => ~job'[i].clean)
  BY <1>7
<1>8. /\ ~Mutating(j) /\ (Mutating(j)' <=> kind \in Mutators) /\ Busy(j)'
      /\ \A i \in Slots : i # j => (Mutating(i)' <=> Mutating(i)) /\ (Busy(i)' <=> Busy(i))
  BY <1>1, <1>4, <1>6, <1>7a DEF Mutating, Busy
<1>9. JobShapes'
  <2>1. ASSUME NEW i \in Slots
        PROVE  /\ IsJob(job'[i]) /\ job'[i].kind \in JobKinds /\ IsWrites(job'[i].writes)
               /\ job'[i].writes # << >> => job'[i].step \in {"writing", "written"} /\ job'[i].kind \in Mutators
               /\ job'[i].step = "written" => job'[i].writes # << >>
               /\ job'[i].step = "select" => job'[i].sel \in DOMAIN job'[i].got \cap Rows
               /\ job'[i].kind = "get" => job'[i].arg \in Rows
               /\ job'[i].kind = "put" => job'[i].arg \in Bodies
    <3>1. CASE i = j
      BY <1>4, <1>6, <3>1, NoWrites
    <3>2. CASE i # j
      <4>1. IsJob(job'[i])
        BY <1>7, <3>2
      <4> QED BY <1>0, <1>7a, <3>2, <4>1 DEF JobShapes
    <3> QED BY <3>1, <3>2
  <2> QED BY <1>6, <2>1 DEF JobShapes
<1>10. RowShapes'
  BY <1>0, <1>1 DEF RowShapes
<1>11. CleanAlone'
  BY <1>0, <1>2, <1>4, <1>6, <1>7b, <1>8 DEF CleanAlone
<1>12. ASSUME ~torn' PROVE Calm'
  <2>0. /\ OneMutator /\ CacheTrue /\ WrittenTrue /\ ReadTrue /\ AimsWell /\ NameFollows
        /\ ArgsFit /\ KeysMove /\ CertsSpent /\ IdentitiesFit
    BY <1>0, <1>5, <1>12 DEF Calm
  <2>1. kind \in Mutators => \A i \in Slots : ~Mutating(i)
    BY <1>2, <1>5, <1>12
  <2>2. OneMutator'
    BY <1>8, <2>0, <2>1 DEF OneMutator
  <2>3. CacheTrue'
    <3>1. \A l : WrittenAt(l)' <=> WrittenAt(l)
      BY <1>1, <1>4, <1>6, <1>7a DEF WrittenAt
    <3>2. ASSUME NEW i \in Slots, job'[i].step = "select", job'[i].valid
          PROVE  job'[i].got[job'[i].sel] = table[job'[i].sel] \/ WrittenAt(job'[i].sel)
      <4>1. i # j
        BY <1>4, <1>6, <3>2
      <4> QED BY <1>7a, <2>0, <3>2, <4>1 DEF CacheTrue
    <3> QED BY <1>1, <2>0, <3>1, <3>2 DEF CacheTrue
  <2>4. WrittenTrue'
    BY <1>1, <1>4, <1>6, <1>7a, <2>0 DEF WrittenTrue
  <2>5. ReadTrue'
    <3>1. DOMAIN r.got = {}
      BY <1>4
    <3>2. \A i \in Slots : i # j /\ Undisturbed(i)' => Undisturbed(i)
      BY <1>7a, <1>7b, <1>8 DEF Undisturbed
    <3>3. ASSUME NEW i \in Slots, Undisturbed(i)', NEW k \in DOMAIN job'[i].got PROVE job'[i].got[k] = table[k]
      <4>1. i # j
        BY <1>6, <3>1, <3>3
      <4> QED BY <1>7a, <2>0, <3>2, <3>3, <4>1 DEF ReadTrue
    <3> QED BY <1>1, <3>3 DEF ReadTrue
  <2>6. AimsWell'
    <3>1. Aim(table, job[j].writes)' = table /\ \A i \in Slots : i # j => Aim(table, job[i].writes)' = Aim(table, job[i].writes)
      <4>1. Aim(table, << >>) = table
        BY <1>0, NoWrites DEF RowShapes
      <4>2. table' = table /\ job'[j].writes = << >> /\ \A i \in Slots : i # j => job'[i].writes = job[i].writes
        BY <1>1, <1>4, <1>6, <1>7a
      <4> QED BY <4>1, <4>2
    <3>2. \A u : Coherent(u)' <=> Coherent(u)
      BY DEF Coherent, WindowsOrdered, IdentityMatches
    <3> QED BY <1>1, <1>8, <2>0, <2>1, <3>1, <3>2 DEF AimsWell
  <2>7. NameFollows'
    <3>0. \A n : Announced(n)' <=> Announced(n)
      BY <1>1 DEF Announced
    <3>1. \A i \in Slots : (Naming(i)' <=> Naming(i)) /\ (Naming(i) => i # j)
      BY <1>1, <1>4, <1>6, <1>7a DEF Naming
    <3>2. Len(job'[j].writes) = 0
      BY <1>4, <1>6
    <3>3. (\A i \in Slots : ~Naming(i)) => Announced(table["site"])
      BY <2>0 DEF NameFollows
    <3>4. \A i \in Slots : Naming(i)' =>
            /\ Announced(job'[i].got["site"])
            /\ job'[i].writes # << >> => job'[i].writes = <<<<"site", job'[i].arg>>>>
            /\ job'[i].writes = << >> => table["site"] = job'[i].arg
      BY <1>7a, <2>0, <3>1 DEF NameFollows
    <3>5. ASSUME NEW i \in Slots, Mutating(i)', job'[i].kind # "site", NEW l \in 1..Len(job'[i].writes)
          PROVE  job'[i].writes[l][1] # "site"
      <4>1. i # j
        BY <3>2, <3>5
      <4> QED BY <1>7a, <1>8, <2>0, <3>5, <4>1 DEF NameFollows
    <3> QED BY <1>1, <3>0, <3>1, <3>3, <3>4, <3>5 DEF NameFollows
  <2>8. made \in Nat /\ made' \in Nat /\ made <= made'
    BY <1>0 DEF RowShapes
  <2>9. ArgsFit'
    <3> SUFFICES ASSUME NEW i \in Slots, job'[i].kind = "install" PROVE job'[i].arg.key \in Nat /\ job'[i].arg.key <= made'
      BY DEF ArgsFit
    <3>1. PICK n : n = job'[i].arg.key
      OBVIOUS
    <3>2. n \in Nat /\ n <= made
      BY <1>4, <1>6, <1>7a, <2>0, <3>1 DEF ArgsFit
    <3> QED BY <2>8, <3>1, <3>2
  <2>10. KeysMove'
    <3>1. \A w, k, a : KeyMoves(w, k, a)' <=> KeyMoves(w, k, a)
      BY <1>1 DEF KeyMoves
    <3>2. KeyMoves(<< >>, kind, arg)
      BY DEF KeyMoves
    <3>3. KeyMoves(job'[j].writes, job'[j].kind, job'[j].arg)
      BY <1>4, <1>6, <3>2
    <3>4. ASSUME NEW i \in Slots, Mutating(i)', i # j PROVE KeyMoves(job'[i].writes, job'[i].kind, job'[i].arg)
      BY <1>7a, <1>8, <2>0, <3>4 DEF KeysMove
    <3> QED BY <3>1, <3>3, <3>4 DEF KeysMove
  <2>11. ASSUME NEW c, Spent(c) PROVE Spent(c)'
    <3>1. CASE c = Null
      BY <3>1 DEF Spent
    <3>2. CASE c # Null
      <4>1. PICK n : n = c.key
        OBVIOUS
      <4>2. n \in Nat /\ n <= made /\ n # table["pendingKey"] /\ \A i \in Slots : Mutating(i) /\ job[i].kind = "csr" => n # job[i].arg
        BY <2>11, <3>2, <4>1 DEF Spent
      <4>3. n <= made' /\ (kind = "csr" => n # arg)
        BY <2>8, <4>2
      <4> QED BY <1>1, <1>4, <1>6, <1>7a, <1>8, <4>1, <4>2, <4>3 DEF Spent
    <3> QED BY <3>1, <3>2
  <2>12. CertsSpent'
    <3>1. DOMAIN job'[j].got = {}
      BY <1>4, <1>6
    <3>2. ASSUME NEW i \in Slots, Busy(i)', "cert" \in DOMAIN job'[i].got PROVE Spent(job[i].got["cert"])' /\ i # j
      <4>1. PICK c : c = job[i].got["cert"]
        OBVIOUS
      <4>2. i # j /\ Spent(c)
        BY <1>7a, <1>8, <2>0, <3>1, <3>2, <4>1 DEF CertsSpent
      <4>3. Spent(c)'
        BY <2>11, <4>2
      <4>4. job'[i].got["cert"] = c
        BY <1>7a, <4>1, <4>2
      <4> QED BY <4>2, <4>3, <4>4 DEF Spent
    <3>3. Spent(table["cert"])' /\ (cache["cert"] = Absent \/ Spent(cache["cert"]))' /\ (agent = Null \/ Spent(agent.cert))'
      <4>1. PICK c, d, e : c = table["cert"] /\ d = cache["cert"] /\ e = agent.cert
        OBVIOUS
      <4>2. Spent(c) /\ (d = Absent \/ Spent(d)) /\ (agent = Null \/ Spent(e))
        BY <2>0, <4>1 DEF CertsSpent
      <4>3. Spent(c)' /\ (d = Absent \/ Spent(d)') /\ (agent = Null \/ Spent(e)')
        BY <2>11, <4>2
      <4> QED BY <1>1, <4>1, <4>3 DEF Spent
    <3> QED BY <3>2, <3>3 DEF CertsSpent
  <2>13. \A c, y : Fits(c, y)' <=> Fits(c, y)
    BY <1>1 DEF Fits
  <2>14. IdentitiesFit'
    <3>1. DOMAIN job'[j].got = {} /\ job'[j].step = "reading"
      BY <1>4, <1>6
    <3>2. \A i \in Slots : job'[i].step = "sent" /\ job'[i].clean => job[i].clean /\ i # j
      BY <1>7b, <3>1
    <3>3. ASSUME NEW i \in Slots, Busy(i)', job'[i].kind = "outbound", "activeKey" \in DOMAIN job'[i].got
          PROVE  "cert" \in DOMAIN job'[i].got /\ Fits(job'[i].got["cert"], job'[i].got["activeKey"])
      <4>1. i # j
        BY <3>1, <3>3
      <4> QED BY <1>7a, <1>8, <2>0, <3>3, <4>1 DEF IdentitiesFit
    <3>4. \A i \in Slots : job'[i].step = "sent" /\ job'[i].clean /\ job'[i].arg # Null => job'[i].arg.key = job'[i].arg.cert.key
      BY <1>7a, <2>0, <3>2 DEF IdentitiesFit
    <3>5. agent = Null \/ (agent.cert # Null /\ agent.key # Null /\ Fits(agent.cert, agent.key))
      BY <2>0 DEF IdentitiesFit
    <3> QED BY <1>1, <2>13, <3>3, <3>4, <3>5 DEF IdentitiesFit
  <2> QED BY <2>2, <2>3, <2>4, <2>5, <2>6, <2>7, <2>9, <2>10, <2>12, <2>14 DEF Calm
<1> QED BY <1>9, <1>10, <1>11, <1>12 DEF SettingInv

LEMMA WaitingOK ==
    /\ IsJob(Waiting) /\ Waiting.kind = "none" /\ Waiting.step = "idle" /\ Waiting.writes = << >>
    /\ Waiting.clean = FALSE /\ IsWrites(Waiting.writes)
  BY NoWrites DEF Waiting, IsJob

\* A request ends.
LEMMA Leaving ==
    ASSUME SettingInv, NEW j \in Slots, job' = [job EXCEPT ![j] = Waiting], UNCHANGED <<table, cache, agent, made>>,
           ~torn' => /\ ~torn /\ job[j].step # "written" /\ job[j].writes = << >>
                     /\ \A n : Announced(n) /\ (~Naming(j) \/ job[j].got["site"] = n) =>
                          \A m : (Naming(j) => m = job[j].arg) /\ (~Naming(j) => m = n) => Announced(m)'
    PROVE  SettingInv'
<1>0. JobShapes /\ RowShapes /\ CleanAlone /\ (~torn => Calm)
  BY DEF SettingInv
<1>1. job' = [i \in Slots |-> job'[i]] /\ job'[j] = Waiting /\ \A i \in Slots : i # j => job'[i] = job[i]
  BY <1>0, JobWritten
<1>2. /\ ~Mutating(j)' /\ ~Busy(j)'
      /\ \A i \in Slots : i # j => (Mutating(i)' <=> Mutating(i)) /\ (Busy(i)' <=> Busy(i))
  BY <1>1, WaitingOK DEF Mutating, Busy
<1>3. JobShapes'
  BY <1>0, <1>1, WaitingOK DEF JobShapes, JobKinds
<1>4. RowShapes'
  BY <1>0 DEF RowShapes
<1>5. CleanAlone'
  BY <1>0, <1>1, <1>2 DEF CleanAlone
<1>6. ASSUME ~torn' PROVE Calm'
  <2>0. /\ OneMutator /\ CacheTrue /\ WrittenTrue /\ ReadTrue /\ AimsWell /\ NameFollows
        /\ ArgsFit /\ KeysMove /\ CertsSpent /\ IdentitiesFit
    BY <1>0, <1>6 DEF Calm
  <2>1. OneMutator'
    BY <1>2, <2>0 DEF OneMutator
  <2>2. CacheTrue'
    <3>1. \A l : WrittenAt(l)' <=> WrittenAt(l)
      BY <1>1, <1>6, WaitingOK DEF WrittenAt
    <3>2. \A i \in Slots : job'[i].step = "select" => job'[i] = job[i]
      BY <1>1, WaitingOK
    <3> QED BY <2>0, <3>1, <3>2 DEF CacheTrue
  <2>3. WrittenTrue'
    BY <1>1, <2>0, WaitingOK DEF WrittenTrue
  <2>4. ReadTrue'
    <3>1. \A i \in Slots : Undisturbed(i)' => job'[i] = job[i] /\ Undisturbed(i)
      BY <1>1, <1>2, WaitingOK DEF Undisturbed
    <3> QED BY <2>0, <3>1 DEF ReadTrue
  <2>5. AimsWell'
    <3>1. Coherent(Aim(table, job[j].writes)) => Coherent(table)
      BY <1>0, <1>6, NoWrites DEF RowShapes
    <3>2. \A i \in Slots : i # j => Aim(table, job[i].writes)' = Aim(table, job[i].writes)
      BY <1>1
    <3>3. \A u : Coherent(u)' <=> Coherent(u)
      BY DEF Coherent, WindowsOrdered, IdentityMatches
    <3>4. CASE Mutating(j)
      BY <1>2, <2>0, <3>1, <3>2, <3>3, <3>4 DEF AimsWell, OneMutator
    <3>5. CASE ~Mutating(j)
      BY <1>2, <2>0, <3>2, <3>3, <3>5 DEF AimsWell
    <3> QED BY <3>4, <3>5
  <2>6. NameFollows'
    <3>1. \A i \in Slots : Naming(i)' => i # j /\ Naming(i)
      BY <1>1, WaitingOK DEF Naming
    <3>2. \A i \in Slots : i # j => (Naming(i)' <=> Naming(i))
      BY <1>1 DEF Naming
    <3>3. CASE Naming(j)
      <4>1. Mutating(j) /\ \A i \in Slots : i # j => ~Mutating(i)
        BY <2>0, <3>3 DEF Naming, Mutating, Busy, Mutators, OneMutator
      <4>2. \A i \in Slots : ~Naming(i)' /\ ~Mutating(i)'
        BY <1>2, <3>1, <4>1 DEF Naming, Mutating, Busy, Mutators
      <4>3. Announced(job[j].got["site"]) /\ table["site"] = job[j].arg
        BY <1>6, <2>0, <3>3 DEF NameFollows
      <4>4. Announced(table["site"])'
        <5>1. PICK n, m : n = job[j].got["site"] /\ m = table["site"]
          OBVIOUS
        <5>2. Announced(m)'
          BY <1>6, <3>3, <4>3, <5>1
        <5> QED BY <5>1, <5>2 DEF Announced
      <4> QED BY <4>2, <4>4 DEF NameFollows
    <3>4. CASE ~Naming(j)
      <4>1. ASSUME NEW n, Announced(n) PROVE Announced(n)'
        BY <1>6, <3>4, <4>1
      <4>2. (\A i \in Slots : ~Naming(i)) => Announced(table["site"])'
        <5>1. PICK m : m = table["site"]
          OBVIOUS
        <5>2. (\A i \in Slots : ~Naming(i)) => Announced(m)'
          BY <2>0, <4>1, <5>1 DEF NameFollows
        <5> QED BY <5>1, <5>2 DEF Announced
      <4>3. ASSUME NEW i \in Slots, Naming(i)'
            PROVE  /\ Announced(job[i].got["site"])'
                   /\ job'[i].writes # << >> => job'[i].writes = <<<<"site", job'[i].arg>>>>
                   /\ job'[i].writes = << >> => table["site"] = job'[i].arg
        <5>1. job'[i] = job[i] /\ Naming(i)
          BY <1>1, <3>1, <4>3
        <5>2. PICK n : n = job[i].got["site"]
          OBVIOUS
        <5>3. Announced(n)'
          BY <2>0, <4>1, <5>1, <5>2 DEF NameFollows
        <5>4. Announced(job[i].got["site"])'
          BY <5>1, <5>2, <5>3 DEF Announced
        <5> QED BY <2>0, <5>1, <5>4 DEF NameFollows
      <4>4. \A i \in Slots : Mutating(i)' /\ job'[i].kind # "site" =>
              \A l \in 1..Len(job'[i].writes) : job'[i].writes[l][1] # "site"
        BY <1>1, <1>2, <2>0 DEF NameFollows
      <4> QED BY <3>1, <3>2, <3>4, <4>2, <4>3, <4>4 DEF NameFollows
    <3> QED BY <3>3, <3>4
  <2>7. ArgsFit'
    BY <1>1, <2>0, WaitingOK DEF ArgsFit
  <2>8. KeysMove'
    BY <1>1, <1>2, <2>0 DEF KeysMove, KeyMoves
  <2>9. \A c : Spent(c) => Spent(c)'
    BY <1>1, <1>2 DEF Spent
  <2>10. CertsSpent'
    <3>1. \A i \in Slots : Busy(i)' => job'[i] = job[i] /\ Busy(i)
      BY <1>1, <1>2
    <3> QED BY <2>0, <2>9, <3>1 DEF CertsSpent
  <2>11. \A c, y : Fits(c, y)' <=> Fits(c, y)
    BY DEF Fits
  <2>12. IdentitiesFit'
    <3>1. \A i \in Slots : Busy(i)' \/ job'[i].step = "sent" => job'[i] = job[i] /\ (Busy(i)' <=> Busy(i))
      BY <1>1, <1>2, WaitingOK
    <3> QED BY <2>0, <2>11, <3>1 DEF IdentitiesFit
  <2> QED BY <2>1, <2>2, <2>3, <2>4, <2>5, <2>6, <2>7, <2>8, <2>10, <2>12 DEF Calm
<1> QED BY <1>3, <1>4, <1>5, <1>6 DEF SettingInv

LEMMA FinishOK == ASSUME SettingInv, NEW j \in Slots, Finish(j) PROVE SettingInv'
<1> DEFINE renamed == job[j].kind = "site" /\ job[j].got["site"] # job[j].arg
<1>1. /\ job[j].step = "writing" /\ job[j].writes = << >> /\ job' = [job EXCEPT ![j] = Waiting]
      /\ \/ spreading' = (IF renamed THEN spreading \cup {job[j].arg} ELSE spreading) /\ missed' = missed
         \/ renamed /\ missed' = TRUE /\ spreading' = spreading
      /\ torn' = (torn \/ (renamed /\ spreading # {}))
      /\ UNCHANGED <<table, cache, agent, made, toldName>>
  BY DEF Finish
<1>2. Naming(j) <=> job[j].kind = "site"
  BY <1>1 DEF Naming
<1>3. ASSUME ~torn', NEW n, Announced(n), ~Naming(j) \/ job[j].got["site"] = n,
             NEW m, Naming(j) => m = job[j].arg, ~Naming(j) => m = n
      PROVE  Announced(m)'
  <2>1. CASE renamed
    <3>1. spreading = {} /\ (spreading' = {m} \/ (spreading' = {} /\ missed'))
      BY <1>1, <1>2, <1>3, <2>1
    <3> QED BY <3>1 DEF Announced
  <2>2. CASE ~renamed
    <3>1. spreading' = spreading /\ missed' = missed /\ m = n
      BY <1>1, <1>2, <1>3, <2>2
    <3> QED BY <1>1, <1>3, <3>1 DEF Announced
  <2> QED BY <2>1, <2>2
<1> HIDE DEF renamed
<1> QED BY <1>1, <1>3, Leaving

LEMMA DeliveredOK == ASSUME SettingInv, NEW j \in Slots, Delivered(j) PROVE SettingInv'
<1>1. /\ job[j].step = "sent" /\ job' = [job EXCEPT ![j] = Waiting]
      /\ UNCHANGED <<table, cache, agent, made, spreading, torn, toldName, missed>>
  BY DEF Delivered
<1>2. ~Naming(j) /\ job[j].writes = << >>
  BY <1>1 DEF Naming, SettingInv, JobShapes
<1>3. \A n : Announced(n)' <=> Announced(n)
  BY <1>1 DEF Announced
<1> QED BY <1>1, <1>2, <1>3, Leaving

LEMMA StatementFailsOK == ASSUME SettingInv, NEW j \in Slots, StatementFails(j) PROVE SettingInv'
<1>1. torn' /\ job' = [job EXCEPT ![j] = Waiting] /\ UNCHANGED <<table, cache, agent, made>>
  BY DEF StatementFails
<1> QED BY <1>1, Leaving

LEMMA CrashOK == ASSUME SettingInv, Crash PROVE SettingInv'
<1>0. JobShapes /\ RowShapes /\ CleanAlone /\ (~torn => Calm)
  BY DEF SettingInv
<1>1. /\ job' = [i \in Slots |-> Waiting] /\ cache' = [k \in Rows |-> Absent] /\ agent' = Null /\ spreading' = {}
      /\ torn' = (torn \/ spreading # {} \/ \E j \in Slots : Mutating(j))
      /\ UNCHANGED <<table, made, toldName, missed>>
  BY DEF Crash
<1>2. \A i \in Slots : job'[i] = Waiting /\ ~Busy(i)' /\ ~Mutating(i)' /\ ~Naming(i)' /\ ~Undisturbed(i)'
  BY <1>1, WaitingOK DEF Busy, Mutating, Naming, Undisturbed
<1>3. JobShapes'
  BY <1>1, <1>2, WaitingOK DEF JobShapes, JobKinds
<1>4. RowShapes' /\ CleanAlone'
  BY <1>0, <1>1, <1>2 DEF RowShapes, CleanAlone
<1>5. ASSUME ~torn' PROVE Calm'
  <2>0. CacheTrue /\ AimsWell /\ NameFollows /\ CertsSpent /\ \A j \in Slots : ~Mutating(j)
    BY <1>0, <1>1, <1>5 DEF Calm
  <2>1. OneMutator' /\ CacheTrue' /\ WrittenTrue' /\ ReadTrue' /\ ArgsFit' /\ KeysMove'
    BY <1>1, <1>2, WaitingOK DEF OneMutator, CacheTrue, WrittenTrue, ReadTrue, ArgsFit, KeysMove
  <2>2. AimsWell'
    <3>1. \A u : Coherent(u)' <=> Coherent(u)
      BY DEF Coherent, WindowsOrdered, IdentityMatches
    <3> QED BY <1>1, <1>2, <2>0, <3>1 DEF AimsWell
  <2>3. NameFollows'
    <3>1. \A i \in Slots : ~Naming(i)
      BY <2>0 DEF Naming, Mutating, Busy, Mutators
    <3>2. (missed \/ toldName = table["site"]) /\ spreading = {}
      BY <1>1, <1>5, <2>0, <3>1 DEF NameFollows, Announced
    <3> QED BY <1>1, <1>2, <3>2 DEF NameFollows, Announced
  <2>4. CertsSpent'
    BY <1>1, <1>2, <2>0 DEF CertsSpent, Spent, Rows, MtlsRows
  <2>5. IdentitiesFit'
    BY <1>1, <1>2, WaitingOK DEF IdentitiesFit
  <2> QED BY <2>1, <2>2, <2>3, <2>4, <2>5 DEF Calm
<1> QED BY <1>3, <1>4, <1>5 DEF SettingInv

LEMMA s2sFetchOK == ASSUME SettingInv, NEW j \in Slots, s2sFetch(j) PROVE SettingInv'
<1>0. JobShapes /\ RowShapes /\ CleanAlone /\ (~torn => Calm)
  BY DEF SettingInv
<1>1. /\ job[j].step = "reading" /\ job[j].kind = "outbound" /\ Reads(job[j]) = {} /\ IsJob(job[j])
      /\ job[j].writes = << >>
      /\ UNCHANGED <<table, cache, made, spreading, toldName, missed, torn>>
  BY <1>0 DEF s2sFetch, JobShapes
<1>2. PICK cert, held : cert = job[j].got["cert"] /\ held = job[j].got["activeKey"]
  OBVIOUS
<1>3. \/ agent' = Null
      \/ /\ "cert" \in DOMAIN job[j].got /\ "activeKey" \in DOMAIN job[j].got
         /\ cert # Null /\ held # Null
         /\ \/ agent # Null /\ agent.cert = cert /\ agent' = agent
            \/ agent' = [cert |-> cert, key |-> held]
  <2> DEFINE id == IF job[j].got["enforce"] # TRUE THEN Null ELSE outboundIdentity(job[j])
  <2>1. agent' = IF id = Null THEN Null ELSE IF agent # Null /\ agent.cert = id.cert THEN agent ELSE id
    BY DEF s2sFetch
  <2>2. id = Null \/ /\ job[j].got["enforce"] = TRUE /\ cert # Null /\ held # Null
                     /\ id = [cert |-> cert, key |-> held]
    BY <1>2 DEF outboundIdentity
  <2>3. job[j].got["enforce"] = TRUE => "cert" \in DOMAIN job[j].got /\ "activeKey" \in DOMAIN job[j].got
    BY <1>1 DEF Reads, outboundReads, Known
  <2> HIDE DEF id
  <2>4. CASE id = Null
    BY <2>1, <2>4
  <2>5. CASE id # Null
    BY <2>1, <2>2, <2>3, <2>5
  <2> QED BY <2>4, <2>5
<1>4. PICK a : a = agent'
  OBVIOUS
<1> DEFINE p == [job[j] EXCEPT !.step = "sent", !.arg = a]
<1>5. job' = [job EXCEPT ![j] = p]
  BY <1>0, <1>4 DEF s2sFetch, JobShapes
<1>6. IsJob(p) /\ p.step = "sent" /\ p.arg = a /\ \A f \in {"kind", "got", "writes", "sel", "valid", "clean"} : p[f] = job[j][f]
  BY <1>1 DEF IsJob
<1> HIDE DEF p
<1>7. job' = [i \in Slots |-> job'[i]] /\ job'[j] = p /\ \A i \in Slots : i # j => job'[i] = job[i]
  BY <1>0, <1>5, JobWritten
<1>8. \A i \in Slots : /\ job'[i].kind = job[i].kind /\ (job'[i].step = "idle" <=> job[i].step = "idle")
                       /\ job'[i].clean = job[i].clean /\ job'[i].got = job[i].got /\ job'[i].writes = job[i].writes
  BY <1>1, <1>6, <1>7
<1>9. /\ \A i \in Slots : (Mutating(i)' <=> Mutating(i)) /\ (Busy(i)' <=> Busy(i))
      /\ CleanAlone' /\ (OneMutator => OneMutator')
  BY <1>0, <1>8, Roles
<1>10. JobShapes'
  BY <1>0, <1>1, <1>6, <1>7 DEF JobShapes
<1>11. RowShapes'
  BY <1>0, <1>1 DEF RowShapes
<1>12. ASSUME ~torn PROVE Calm'
  <2>0. /\ OneMutator /\ CacheTrue /\ WrittenTrue /\ ReadTrue /\ AimsWell /\ NameFollows
        /\ ArgsFit /\ KeysMove /\ CertsSpent /\ IdentitiesFit
    BY <1>0, <1>12 DEF Calm
  <2>1. Busy(j) /\ ~Mutating(j)
    BY <1>1 DEF Busy, Mutating, Mutators
  <2>2. CacheTrue'
    <3>1. \A k : WrittenAt(k)' <=> WrittenAt(k)
      BY <1>1, <1>6, <1>7 DEF WrittenAt
    <3>2. \A i \in Slots : job'[i].step = "select" => job'[i] = job[i]
      BY <1>6, <1>7
    <3> QED BY <1>1, <2>0, <3>1, <3>2 DEF CacheTrue
  <2>3. WrittenTrue'
    BY <1>1, <1>6, <1>7, <2>0 DEF WrittenTrue
  <2>4. ReadTrue'
    BY <1>1, <1>6, <1>7, <1>9, <2>0 DEF ReadTrue, Undisturbed
  <2>5. AimsWell'
    <3>1. \A i \in Slots : Aim(table, job[i].writes)' = Aim(table, job[i].writes)
      BY <1>1, <1>8
    <3>2. \A u : Coherent(u)' <=> Coherent(u)
      BY DEF Coherent, WindowsOrdered, IdentityMatches
    <3> QED BY <1>1, <1>9, <2>0, <3>1, <3>2 DEF AimsWell
  <2>6. NameFollows'
    <3>1. \A n : Announced(n)' <=> Announced(n)
      BY <1>1 DEF Announced
    <3>2. \A i \in Slots : (Naming(i)' <=> Naming(i)) /\ (Naming(i) => i # j)
      BY <1>1, <1>6, <1>7 DEF Naming
    <3> QED BY <1>1, <1>7, <1>8, <1>9, <2>0, <3>1, <3>2 DEF NameFollows
  <2>7. ArgsFit'
    BY <1>1, <1>7, <1>8, <2>0 DEF ArgsFit
  <2>8. KeysMove'
    BY <1>1, <1>7, <1>8, <1>9, <2>0, <2>1 DEF KeysMove, KeyMoves
  <2>9. \A c : Spent(c)' <=> Spent(c)
    BY <1>1, <1>7, <1>8, <1>9, <2>1 DEF Spent
  <2>10. agent' = Null \/ /\ agent'.cert = cert /\ agent'.cert # Null /\ agent'.key # Null
                          /\ Spent(agent'.cert) /\ Fits(agent'.cert, agent'.key)
    <3>1. "cert" \in DOMAIN job[j].got => Spent(cert)
      BY <1>2, <2>0, <2>1 DEF CertsSpent
    <3>2. "activeKey" \in DOMAIN job[j].got => Fits(cert, held)
      BY <1>1, <1>2, <2>0, <2>1 DEF IdentitiesFit
    <3>3. CASE agent # Null /\ agent.cert = cert /\ agent' = agent
      BY <2>0, <3>3 DEF CertsSpent, IdentitiesFit
    <3>4. CASE agent' = [cert |-> cert, key |-> held] /\ cert # Null /\ held # Null
               /\ "cert" \in DOMAIN job[j].got /\ "activeKey" \in DOMAIN job[j].got
      BY <3>1, <3>2, <3>4
    <3> QED BY <1>3, <3>3, <3>4
  <2>11. CertsSpent'
    <3>1. \A c : c = agent'.cert /\ Spent(c) => Spent(c)'
      BY <2>9
    <3>2. agent' = Null \/ Spent(agent.cert)'
      <4>1. PICK c : c = agent'.cert
        OBVIOUS
      <4>2. agent' = Null \/ Spent(c)'
        BY <2>10, <3>1, <4>1
      <4> QED BY <4>1, <4>2 DEF Spent
    <3> QED BY <1>1, <1>8, <1>9, <2>0, <2>9, <3>2 DEF CertsSpent
  <2>12. \A c, y : Fits(c, y)' <=> Fits(c, y)
    BY <1>1 DEF Fits
  <2>13. ASSUME job[j].clean, agent' # Null PROVE agent'.key = agent'.cert.key
    <3>1. \A i \in Slots : ~Mutating(i)
      BY <1>0, <2>1, <2>13 DEF CleanAlone
    <3>2. Coherent(table)
      BY <2>0, <3>1 DEF AimsWell
    <3>3. \A k \in DOMAIN job[j].got : job[j].got[k] = table[k]
      BY <1>1, <2>0, <2>13 DEF ReadTrue, Undisturbed
    <3>4. cert = table["cert"] /\ held = table["activeKey"] /\ cert # Null
      BY <1>2, <1>3, <2>13, <3>3
    <3>5. table["activeKey"] = cert.key
      BY <3>2, <3>4 DEF Coherent, IdentityMatches
    <3>6. agent'.cert = cert /\ (agent'.key = cert.key \/ cert.key # table["activeKey"])
      BY <2>10, <2>13, <3>4 DEF Fits
    <3> QED BY <3>5, <3>6
  <2>14. IdentitiesFit'
    <3>1. \A i \in Slots : Busy(i)' /\ job'[i].kind = "outbound" /\ "activeKey" \in DOMAIN job'[i].got =>
            "cert" \in DOMAIN job'[i].got /\ Fits(job[i].got["cert"], job[i].got["activeKey"])
      BY <1>8, <1>9, <2>0 DEF IdentitiesFit
    <3>2. \A i \in Slots : job'[i].step = "sent" /\ job'[i].clean /\ job'[i].arg # Null => job'[i].arg.key = job'[i].arg.cert.key
      BY <1>4, <1>6, <1>7, <2>0, <2>13 DEF IdentitiesFit
    <3>3. agent' = Null \/ (agent'.cert # Null /\ agent'.key # Null /\ Fits(agent.cert, agent.key)')
      <4>1. PICK c, y : c = agent'.cert /\ y = agent'.key
        OBVIOUS
      <4>2. agent' = Null \/ (c # Null /\ y # Null /\ Fits(c, y)')
        BY <2>10, <2>12, <4>1
      <4> QED BY <4>1, <4>2 DEF Fits
    <3>4. \A i \in Slots : Busy(i)' /\ job'[i].kind = "outbound" /\ "activeKey" \in DOMAIN job'[i].got =>
            Fits(job[i].got["cert"], job[i].got["activeKey"])'
      <4> SUFFICES ASSUME NEW i \in Slots, Fits(job[i].got["cert"], job[i].got["activeKey"])
                   PROVE Fits(job[i].got["cert"], job[i].got["activeKey"])'
        BY <3>1
      <4> QED BY <1>1, <1>8 DEF Fits
    <3> QED BY <3>1, <3>2, <3>3, <3>4 DEF IdentitiesFit
  <2> QED BY <1>9, <2>0, <2>2, <2>3, <2>4, <2>5, <2>6, <2>7, <2>8, <2>11, <2>14 DEF Calm
<1> QED BY <1>1, <1>9, <1>10, <1>11, <1>12 DEF SettingInv

\* The requests rest; an entry expires or an announcement arrives.
LEMMA Resting ==
    ASSUME SettingInv, UNCHANGED <<table, job, agent, made, torn>>, cache' = [k \in Rows |-> cache'[k]],
           \A k \in Rows : cache'[k] \in {cache[k], Absent}, \A n : Announced(n) => Announced(n)'
    PROVE  SettingInv'
<1>0. JobShapes /\ RowShapes /\ CleanAlone /\ (~torn => Calm)
  BY DEF SettingInv
<1>1. \A i \in Slots : (Mutating(i)' <=> Mutating(i)) /\ (Busy(i)' <=> Busy(i)) /\ (Naming(i)' <=> Naming(i))
  BY DEF Mutating, Busy, Naming
<1>2. JobShapes' /\ RowShapes' /\ CleanAlone'
  BY <1>0, <1>1 DEF JobShapes, RowShapes, CleanAlone
<1>3. ASSUME ~torn PROVE Calm'
  <2>0. /\ OneMutator /\ CacheTrue /\ WrittenTrue /\ ReadTrue /\ AimsWell /\ NameFollows
        /\ ArgsFit /\ KeysMove /\ CertsSpent /\ IdentitiesFit
    BY <1>0, <1>3 DEF Calm
  <2>1. OneMutator' /\ WrittenTrue' /\ ArgsFit'
    BY <1>1, <2>0 DEF OneMutator, WrittenTrue, ArgsFit
  <2>2. CacheTrue'
    <3>1. \A k : WrittenAt(k)' <=> WrittenAt(k)
      BY DEF WrittenAt
    <3> QED BY <2>0, <3>1 DEF CacheTrue
  <2>3. ReadTrue'
    BY <1>1, <2>0 DEF ReadTrue, Undisturbed
  <2>4. AimsWell'
    <3>1. \A i \in Slots : Aim(table, job[i].writes)' = Aim(table, job[i].writes)
      OBVIOUS
    <3>2. \A u : Coherent(u)' <=> Coherent(u)
      BY DEF Coherent, WindowsOrdered, IdentityMatches
    <3> QED BY <1>1, <2>0, <3>1, <3>2 DEF AimsWell
  <2>5. NameFollows'
    <3>1. (\A i \in Slots : ~Naming(i)) => Announced(table["site"])'
      <4>1. PICK m : m = table["site"]
        OBVIOUS
      <4>2. (\A i \in Slots : ~Naming(i)) => Announced(m)'
        BY <2>0, <4>1 DEF NameFollows
      <4> QED BY <4>1, <4>2 DEF Announced
    <3>2. ASSUME NEW i \in Slots, Naming(i) PROVE Announced(job[i].got["site"])'
      <4>1. PICK m : m = job[i].got["site"]
        OBVIOUS
      <4>2. Announced(m)'
        BY <2>0, <3>2, <4>1 DEF NameFollows
      <4> QED BY <4>1, <4>2 DEF Announced
    <3> QED BY <1>1, <2>0, <3>1, <3>2 DEF NameFollows
  <2>6. KeysMove'
    BY <1>1, <2>0 DEF KeysMove, KeyMoves
  <2>7. \A c : Spent(c)' <=> Spent(c)
    BY <1>1 DEF Spent
  <2>8. CertsSpent'
    <3>1. cache'["cert"] \in {cache["cert"], Absent}
      BY DEF Rows, MtlsRows
    <3> QED BY <1>1, <2>0, <2>7, <3>1 DEF CertsSpent
  <2>9. \A c, y : Fits(c, y)' <=> Fits(c, y)
    BY DEF Fits
  <2>10. IdentitiesFit'
    BY <1>1, <2>0, <2>9 DEF IdentitiesFit
  <2> QED BY <2>1, <2>2, <2>3, <2>4, <2>5, <2>6, <2>8, <2>10 DEF Calm
<1> QED BY <1>2, <1>3 DEF SettingInv

LEMMA SettingStart == ASSUME NEW t, NEW certified, SettingInit(t, certified) PROVE SettingInv
<1>1. /\ job = [i \in Slots |-> Waiting] /\ cache = [k \in Rows |-> Absent] /\ agent = Null
      /\ spreading = {} /\ toldName = Null /\ made = IF certified THEN 1 ELSE 0
  BY DEF SettingInit
<1>2. \A i \in Slots : job[i] = Waiting /\ ~Busy(i) /\ ~Mutating(i) /\ ~Naming(i) /\ ~Undisturbed(i)
  BY <1>1, WaitingOK DEF Busy, Mutating, Naming, Undisturbed
<1>3. /\ table = [k \in Rows |-> table[k]]
      /\ \A k \in {"idle", "max", "trans", "site", "pendingKey"} : table[k] = Null
      /\ table["cert"] = Null \/ (table["cert"] = [key |-> 1, n |-> 1] /\ table["activeKey"] = 1 /\ made = 1)
  <2>1. CASE certified
    BY <1>1, <2>1 DEF SettingInit, Rows, MtlsRows
  <2>2. CASE ~certified
    BY <2>2 DEF SettingInit, Rows, MtlsRows
  <2> QED BY <2>1, <2>2
<1>4. JobShapes
  BY <1>1, <1>2, WaitingOK DEF JobShapes, JobKinds
<1>5. RowShapes /\ CleanAlone
  BY <1>1, <1>2, <1>3 DEF RowShapes, CleanAlone
<1>6. /\ OneMutator /\ CacheTrue /\ WrittenTrue /\ ReadTrue /\ ArgsFit /\ KeysMove /\ IdentitiesFit
  BY <1>1, <1>2, WaitingOK DEF OneMutator, CacheTrue, WrittenTrue, ReadTrue, ArgsFit, KeysMove, IdentitiesFit
<1>7. AimsWell
  <2>1. WindowsOrdered(table)
    BY <1>3 DEF WindowsOrdered, Effective
  <2>2. IdentityMatches(table)
    BY <1>3 DEF IdentityMatches
  <2> QED BY <1>2, <1>3, <2>1, <2>2 DEF AimsWell, Coherent
<1>8. NameFollows
  BY <1>1, <1>2, <1>3 DEF NameFollows, Announced
<1>9. CertsSpent
  BY <1>1, <1>2, <1>3 DEF CertsSpent, Spent, Rows, MtlsRows
<1> QED BY <1>4, <1>5, <1>6, <1>7, <1>8, <1>9 DEF SettingInv, Calm

LEMMA SettingStep == SettingInv /\ [SettingNext]_settingVars => SettingInv'
<1> SUFFICES ASSUME SettingInv, [SettingNext]_settingVars PROVE SettingInv'
  OBVIOUS
<1> USE DEF JobKinds, Mutators
<1>0. made \in Nat /\ cache = [k \in Rows |-> cache[k]]
  BY DEF SettingInv, RowShapes
<1>1. ASSUME NEW j \in Slots, putSettings(j) PROVE SettingInv'
  BY <1>1, RequestBegins DEF putSettings, Plain
<1>2. ASSUME NEW j \in Slots, getSettings(j) PROVE SettingInv'
  BY <1>2, RequestBegins DEF getSettings, Plain, Rows
<1>3. ASSUME NEW j \in Slots, testEmail(j) PROVE SettingInv'
  BY <1>3, RequestBegins DEF testEmail, Plain, Rows
<1>4. ASSUME NEW j \in Slots, generateGateKey(j) PROVE SettingInv'
  BY <1>4, RequestBegins DEF generateGateKey, Plain
<1>5. ASSUME NEW j \in Slots, generateCsr(j) PROVE SettingInv'
  BY <1>5, RequestBegins DEF generateCsr
<1>6. ASSUME NEW j \in Slots, pasteCert(j) PROVE SettingInv'
  <2>1. PICK c \in Certs : Plain(j, "install", c)
    BY <1>6 DEF pasteCert
  <2>2. c.key \in Nat /\ c.key <= made
    BY <1>0 DEF Certs
  <2>3. Begin(j, "install", c) /\ made' = made
    BY <2>1 DEF Plain
  <2> QED BY <2>2, <2>3, RequestBegins
<1>7. ASSUME NEW j \in Slots, toggleEnforce(j) PROVE SettingInv'
  BY <1>7, RequestBegins DEF toggleEnforce
<1>8. ASSUME NEW j \in Slots, resetCert(j) PROVE SettingInv'
  BY <1>8, RequestBegins DEF resetCert, Plain
<1>9. ASSUME NEW j \in Slots, loadMtls(j) PROVE SettingInv'
  BY <1>9, RequestBegins DEF loadMtls, Plain
<1>10. ASSUME NEW j \in Slots, deliver(j) PROVE SettingInv'
  BY <1>10, RequestBegins DEF deliver, Plain
<1>11. ASSUME NEW j \in Slots, MtlsCard(j) PROVE SettingInv'
  <2>1. UNCHANGED <<table, job, agent, made, torn, cache, spreading, toldName, missed>>
    BY <1>11 DEF MtlsCard
  <2> QED BY <1>0, <2>1, Resting DEF Announced
<1>12. ASSUME NEW j \in Slots,
              getSetting(j) \/ readRaw(j) \/ Decide(j) \/ writeRow(j) \/ writeRaw(j) \/ Finish(j)
              \/ s2sFetch(j) \/ Delivered(j) \/ StatementFails(j)
       PROVE  SettingInv'
  BY <1>12, getSettingOK, readRawOK, DecideOK, writeRowOK, writeRawOK, FinishOK, s2sFetchOK, DeliveredOK,
     StatementFailsOK
<1>13. ASSUME NEW k \in Rows, CacheExpires(k) PROVE SettingInv'
  <2>1. cache' = [cache EXCEPT ![k] = Absent] /\ UNCHANGED <<table, job, agent, made, torn, spreading, toldName, missed>>
    BY <1>13 DEF CacheExpires
  <2>2. cache' = [l \in Rows |-> cache'[l]] /\ \A l \in Rows : cache'[l] \in {cache[l], Absent}
    BY <1>0, <2>1
  <2>3. \A n : Announced(n) => Announced(n)'
    BY <2>1 DEF Announced
  <2> QED BY <2>1, <2>2, <2>3, Resting
<1>14. ASSUME NEW name, enqueueName(name) PROVE SettingInv'
  <2>1. name \in spreading /\ (toldName' = name \/ missed') /\ spreading' = spreading \ {name}
        /\ UNCHANGED <<table, job, agent, made, torn, cache>>
    BY <1>14 DEF enqueueName
  <2>2. \A n : Announced(n) => Announced(n)'
    BY <2>1 DEF Announced
  <2> QED BY <1>0, <2>1, <2>2, Resting
<1>15. ASSUME Crash PROVE SettingInv'
  BY <1>15, CrashOK
<1>16. ASSUME Lapse \/ UNCHANGED settingVars PROVE SettingInv'
  <2>1. UNCHANGED <<table, job, agent, made, torn, cache, spreading, toldName, missed>>
    BY <1>16 DEF Lapse, settingVars
  <2> QED BY <1>0, <2>1, Resting DEF Announced
<1> HIDE DEF JobKinds, Mutators
<1> QED BY <1>1, <1>2, <1>3, <1>4, <1>5, <1>6, <1>7, <1>8, <1>9, <1>10, <1>11, <1>12, <1>13, <1>14, <1>15, <1>16
        DEF SettingNext

LEMMA SettingSound == SettingInv => SettingsCoherent
<1> SUFFICES ASSUME SettingInv, ~torn
             PROVE  /\ (\A j \in Slots : ~Mutating(j)) =>
                         \A seen \in {table, [k \in Rows |-> Seen(k)]} : WindowsOrdered(seen) /\ IdentityMatches(seen)
                    /\ (\A j \in Slots : ~Mutating(j)) /\ spreading = {} => missed \/ toldName = table["site"]
                    /\ \A j \in Slots : job[j].step = "sent" /\ job[j].clean /\ job[j].arg # Null
                                          => job[j].arg.key = job[j].arg.cert.key
  BY DEF SettingsCoherent
<1>0. JobShapes /\ RowShapes /\ CacheTrue /\ AimsWell /\ NameFollows /\ IdentitiesFit
  BY DEF SettingInv, Calm
<1>1. ASSUME \A j \in Slots : ~Mutating(j) PROVE [k \in Rows |-> Seen(k)] = table /\ Coherent(table)
  <2>1. \A k : ~WrittenAt(k)
    BY <1>0, <1>1 DEF WrittenAt, JobShapes, Mutating, Busy
  <2>2. \A k \in Rows : Seen(k) = table[k]
    BY <1>0, <2>1 DEF Seen, CacheTrue
  <2> QED BY <1>0, <1>1, <2>2 DEF RowShapes, AimsWell
<1>2. ASSUME \A j \in Slots : ~Mutating(j), spreading = {} PROVE missed \/ toldName = table["site"]
  <2>1. \A j \in Slots : ~Naming(j)
    BY <1>2 DEF Naming, Mutating, Busy, Mutators
  <2> QED BY <1>0, <1>2, <2>1 DEF NameFollows, Announced
<1> QED BY <1>0, <1>1, <1>2 DEF Coherent, IdentitiesFit

\* Rows that belong together agree, in the table and in what the cache
\* shows of it, while no writer is at work, and the applications know the
\* site's name unless its last announcement was lost, unless writers
\* overlapped or one stopped half-way: one writer leads the table from one coherent
\* state to another, and a late answer never fills the cache.  An outbound
\* call no writer disturbed presents a certificate with its own key
\* (setSetting and readRaw, settings.ts; mtls.ts; s2sFetch.ts).
THEOREM SettingsAlwaysCoherent == SettingSpec => []SettingsCoherent
<1>1. (\E t \in {"windows", "site", "mtls"}, certified \in BOOLEAN : SettingInit(t, certified)) => SettingInv
  BY SettingStart
<1> QED BY <1>1, SettingStep, SettingSound, PTL DEF SettingSpec
=============================================================================
