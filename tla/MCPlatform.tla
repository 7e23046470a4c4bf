----------------------------- MODULE MCPlatform -----------------------------
(* The instance of what administrators change: roles and the catalogs the  *)
(* applications report, the registration of a client, the settings, and    *)
(* the pages for settings and keys.  Each behaviour is one of the chosen   *)
(* part, the others rest.                                                  *)
EXTENDS RoleAuthority, ClientDraft, Settings, AdminPages, TLC

VARIABLE part
platformVars == <<part, roleVars, draftVars, settingVars, pageVars>>

MCCatalogs ==
    { [level |-> (1 :> 0) @@ (2 :> 1), dflt |-> 2],
      [level |-> (2 :> 1), dflt |-> 1],
      [level |-> (1 :> 1), dflt |-> 1] }

TwoRoles == (1 :> 0) @@ (2 :> 1)

(* A young organization, and one where a second administrator without a    *)
(* role in the application may assign a role that has one by default.      *)
Young ==
    RoleInit("r" :> "root" @@ "b" :> "standard", "root" :> 0 @@ "standard" :> 1,
             [s \in OrgRoles |-> IF s = "root" THEN {"org"} ELSE {}],
             [s \in OrgRoles |-> Inherit], "standard", [level |-> TwoRoles, dflt |-> 2], 0)
Grown ==
    RoleInit("r" :> "root" @@ "b" :> "standard" @@ "n" :> None,
             "root" :> 0 @@ "standard" :> 1 @@ "extra" :> 2,
             [s \in OrgRoles |-> IF s = "extra" THEN {} ELSE {"org"}],
             [s \in OrgRoles |-> CASE s = "root" -> 1 [] s = "extra" -> 2 [] OTHER -> Inherit],
             "standard", [level |-> TwoRoles, dflt |-> No], 1)

MCFallback == [idle |-> 2, max |-> 3, trans |-> 1]
MCMax == [windows |-> 2, site |-> 3, mtls |-> 4]
MCBodies == {"idle" :> 3, "max" :> 2, "trans" :> 3, "idle" :> 1 @@ "max" :> 1, "idle" :> 4 @@ "max" :> 4}

Init ==
    /\ DraftInit([k \in Fields |-> 0])
    /\ \/ part = "roles" /\ (Young \/ Grown) /\ SettingInit("site", FALSE) /\ PageInit("settings", {})
       \/ part = "draft" /\ Young /\ SettingInit("site", FALSE) /\ PageInit("settings", {})
       \/ /\ part = "settings" /\ Young /\ PageInit("settings", {})
          /\ \/ \E s \in {"windows", "site", "mtls"} : SettingInit(s, FALSE)
             \/ SettingInit("mtls", TRUE)
       \/ /\ part = "pages" /\ Young /\ SettingInit("site", FALSE)
          /\ PageStart
    /\ part # "roles" => cat = Unsynced /\ \A i \in EventIds : inbox[i] = None
RoleStep == part = "roles" /\ RoleNext /\ UNCHANGED <<part, draftVars, settingVars, pageVars>>
DraftStep == part = "draft" /\ DraftNext /\ UNCHANGED <<part, roleVars, settingVars, pageVars>>
SettingStep == part = "settings" /\ SettingNext /\ UNCHANGED <<part, roleVars, draftVars, pageVars>>
PageStep == part = "pages" /\ PageNext /\ UNCHANGED <<part, roleVars, draftVars, settingVars>>
Next == RoleStep \/ DraftStep \/ SettingStep \/ PageStep
Spec == Init /\ [][Next]_platformVars
=============================================================================
