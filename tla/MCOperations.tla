---------------------------- MODULE MCOperations ----------------------------
(* The instance of the parts an operator runs: the rotation of the SSO's   *)
(* signing keys and of the portal's client key, the first-run wizards, the *)
(* start and stop of the services, and the migrations.  They share no      *)
(* state; each behaviour is one of the chosen part, the others rest.       *)
EXTENDS SigningKeys, PortalKey, Setup, Lifecycle, Migrations, TLC

VARIABLE part
opsVars == <<part, vars, keyVars, setupVars, lifecycleVars, migrationVars>>

OpsInit ==
    /\ Init /\ MigrationsInit
    /\ PortalKeyInit([cur |-> 2, pend |-> 0, wait |-> -1, retired |-> 1 :> Retention, old |-> TRUE])
    /\ \/ part \in {"signing", "client", "migrations"} /\ SetupInit("sso") /\ LifecycleInit("sso")
       \/ part = "setup" /\ SetupInit("portal") /\ LifecycleInit("sso")
       \/ part = "setup" /\ SetupInit("sso") /\ LifecycleInit("sso")
       \/ part = "lifecycle" /\ SetupInit("sso") /\ LifecycleInit("sso")
       \/ part = "lifecycle" /\ SetupInit("sso") /\ LifecycleInit("portal")
SigningStep ==
    /\ part = "signing" /\ Next
    /\ UNCHANGED <<part, keyVars, setupVars, lifecycleVars, migrationVars>>
ClientKeyStep ==
    /\ part = "client" /\ PortalKeyNext
    /\ UNCHANGED <<part, vars, setupVars, lifecycleVars, migrationVars>>
(* Bound: two of the ways in which one installation may be disturbed.      *)
SetupStep ==
    /\ part = "setup" /\ SetupNext /\ Cardinality(shared') <= 2
    /\ UNCHANGED <<part, vars, keyVars, lifecycleVars, migrationVars>>
LifecycleStep ==
    /\ part = "lifecycle" /\ LifecycleNext
    /\ UNCHANGED <<part, vars, keyVars, setupVars, migrationVars>>
MigrationStep ==
    /\ part = "migrations" /\ MigrationsNext
    /\ UNCHANGED <<part, vars, keyVars, setupVars, lifecycleVars>>
OpsNext == SigningStep \/ ClientKeyStep \/ SetupStep \/ LifecycleStep \/ MigrationStep
OpsSpec == OpsInit /\ [][OpsNext]_opsVars
=============================================================================
