--------------------------- MODULE PluginLifecycle ---------------------------
(***************************************************************************)
(* server/plugin.ts and server/multitenancy/tenant_index.ts: what the plugin  *)
(* sets up for its configuration, and the migration of the tenants' indices   *)
(* when the server starts.  start() does not wait for the migration, so        *)
(* requests are served meanwhile; one failing index stops the process, and a   *)
(* supervisor starts it again.                                              *)
(***************************************************************************)
EXTENDS Naturals, FiniteSets

CONSTANTS
    Indices,         \* the tenants' indices, as tenantinfo lists them
    MaxDown          \* bound: times the process ends

ASSUME LifecycleAssumption == IsFiniteSet(Indices) /\ MaxDown \in Nat

VARIABLES
    conf,        \* opensearch_dashboards.yml, as far as it matters here
    phase,       \* of the process: down, setup, started
    migration,   \* of this process: idle, asking, running, done, failed
    todo,        \* indices it has still to migrate
    migrated,    \* indices that are up to date
    down
lifecycle == <<conf, phase, migration, todo, migrated, down>>

(* What setup() is decided by; `auth' is whether auth.type names a type that    *)
(* getAuthenticationHandler knows, with several only where they are enabled.  *)
Confs == [enabled : BOOLEAN, aggregation : BOOLEAN, enable_private : BOOLEAN, auth : BOOLEAN]

(* multitenancy.enabled: tenant routes, short links, indices. *)
Multitenant == conf.enabled

(* The saved objects wrapper is added only with the aggregation view. *)
Wrapped == conf.enabled /\ conf.aggregation

LifecycleInit ==
    /\ conf \in Confs
    /\ phase = "down"
    /\ migration = "idle" /\ todo = {} /\ migrated = {} /\ down = 0

-----------------------------------------------------------------------------
(* An authentication type that is not known fails the setup of the plugin. *)
setup ==
    /\ phase = "down" /\ conf.auth
    /\ phase' = "setup"
    /\ UNCHANGED <<conf, migration, todo, migrated, down>>

(* The template for new indices is put and the migration begun, neither waited   *)
(* for; the template failing is logged.                                      *)
start ==
    /\ phase = "setup"
    /\ phase' = "started"
    /\ migration' = IF Multitenant THEN "asking" ELSE "idle"
    /\ UNCHANGED <<conf, todo, migrated, down>>

(* A failure of tenantinfo is logged and thrown to nobody: nothing is migrated. *)
getTenantInfoWithInternalUser ==
    /\ migration = "asking"
    /\ \/ migration' = "running" /\ todo' = Indices
       \/ migration' = "failed" /\ UNCHANGED todo
    /\ UNCHANGED <<conf, phase, migrated, down>>

migrate(index) ==
    /\ migration = "running" /\ index \in todo
    /\ migrated' = migrated \cup {index}
    /\ todo' = todo \ {index}
    /\ UNCHANGED <<conf, phase, migration, down>>

migrateTenantIndices ==
    /\ migration = "running" /\ todo = {}
    /\ migration' = "done"
    /\ UNCHANGED <<conf, phase, todo, migrated, down>>

Stopped == phase' = "down" /\ migration' = "idle" /\ todo' = {} /\ down' = down + 1

(* Fault: the failure is logged, and the next index taken. *)
migrateFails_GoesOn(index) ==
    /\ migration = "running" /\ index \in todo /\ down < MaxDown
    /\ todo' = todo \ {index} /\ down' = down + 1
    /\ UNCHANGED <<conf, phase, migration, migrated>>

(* process.exit(1) *)
migrateFails(index) ==
    /\ migration = "running" /\ index \in todo /\ down < MaxDown
    /\ Stopped
    /\ UNCHANGED <<conf, migrated>>

crash ==
    /\ phase # "down" /\ down < MaxDown
    /\ Stopped
    /\ UNCHANGED <<conf, migrated>>

Goes ==
    \/ setup \/ start \/ getTenantInfoWithInternalUser \/ migrateTenantIndices
    \/ \E index \in Indices : migrate(index)
Ends == crash \/ \E index \in Indices : migrateFails(index)

-----------------------------------------------------------------------------
(* A server that has finished its migration has left no index out, however     *)
(* often it was stopped in the middle: what an earlier process did not get to   *)
(* is done, never skipped after a failure.                                   *)
NoneLeftOut == migration = "done" => migrated = Indices
=============================================================================
