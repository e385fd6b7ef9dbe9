----------------------------- MODULE DataStore -----------------------------
(***************************************************************************)
(* The database file and the processes that open it: the constructors of   *)
(* Repository and WorkerRepository, and server/migrations.ts.  The web     *)
(* app, the worker, the migration of a deployment and the reconciliation   *)
(* tool are processes of their own, perhaps of different releases, that    *)
(* open the same file at the same time and may be killed at any statement. *)
(*                                                                         *)
(* A migration is the tables and columns it adds and the tables it touches *)
(* (their columns, indexes, checks and triggers are left out).             *)
(***************************************************************************)
EXTENDS Integers, Sequences, FiniteSets

CONSTANTS
  Processes,
  Releases,        (* numbers of migrations that releases know             *)
  Configurations   (* worker policies                                      *)

App == "none"      (* the configuration of a process that has no policy    *)

VARIABLES
  release, configuration,   (* of each process                             *)
  stage,           (* of each process, see Stages                          *)
  disk,            (* what is committed: version, schema, policy           *)
  lock,            (* the process that has begun a transaction, or App     *)
  draft,           (* the version and the schema in that transaction       *)
  applied          (* its migration was executed but not yet numbered      *)

storeVars == <<release, configuration, stage, disk, lock, draft, applied>>
-----------------------------------------------------------------------------
Migration(adds, touches) == [adds |-> adds, touches |-> touches]

CoreTables == {"owners", "rate_limits", "personas", "runs", "attempts", "jobs",
  "usage_reservations", "events", "evidence", "findings", "finding_evidence"}
CoreMigration == Migration(CoreTables, {})
WorkerMigration == Migration({"runs.execution_mode", "runs.scenario", "worker_policy", "launches",
  "attempt_steps"}, {"runs", "jobs", "attempts", "evidence"})
UsageMigration == Migration({"remote_usage_observations"}, {"jobs"})
SiteMigration == Migration({"runs.controlled_site_id"}, {"runs"})
ReportMigration == Migration({"report_snapshots", "browser_session_bindings", "replay_grants"},
  {"runs", "jobs", "launches", "owners", "attempts"})
FindingMigration == Migration({}, {"report_snapshots"})
ContextMigration == Migration({"browser_contexts", "context_selections", "context_operations"},
  {"owners", "jobs", "attempts"})
TakeoverMigration ==
  Migration({"takeover_controls", "takeover_commands", "takeover_intervals"}, {"attempts"})
RerunMigration == Migration({"rerun_runs", "rerun_attempts"}, {"runs", "attempts"})
ReproductionMigration == Migration({"reproductions", "reproduction_candidates"}, {})
AdvancedMigration == Migration({"reproduction_worker_jobs"}, {"reproductions"})
PublicMigration == Migration({"runs.public_execution_policy", "runs.public_asset_policy",
  "native_resources", "native_resource_events"}, {"runs", "runs.controlled_site_id", "launches"})
ManagedMigration ==
  Migration({"managed_runs", "managed_attempts", "managed_progress"}, {"owners"})
ReferenceMigration ==
  Migration({"managed_attempts.provider_agent_id", "managed_attempts.provider_task"},
            {"managed_attempts"})
FinishMigration == Migration({"managed_attempts.finished_at"}, {"managed_attempts"})
FailureMigration == Migration({"managed_attempts.first_create_failure"}, {"managed_attempts"})

migrations ==
  <<CoreMigration, WorkerMigration, UsageMigration, SiteMigration, ReportMigration,
    FindingMigration, ContextMigration, TakeoverMigration, RerunMigration, ReproductionMigration,
    AdvancedMigration, PublicMigration, ManagedMigration, ReferenceMigration, FinishMigration,
    FailureMigration>>

ASSUME DataStoreAssumption ==
  /\ Releases \subseteq 1..Len(migrations)
  /\ App \notin Processes /\ App \notin Configurations

SchemaOf(version) == UNION {migrations[i].adds : i \in 1..version}
Fits(m, schema) == m.touches \subseteq schema /\ m.adds \cap schema = {}
-----------------------------------------------------------------------------
Stages == {"down", "opened", "migrating", "migrated", "open",
           "newer_database", "busy", "migration_failed", "policy_mismatch"}
Goes(p, to) == stage' = [stage EXCEPT ![p] = to]

(* Before a transaction ends its changes are nobody's: the database file   *)
(* goes back to what is committed.  Faulty variant: migrations run outside *)
(* of a transaction and stay.                                              *)
StayAsTheyAre == [disk EXCEPT !.version = draft.version, !.schema = draft.schema]
RolledBack == disk
NoDraft == [version |-> 0, schema |-> {}]
EndTransaction == lock' = App /\ applied' = FALSE /\ draft' = NoDraft

OpenFile(p) ==
  /\ stage[p] = "down" /\ Goes(p, "opened")
  /\ UNCHANGED <<release, configuration, disk, lock, draft, applied>>

(* BEGIN IMMEDIATE waits for the other writer, for 5 seconds.              *)
TooBusy(p) ==
  /\ stage[p] \in {"opened", "migrated"} /\ lock # App
  /\ Goes(p, "busy")
  /\ UNCHANGED <<release, configuration, disk, lock, draft, applied>>

BeginMigrations(p) ==
  /\ stage[p] = "opened" /\ lock = App
  /\ UNCHANGED <<release, configuration, disk>>
  /\ IF disk.version > release[p]
     THEN Goes(p, "newer_database") /\ UNCHANGED <<lock, draft, applied>>
     ELSE /\ Goes(p, "migrating") /\ lock' = p /\ applied' = FALSE
          /\ draft' = [version |-> disk.version, schema |-> disk.schema]

ApplyMigration(p) ==
  /\ stage[p] = "migrating" /\ ~applied /\ draft.version < release[p]
  /\ UNCHANGED <<release, configuration>>
  /\ LET m == migrations[draft.version + 1] IN
     IF Fits(m, draft.schema)
     THEN /\ draft' = [draft EXCEPT !.schema = @ \cup m.adds] /\ applied' = TRUE
          /\ UNCHANGED <<stage, disk, lock>>
     ELSE Goes(p, "migration_failed") /\ disk' = RolledBack /\ EndTransaction

NumberMigration(p) ==
  /\ stage[p] = "migrating" /\ applied
  /\ draft' = [draft EXCEPT !.version = @ + 1] /\ applied' = FALSE
  /\ UNCHANGED <<release, configuration, stage, disk, lock>>

CommitMigrations(p) ==
  /\ stage[p] = "migrating" /\ ~applied /\ draft.version = release[p]
  /\ disk' = [disk EXCEPT !.version = draft.version, !.schema = draft.schema]
  /\ Goes(p, IF configuration[p] = App THEN "open" ELSE "migrated")
  /\ EndTransaction /\ UNCHANGED <<release, configuration>>

(* WorkerRepository: the first worker's policy is the database's.          *)
AgreePolicy(p) ==
  /\ stage[p] = "migrated" /\ lock = App
  /\ IF disk.policy \in {App, configuration[p]}
     THEN Goes(p, "open") /\ disk' = [disk EXCEPT !.policy = configuration[p]]
     ELSE Goes(p, "policy_mismatch") /\ UNCHANGED disk
  /\ UNCHANGED <<release, configuration, lock, draft, applied>>

(* The process ends or is killed, and may be started again. *)
Die(p) ==
  /\ stage[p] # "down" /\ Goes(p, "down")
  /\ IF lock = p THEN disk' = RolledBack /\ EndTransaction
     ELSE UNCHANGED <<disk, lock, draft, applied>>
  /\ UNCHANGED <<release, configuration>>
-----------------------------------------------------------------------------
(* A new database, or one that a release left behind. *)
Database(version, policy) ==
  [version |-> version, schema |-> SchemaOf(version), policy |-> policy]

DataStoreInit ==
  /\ release \in [Processes -> Releases]
  /\ configuration \in [Processes -> Configurations \cup {App}]
  /\ disk \in {Database(0, App)} \cup
              {Database(v, c) : v \in Releases, c \in Configurations \cup {App}}
  /\ stage = [p \in Processes |-> "down"]
  /\ lock = App /\ applied = FALSE /\ draft = NoDraft

DataStoreNext ==
  \E p \in Processes :
    \/ OpenFile(p) \/ TooBusy(p) \/ BeginMigrations(p) \/ ApplyMigration(p)
    \/ NumberMigration(p) \/ CommitMigrations(p) \/ AgreePolicy(p) \/ Die(p)

DataStoreSpec == DataStoreInit /\ [][DataStoreNext]_storeVars
-----------------------------------------------------------------------------
(* However many processes of whatever releases start and die on the file,  *)
(* it always has the tables of its version, so that no migration ever runs *)
(* twice or is missed, and the workers that are open share one policy      *)
(* (Repository.constructor, WorkerRepository.constructor).                 *)
StoreIsWhole ==
  /\ disk.schema = SchemaOf(disk.version)
  /\ \A p \in Processes :
       /\ stage[p] # "migration_failed"
       /\ stage[p] = "open" =>
            disk.version >= release[p] /\ configuration[p] \in {App, disk.policy}
=============================================================================
