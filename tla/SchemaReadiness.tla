---------------------------- MODULE SchemaReadiness ----------------------------
(***************************************************************************)
(* The database schema from its creation to the answer of a readiness      *)
(* check: the Alembic migration (migrations/), the local create_all of a   *)
(* starting process (lyte/app.py, lyte/persistence/database.py) and the    *)
(* two-statement schema_readiness behind /readyz and /api/live.  On SQLite *)
(* each DDL statement is durable by itself and a crash may fall between    *)
(* any two; on PostgreSQL a migration is one transaction.                  *)
(***************************************************************************)
EXTENDS Integers, Sequences, FiniteSets, SequencesExt

CONSTANTS AppProcess,
          TableOrder, \* the tables, in the order the migration creates them
          Immutable,  \* the tables, in order, that get triggers against update and delete
          Crashes     \* bound on crashes of the migration and of starting processes

Tables == ToSet(TableOrder)
Guards == ToSet(Immutable)

ASSUME TablesAssumption == TableOrder \in Seq(Tables) /\ Immutable \in Seq(Guards)

HeadRevision == "20260904_0001"
Foreign == "another release"   \* a revision this release has no script for

VARIABLES dialect, production,
          tables, guards,
          versioned,  \* alembic_version exists
          revision,   \* the rows of alembic_version
          migration,  \* the running migration and its next statement
          crashes,
          downgraded, \* a downgrade has begun since the last upgrade
          activity, missing, present,
          seen,       \* what was true of the database at some instant of the request
          readiness

database == <<tables, guards, versioned, revision>>
schemaVars == <<dialect, production, database, migration, crashes, downgraded, activity, missing,
          present, seen, readiness>>

-----------------------------------------------------------------------------
(* What is true of the schema now. *)

Whole == tables = Tables
Facts ==
  {f \in {"head", "guarded", "local", "downgraded"} :
     CASE f = "head"    -> Whole /\ revision = {HeadRevision}
       [] f = "guarded" -> Whole /\ revision = {HeadRevision} /\ guards = Guards
       [] f = "local"   -> Whole /\ ~versioned
       [] f = "downgraded" -> downgraded}

InRequest == {"listed", "versions read"}
\* Every step extends what the requests in progress have lived through.
Witness == seen' = [p \in AppProcess |-> IF activity'[p] \in InRequest THEN seen[p] \cup Facts' ELSE seen[p]]

-----------------------------------------------------------------------------
(* The migration.  One runs at a time. *)

NoMigration == [op |-> "none", at |-> 0]
\* upgrade: the version table, every table, every guard, then the version row.
UpgradeLength == Len(TableOrder) + Len(Immutable)
StampAt == UpgradeLength + 1

ProcessesStay == UNCHANGED <<dialect, production, activity, missing, present, readiness>>

Exists(n) ==
  IF n <= Len(TableOrder) THEN TableOrder[n] \in tables
  ELSE Immutable[n - Len(TableOrder)] \in guards

\* Alembic makes sure of its own table and compares the revision; at the head there is
\* nothing to do, and a revision without a script is an error.
BeginUpgrade ==
  /\ dialect = "sqlite"
  /\ migration = NoMigration
  /\ revision = {}
  /\ versioned' = TRUE
  /\ migration' = [op |-> "upgrade", at |-> 1]
  /\ revision' = IF StampAt = 0 THEN {HeadRevision} ELSE {}
  /\ downgraded' = FALSE
  /\ UNCHANGED <<tables, guards, crashes>> /\ ProcessesStay /\ Witness

UpgradeStatement ==
  LET n == migration.at
  IN  /\ migration.op = "upgrade"
      /\ n <= UpgradeLength
      /\ IF Exists(n)
         THEN migration' = NoMigration /\ UNCHANGED <<tables, guards>>
         ELSE /\ migration' = [migration EXCEPT !.at = n + 1]
              /\ IF n <= Len(TableOrder)
                 THEN tables' = tables \cup {TableOrder[n]} /\ UNCHANGED guards
                 ELSE guards' = guards \cup {Immutable[n - Len(TableOrder)]} /\ UNCHANGED tables
      /\ UNCHANGED <<versioned, revision, crashes, downgraded>> /\ ProcessesStay /\ Witness

Stamp ==
  /\ migration.op = "upgrade"
  /\ migration.at = UpgradeLength + 1
  /\ revision' = {HeadRevision}
  /\ migration' = NoMigration
  /\ UNCHANGED <<tables, guards, versioned, crashes, downgraded>> /\ ProcessesStay /\ Witness

\* PostgreSQL: all of it or, when a table exists, none of it.
UpgradeTransaction ==
  /\ dialect = "postgresql"
  /\ revision = {}
  /\ tables = {}
  /\ tables' = Tables
  /\ guards' = Guards
  /\ versioned' = TRUE
  /\ revision' = {HeadRevision}
  /\ downgraded' = FALSE
  /\ UNCHANGED <<migration, crashes>> /\ ProcessesStay /\ Witness

\* downgrade: the guards, the tables, each in reverse, then the version row.
BeginDowngrade ==
  /\ dialect = "sqlite"
  /\ migration = NoMigration
  /\ revision = {HeadRevision}
  /\ migration' = [op |-> "downgrade", at |-> UpgradeLength]
  /\ downgraded' = TRUE
  /\ UNCHANGED <<database, crashes>> /\ ProcessesStay /\ Witness

\* DROP TRIGGER IF EXISTS; a missing table is an error.
DowngradeStatement ==
  LET n == migration.at
      isTable == n <= Len(TableOrder)
  IN  /\ migration.op = "downgrade"
      /\ n >= 1
      /\ migration' = IF isTable /\ ~Exists(n) THEN NoMigration ELSE [migration EXCEPT !.at = n - 1]
      /\ tables' = IF isTable THEN tables \ {TableOrder[n]} ELSE tables
      /\ guards' = guards \ {IF isTable THEN TableOrder[n] ELSE Immutable[n - Len(TableOrder)]}
      /\ UNCHANGED <<versioned, revision, crashes, downgraded>> /\ ProcessesStay /\ Witness

Unstamp ==
  /\ migration.op = "downgrade"
  /\ migration.at = 0
  /\ revision' = {}
  /\ migration' = NoMigration
  /\ UNCHANGED <<tables, guards, versioned, crashes, downgraded>> /\ ProcessesStay /\ Witness

DowngradeTransaction ==
  /\ dialect = "postgresql"
  /\ revision = {HeadRevision}
  /\ tables' = {}
  /\ guards' = {}
  /\ revision' = {}
  /\ downgraded' = TRUE
  /\ UNCHANGED <<versioned, migration, crashes>> /\ ProcessesStay /\ Witness

\* The statements of SQLite that ran stay.
MigrationCrashes ==
  /\ migration # NoMigration
  /\ crashes < Crashes
  /\ crashes' = crashes + 1
  /\ migration' = NoMigration
  /\ UNCHANGED <<database, downgraded>> /\ ProcessesStay /\ Witness

-----------------------------------------------------------------------------
(* A starting process. *)

\* What a request has read before it reads.
NoTables == [tables |-> {}, versioned |-> FALSE, revision |-> {}]
Proceeds(p, from, to) == activity[p] = from /\ activity' = [activity EXCEPT ![p] = to]
Settled == UNCHANGED <<dialect, production, migration, downgraded>>

\* Production leaves the schema to the migration; elsewhere create_all lists what is missing...
StartProduction(p) ==
  /\ production
  /\ Proceeds(p, "down", "up")
  /\ UNCHANGED <<database, crashes, missing, present, readiness>> /\ Settled /\ Witness

ListMissing(p) ==
  /\ ~production
  /\ Proceeds(p, "down", "creating")
  /\ missing' = [missing EXCEPT ![p] = Tables \ tables]
  /\ UNCHANGED <<database, crashes, present, readiness>> /\ Settled /\ Witness

\* ... and creates it, one table at a time; a table that appeared in between fails the start.
CreateTable(p) ==
  \E n \in DOMAIN TableOrder :
    /\ activity[p] = "creating"
    /\ TableOrder[n] \in missing[p] /\ \A m \in 1 .. n - 1 : TableOrder[m] \notin missing[p]
    /\ IF TableOrder[n] \in tables
       THEN Proceeds(p, "creating", "down") /\ UNCHANGED tables
       ELSE tables' = tables \cup {TableOrder[n]} /\ UNCHANGED activity
    /\ missing' = [missing EXCEPT ![p] = @ \ {TableOrder[n]}]
    /\ UNCHANGED <<guards, versioned, revision, crashes, present, readiness>> /\ Settled /\ Witness

CreationDone(p) ==
  /\ missing[p] = {}
  /\ Proceeds(p, "creating", "up")
  /\ UNCHANGED <<database, crashes, missing, present, readiness>> /\ Settled /\ Witness

ProcessCrashes(p) ==
  /\ crashes < Crashes
  /\ activity[p] # "down"
  /\ crashes' = crashes + 1
  /\ activity' = [activity EXCEPT ![p] = "down"]
  /\ missing' = [missing EXCEPT ![p] = {}]
  /\ present' = [present EXCEPT ![p] = NoTables]
  /\ readiness' = [readiness EXCEPT ![p] = "none"]
  /\ seen' = [seen EXCEPT ![p] = {}]
  /\ UNCHANGED database /\ Settled

-----------------------------------------------------------------------------
(* schema_readiness *)

ListTables(p) ==
  /\ Proceeds(p, "up", "listed")
  /\ present' = [present EXCEPT ![p] = [tables |-> tables, versioned |-> versioned, revision |-> {}]]
  /\ readiness' = [readiness EXCEPT ![p] = "none"]
  /\ seen' = [seen EXCEPT ![p] = Facts]
  /\ UNCHANGED <<database, crashes, missing>> /\ Settled

ReadVersions(p) ==
  /\ Proceeds(p, "listed", "versions read")
  /\ present' = [present EXCEPT ![p].revision = IF present[p].versioned THEN revision ELSE {}]
  /\ UNCHANGED <<database, crashes, missing, readiness>> /\ Settled /\ Witness

\* Defects: the tables are not compared; the version table is not looked for.
Lacking_None(view) == {}
Lacking(view) == Tables \ view.tables
Damaged(view) == view.versioned /\ view.revision = {}

State(view) ==
  CASE Lacking(view) # {}                         -> "MISSING_REQUIRED_TABLES"
    [] Lacking(view) = {} /\ Damaged(view)        -> "MISSING_MIGRATION_REVISION"
    [] Lacking(view) = {} /\ ~Damaged(view)
         /\ view.revision \notin {{}, {HeadRevision}}     -> "STALE_MIGRATION_REVISION"
    [] Lacking(view) = {} /\ view.revision = {HeadRevision} -> "READY_MIGRATED"
    [] OTHER -> IF production THEN "MISSING_MIGRATION_REVISION" ELSE "READY_LOCAL_SCHEMA"

\* The ping that follows may fail, as may the statements before it.
AnswerReadiness(p) ==
  /\ Proceeds(p, "versions read", "up")
  /\ \E state \in {State(present[p]), "UNAVAILABLE"} : readiness' = [readiness EXCEPT ![p] = state]
  /\ present' = [present EXCEPT ![p] = NoTables]
  /\ UNCHANGED <<database, crashes, missing, seen>> /\ Settled

ReadinessFails(p) ==
  /\ Proceeds(p, "listed", "up")
  /\ readiness' = [readiness EXCEPT ![p] = "UNAVAILABLE"]
  /\ present' = [present EXCEPT ![p] = NoTables]
  /\ UNCHANGED <<database, crashes, missing, seen>> /\ Settled

-----------------------------------------------------------------------------
SchemaInit ==
  /\ dialect \in {"sqlite", "postgresql"}
  /\ production \in BOOLEAN /\ (production => dialect = "postgresql")
  /\ \/ tables = {} /\ versioned = FALSE /\ revision = {}
     \/ tables = Tables /\ versioned = TRUE /\ revision = {Foreign}
  /\ guards = tables \cap Guards
  /\ migration = NoMigration
  /\ crashes = 0
  /\ downgraded = FALSE
  /\ activity = [p \in AppProcess |-> "down"]
  /\ missing = [p \in AppProcess |-> {}]
  /\ present = [p \in AppProcess |-> NoTables]
  /\ seen = [p \in AppProcess |-> {}]
  /\ readiness = [p \in AppProcess |-> "none"]

Migrate ==
  \/ BeginUpgrade \/ UpgradeStatement \/ Stamp \/ UpgradeTransaction
  \/ BeginDowngrade \/ DowngradeStatement \/ Unstamp \/ DowngradeTransaction \/ MigrationCrashes
ProcessStep(p) ==
  \/ StartProduction(p) \/ ListMissing(p) \/ CreateTable(p) \/ CreationDone(p) \/ ProcessCrashes(p)
  \/ ListTables(p) \/ ReadVersions(p) \/ AnswerReadiness(p) \/ ReadinessFails(p)
SchemaNext == Migrate \/ \E p \in AppProcess : ProcessStep(p)
SchemaSpec == SchemaInit /\ [][SchemaNext]_schemaVars

-----------------------------------------------------------------------------
(* Properties. *)

\* A ready answer of schema_readiness, though its two reads fall between the statements of a
\* migration, of another process's create_all or around their crashes, was true of the
\* database at one instant of the request; and unless a downgrade was begun, a migrated
\* schema that is called ready has all its append-only guards at that instant.
ReadyWasTrue ==
  \A p \in AppProcess :
    /\ readiness[p] = "READY_MIGRATED" => "head" \in seen[p] /\ {"guarded", "downgraded"} \cap seen[p] # {}
    /\ readiness[p] = "READY_LOCAL_SCHEMA" => "local" \in seen[p] /\ ~production

\* The version row vouches for the whole migration: outside a downgrade a database at the
\* head has every table and guard, whatever crashed before (migrations/env.py commits the
\* row last).
HeadIsWhole == revision = {HeadRevision} /\ ~downgraded => Whole /\ guards = Guards

\* Both for every state between migration, start and readiness check.
SchemaSound == ReadyWasTrue /\ HeadIsWhole

=============================================================================
