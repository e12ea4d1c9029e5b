------------------------------ MODULE Migrations ------------------------------
(***************************************************************************)
(* scripts/run_migration.py as run_bot calls it before it opens the        *)
(* database: every pending migration in order, statement by statement, and *)
(* its row in schema_migrations.  A failure ends the process, a supervisor *)
(* starts it again.                                                        *)
(*                                                                         *)
(* sqlite3's connection opens a transaction by itself before a statement   *)
(* that changes rows, and before no other.  A schema statement ahead of    *)
(* the first of those is committed as it runs.                             *)
(***************************************************************************)
EXTENDS Naturals, Sequences

CONSTANTS
    Files   \* db/migrations: each a sequence of statements, which are "rows",
            \* "schema", or "schema_if" (IF NOT EXISTS)

ASSUME MigrationAssumption == Files \in Seq(Seq({"rows", "schema", "schema_if"}) \ {<<>>})

VARIABLES
    schema,     \* how many statements of each migration are in force
    recorded,   \* the migrations with a committed row in schema_migrations
    running,    \* the migration under way, 0 before the first look and none left
    done,       \* its statements executed by this process
    inTxn,      \* a transaction is open
    saved,      \* statements of it that would survive a rollback
    process     \* "down", "migrating" or "trading"

migrationVars == <<schema, recorded, running, done, inTxn, saved, process>>

Versions == DOMAIN Files
Whole(v) == schema[v] = Len(Files[v])

MigrationTypeOK ==
    /\ schema \in [Versions -> Nat] /\ \A v \in Versions : schema[v] <= Len(Files[v])
    /\ recorded \subseteq Versions
    /\ running \in Versions \cup {0} /\ done \in Nat /\ saved \in Nat
    /\ inTxn \in BOOLEAN
    /\ process \in {"down", "migrating", "trading"}

\* The base schema of bootstrap_db and no migration yet.
MigrationInit ==
    /\ schema = [v \in Versions |-> 0] /\ recorded = {} /\ running = 0 /\ done = 0
    /\ inTxn = FALSE /\ saved = 0 /\ process = "down"

Pending == Versions \ recorded

Start ==
    /\ process = "down" /\ process' = "migrating"
    /\ UNCHANGED <<schema, recorded, running, done, inTxn, saved>>

NextPending ==
    /\ process = "migrating" /\ running = 0
    /\ \E v \in Pending :
         /\ \A w \in Pending : v <= w
         /\ running' = v /\ saved' = schema[v]
    /\ done' = 0
    /\ UNCHANGED <<schema, recorded, inTxn, process>>

\* A schema statement that is already in force fails, unless it says IF NOT EXISTS.
CanExecute(v) ==
    Files[v][done + 1] = "schema" => done >= schema[v]

Execute ==
    /\ running # 0 /\ done < Len(Files[running]) /\ CanExecute(running)
    /\ done' = done + 1
    /\ schema' = [schema EXCEPT ![running] = IF done' > @ THEN done' ELSE @]
    /\ inTxn' = (inTxn \/ Files[running][done'] = "rows")
    /\ saved' = IF inTxn' THEN saved ELSE schema'[running]
    /\ UNCHANGED <<recorded, running, process>>

\* Faulty variant: a statement that is in force already counts as all done.
DuplicateSwallowed ==
    running # 0 /\ (done < Len(Files[running]) => ~ CanExecute(running))

AllExecuted == running # 0 /\ done = Len(Files[running])

\* The row is the last statement of the transaction, which it opens if no
\* other did; its commit makes everything durable.
RecordVersion ==
    /\ AllExecuted
    /\ recorded' = recorded \cup {running} /\ running' = 0 /\ done' = 0
    /\ inTxn' = FALSE /\ saved' = 0
    /\ UNCHANGED <<schema, process>>

\* The process ends; what is in the transaction is rolled back.
RollBack ==
    /\ schema' = IF running = 0 THEN schema ELSE [schema EXCEPT ![running] = saved]
    /\ running' = 0 /\ done' = 0 /\ inTxn' = FALSE /\ saved' = 0
    /\ process' = "down"
    /\ UNCHANGED recorded

\* The next statement cannot be executed on this schema.
StatementFails ==
    /\ running # 0 /\ done < Len(Files[running]) /\ ~ CanExecute(running)
    /\ RollBack

\* A kill, a full disk, a lock, foreign keys that do not check.
MigrationDies ==
    /\ process = "migrating"
    /\ (running # 0 /\ ~ AllExecuted) => CanExecute(running)
    /\ RollBack

\* Nothing is pending: the bot opens the database.
OpenDatabase ==
    /\ process = "migrating" /\ running = 0 /\ Pending = {}
    /\ process' = "trading"
    /\ UNCHANGED <<schema, recorded, running, done, inTxn, saved>>

Stop ==
    /\ process = "trading" /\ process' = "down"
    /\ UNCHANGED <<schema, recorded, running, done, inTxn, saved>>

MigrationNext ==
    \/ Start \/ NextPending \/ Execute \/ RecordVersion \/ OpenDatabase
    \/ StatementFails \/ MigrationDies \/ Stop

MigrationSpec == MigrationInit /\ [][MigrationNext]_migrationVars

-----------------------------------------------------------------------------
\* The bot never trades on a schema that lacks a statement of any migration, in
\* whatever statement earlier attempts died: a recorded migration, which is never
\* run again, is whole.
TradesOnWholeSchema == process = "trading" => \A v \in Versions : Whole(v)

\* "Apply a migration atomically": after a failure the schema is in its
\* pre-migration state.
MigrationIsAtomic ==
    process = "down" => \A v \in Versions : schema[v] = 0 \/ Whole(v)

\* "a deploy that ships a new migration self-heals": a restart takes up a
\* migration that an earlier process died over.
RestartsGoOn == running # 0 /\ done < Len(Files[running]) => CanExecute(running)
=============================================================================
