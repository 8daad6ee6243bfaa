----------------------------- MODULE Migrations -----------------------------
(***************************************************************************)
(* apply_migrations of backend/app/db/migrate.py, run by several processes *)
(* at once: every container starts with a migrator of its own, and nothing *)
(* keeps them apart but PostgreSQL.  The scripts may be run again (all is  *)
(* IF NOT EXISTS), but each belongs into one transaction with its row.     *)
(***************************************************************************)
EXTENDS Naturals, FiniteSets

CONSTANTS
    Migrators,  \* processes
    Last        \* the scripts in MIGRATIONS_DIR are 1 .. Last, in sorted order

ASSUME LastAssumption == Last \in Nat

VARIABLES
    table,      \* schema_migrations exists
    recorded,   \* its rows
    runs,       \* how often each script was committed in this behaviour
    migrator    \* program counter and locals of each process

mvars == <<table, recorded, runs, migrator>>

Scripts == 1 .. Last

\* todo: the scripts that are neither in existing nor applied by this process.
MigratorStates ==
    [pc : {"idle", "creating", "reading", "applying", "committing", "done", "failed"},
     todo : SUBSET Scripts]

\* A database on which earlier deployments left some of the scripts.
MigrationsInit ==
    /\ table \in BOOLEAN
    /\ recorded \in IF table THEN {1 .. n : n \in 0 .. Last} ELSE {{}}
    /\ runs = [f \in Scripts |-> 0]
    /\ migrator = [m \in Migrators |-> [pc |-> "idle", todo |-> {}]]

Becomes(m, pc) == migrator' = [migrator EXCEPT ![m].pc = pc]

StartMigrator(m) ==
    /\ migrator' = [migrator EXCEPT ![m] = [pc |-> IF table THEN "reading" ELSE "creating",
                                            todo |-> {}]]
    /\ UNCHANGED <<table, recorded, runs>>

\* CREATE TABLE IF NOT EXISTS of a process that did not see the table: it fails if
\* another has created it meanwhile.
CreateTable(m) ==
    /\ migrator[m].pc = "creating"
    /\ table' = TRUE
    /\ Becomes(m, IF table THEN "failed" ELSE "reading")
    /\ UNCHANGED <<recorded, runs>>

ReadExisting(m) ==
    /\ migrator[m].pc = "reading"
    /\ migrator' = [migrator EXCEPT ![m] = [pc |-> "applying", todo |-> Scripts \ recorded]]
    /\ UNCHANGED <<table, recorded, runs>>

\* The glob, sorted.
AnyOf(todo) == CHOOSE f \in todo : \A g \in todo : g <= f     \* mutant

FirstOf(todo) == CHOOSE f \in todo : \A g \in todo : f <= g

IsRecordedForgotten(f) == FALSE                              \* mutant

IsRecorded(f) == f \in recorded

\* The script runs in its transaction once no other holds its locks.  If its row is
\* there by then, the script or the INSERT fails on a key.
RunScript(m) ==
    LET f == FirstOf(migrator[m].todo)
    IN  /\ migrator[m].pc = "applying"
        /\ migrator[m].todo # {}
        /\ \A o \in Migrators :
              migrator[o].pc = "committing" => FirstOf(migrator[o].todo) # f
        /\ Becomes(m, IF IsRecorded(f) THEN "failed" ELSE "committing")
        /\ UNCHANGED <<table, recorded, runs>>

CommitScript(m) ==
    LET f == FirstOf(migrator[m].todo)
    IN  /\ migrator[m].pc = "committing"
        /\ recorded' = recorded \cup {f}
        /\ runs' = [runs EXCEPT ![f] = @ + 1]
        /\ migrator' = [migrator EXCEPT ![m] = [pc |-> "applying", todo |-> @.todo \ {f}]]
        /\ UNCHANGED table

FinishMigrator(m) ==
    /\ migrator[m].pc = "applying"
    /\ migrator[m].todo = {}
    /\ Becomes(m, "done")
    /\ UNCHANGED <<table, recorded, runs>>

\* The database refuses or cannot be reached, a lock times out: the transaction is
\* rolled back.
MigratorBreaks(m) ==
    /\ migrator[m].pc \in {"creating", "reading", "applying", "committing"}
    /\ Becomes(m, "failed")
    /\ UNCHANGED <<table, recorded, runs>>

\* Its return code is taken, or its container is gone; a transaction is rolled back.
DropMigrator(m) ==
    /\ migrator' = [migrator EXCEPT ![m] = [pc |-> "idle", todo |-> {}]]
    /\ UNCHANGED <<table, recorded, runs>>

Migrate(m) ==
    \/ CreateTable(m)
    \/ ReadExisting(m)
    \/ RunScript(m)
    \/ CommitScript(m)
    \/ FinishMigrator(m)

-----------------------------------------------------------------------------
(* Properties *)

\* Migrators that have read schema_migrations before the others commit neither commit a
\* script again nor one before its predecessors: what is recorded is a prefix, and a
\* transaction that is open is for the next script.
AppliedOnceInOrder ==
    /\ \A f \in Scripts : runs[f] <= 1
    /\ recorded = 1 .. Cardinality(recorded)
    /\ \A m \in Migrators : migrator[m].pc = "committing" =>
          FirstOf(migrator[m].todo) = Cardinality(recorded) + 1

=============================================================================
