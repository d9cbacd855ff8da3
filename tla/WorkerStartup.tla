--------------------------- MODULE WorkerStartup ---------------------------
(***************************************************************************)
(* The worker processes (backend/cmd/worker/main.go) from their launch to  *)
(* the task queue: configuration, migrations, the Schedule.  A process     *)
(* that ends with an error is launched again (restart: on-failure in       *)
(* docker/docker-compose.yml).                                             *)
(*                                                                         *)
(* goose (external): UpContext reads the version that was recorded last,   *)
(* applies the next migration and records it in one transaction, and reads *)
(* again until there is no next one; it takes no lock.                     *)
(***************************************************************************)
EXTENDS Integers, FiniteSets

CONSTANTS
    Worker,         \* the worker processes
    ConfigFiles,    \* contents of the YAML file: functions of some settings
    Environments,   \* the environment variables that are set, likewise
    Malformed,      \* a YAML file or a number that does not parse
    OldTables,      \* what the ledger of version 2 may hold: rows of a path, hash, at
    FirstVersions,  \* versions the database may be at
    MaxFaults       \* bound: crashes, failed calls and lost answers

ASSUME MaxFaultsIsNat == MaxFaults \in Nat
ASSUME TablesAreFinite ==
    \A table \in OldTables : IsFiniteSet(table) /\ \A a \in table : a.at \in Nat
ASSUME WorkersAreFinite == IsFiniteSet(Worker)
ASSUME ConcurrencyIsInt ==
    /\ \A file \in ConfigFiles \ {Malformed} :
          "concurrency" \in DOMAIN file => file["concurrency"] \in Int
    /\ \A env \in Environments :
          "concurrency" \in DOMAIN env => env["concurrency"] \in Int \cup {Malformed}
ASSUME OldDatabases == FirstVersions \subseteq 0 .. 4

VARIABLES
    config,         \* what config.Load returns, Malformed for an error
    phase,          \* Worker -> how far main has come
    seen,           \* Worker -> the version goose read
    version,        \* Postgres: the version recorded last
    schema,         \* Postgres: the latest migration the tables have seen
    rows,           \* Postgres: ingested_files
    oldRows,        \* history: its rows before the first launch
    schedule,       \* Temporal: does the Schedule exist
    faults          \* faults so far
dbVars == <<version, schema, rows>>
startupVars == <<config, phase, seen, dbVars, oldRows, schedule, faults>>

(***************************************************************************)
(* config.Load: the environment over the file over the defaults.           *)
(***************************************************************************)
Defaults == [concurrency |-> 8, trigger |-> "schedule", interval |-> "30s"]

Load(file, env) ==
    IF file = Malformed \/ ("concurrency" \in DOMAIN env /\ env["concurrency"] = Malformed)
    THEN Malformed
    ELSE [x \in DOMAIN Defaults |->
            IF x \in DOMAIN env THEN env[x]
            ELSE IF x \in DOMAIN file THEN file[x] ELSE Defaults[x]]

(***************************************************************************)
(* The migrations.                                                         *)
(***************************************************************************)
LastMigration == 4

\* Mutant: <= where 0003 has <.
NewestRowsStrictly(table) ==
    {a \in table : ~\E b \in table : a.path = b.path /\ a.at <= b.at}

\* The DELETE of 0003 leaves the rows that no row of their path is newer than.
NewestRows(table) == {a \in table : ~\E b \in table : a.path = b.path /\ a.at < b.at}

OneRowPerPath(table) == \A a, b \in table : a.path = b.path => a = b

\* May the statements of a migration succeed on the tables as they are?  1
\* does nothing, 2 creates the table, 3 keys it by path, 4 renames the columns.
CanApply(n) ==
    \/ n = 1
    \/ n = 2 /\ schema < 2
    \/ n = 3 /\ schema \in {2, 3} /\ OneRowPerPath(NewestRows(rows))
    \/ n = 4 /\ schema \in {2, 3}

(***************************************************************************)
(* main.                                                                   *)
(***************************************************************************)
StartupInit ==
    /\ \E file \in ConfigFiles, env \in Environments : config = Load(file, env)
    /\ phase = [w \in Worker |-> "down"]
    /\ seen = [w \in Worker |-> 0]
    /\ version \in FirstVersions
    /\ schema = version
    /\ rows \in IF version = 2 THEN OldTables ELSE {{}}
    /\ oldRows = rows
    /\ schedule \in {FALSE, version = LastMigration}
    /\ faults = 0

StartupTypeOK ==
    /\ phase \in [Worker -> {"down", "migrate", "apply", "schedule", "create", "serving"}]
    /\ seen \in [Worker -> 0 .. LastMigration]
    /\ version \in 0 .. LastMigration
    /\ schema \in 0 .. LastMigration
    /\ rows \subseteq oldRows
    /\ schedule \in BOOLEAN
    /\ faults \in 0 .. MaxFaults

Fault == faults < MaxFaults /\ faults' = faults + 1

\* w goes on, or ends: log.Fatalf.
Enter(w, p) == phase' = [phase EXCEPT ![w] = p]

Launch(w) ==
    /\ phase[w] = "down"
    /\ config # Malformed
    /\ Enter(w, "migrate")
    /\ UNCHANGED <<config, seen, dbVars, oldRows, schedule, faults>>

\* goose reads the version; migrate.Up returns when it is the last one, and
\* main goes on to dial Temporal.
ReadVersion(w) ==
    /\ phase[w] = "migrate"
    /\ Enter(w, IF version = LastMigration THEN "schedule" ELSE "apply")
    /\ seen' = [seen EXCEPT ![w] = version]
    /\ UNCHANGED <<config, dbVars, oldRows, schedule, faults>>

\* Mutant: main logs the error of migrate.Up and goes on.
ApplyMigrationErrorLogged(w) ==
    LET n == seen[w] + 1
    IN  /\ phase[w] = "apply"
        /\ \/ /\ CanApply(n)
              /\ version' = n
              /\ schema' = IF n > schema THEN n ELSE schema
              /\ rows' = IF n = 3 THEN NewestRows(rows) ELSE rows
              /\ Enter(w, "migrate")
           \/ ~CanApply(n) /\ Enter(w, "schedule") /\ UNCHANGED dbVars
        /\ UNCHANGED <<config, seen, oldRows, schedule, faults>>

\* The next migration, in a transaction: recorded if its statements succeed;
\* otherwise rolled back, and the process ends.
ApplyMigration(w) ==
    LET n == seen[w] + 1
    IN  /\ phase[w] = "apply"
        /\ \/ /\ CanApply(n)
              /\ version' = n
              /\ schema' = IF n > schema THEN n ELSE schema
              /\ rows' = IF n = 3 THEN NewestRows(rows) ELSE rows
              /\ Enter(w, "migrate")
           \/ ~CanApply(n) /\ Enter(w, "down") /\ UNCHANGED dbVars
        /\ UNCHANGED <<config, seen, oldRows, schedule, faults>>

WantsSchedule == config.trigger \in {"schedule", "both"}
IntervalParses == config.interval \in {"30s"}

\* Mutant: ensureSchedule creates without asking first.
CreateAlways(w) ==
    /\ phase[w] = "schedule"
    /\ Enter(w, IF WantsSchedule THEN IF IntervalParses THEN "create" ELSE "down" ELSE "serving")
    /\ UNCHANGED <<config, seen, dbVars, oldRows, schedule, faults>>

\* ensureSchedule up to Describe: any error counts as a missing Schedule.
DescribeSchedule(w) ==
    /\ phase[w] = "schedule"
    /\ \/ /\ ~WantsSchedule
          /\ Enter(w, "serving") /\ UNCHANGED faults
       \/ /\ WantsSchedule /\ ~IntervalParses
          /\ Enter(w, "down") /\ UNCHANGED faults
       \/ /\ WantsSchedule /\ IntervalParses
          /\ \/ schedule /\ Enter(w, "serving") /\ UNCHANGED faults
             \/ ~schedule /\ Enter(w, "create") /\ UNCHANGED faults
             \/ schedule /\ Enter(w, "create") /\ Fault
    /\ UNCHANGED <<config, seen, dbVars, oldRows, schedule>>

\* Create, an error if the Schedule exists by now; its answer may be lost.
CreateSchedule(w) ==
    /\ phase[w] = "create"
    /\ schedule' = TRUE
    /\ \/ schedule /\ Enter(w, "down") /\ UNCHANGED faults
       \/ ~schedule /\ Enter(w, "serving") /\ UNCHANGED faults
       \/ ~schedule /\ Enter(w, "down") /\ Fault
    /\ UNCHANGED <<config, seen, dbVars, oldRows>>

\* A process dies, or a call that changes nothing fails it.
Crash(w) ==
    /\ phase[w] # "down"
    /\ Enter(w, "down")
    /\ Fault
    /\ UNCHANGED <<config, seen, dbVars, oldRows, schedule>>

StartupStep(w) ==
    \/ Launch(w)
    \/ ReadVersion(w)
    \/ ApplyMigration(w)
    \/ DescribeSchedule(w)
    \/ CreateSchedule(w)

(***************************************************************************)
(* Properties.                                                             *)
(***************************************************************************)
\* 0003 leaves each path the newest of its rows and no other, however often
\* and by whomever it is applied.
RekeyKeepsTheNewest ==
    schema >= 3 =>
        /\ OneRowPerPath(rows)
        /\ \A old \in oldRows : \E r \in rows : r.path = old.path /\ r.at >= old.at

\* "Apply migrations so the ingestion ledger table exists": no worker gets to the
\* Schedule or the task queue, where its activities query the tables, before they
\* have had the last migration, although workers that race lose transactions and
\* the slower one records an old version again.
ServingMeansMigrated ==
    \A w \in Worker :
        phase[w] \in {"schedule", "create", "serving"} => schema = LastMigration

\* What keeps a worker out for good: two rows of a path with one time, which
\* 0003 cannot choose from; and migration 1, which succeeds on any database,
\* recorded again by the slower of two workers after later ones.  Every launch
\* then applies 2 again.
Tied == schema = 2 /\ ~OneRowPerPath(NewestRows(rows))
Rewound == version < schema
Startable == config # Malformed /\ (WantsSchedule => IntervalParses)

\* Workers that race through the migrations and the Schedule, crash and lose
\* answers all serve in the end.
WorkersServeInTheEnd ==
    Startable => <>[](\A w \in Worker : phase[w] = "serving") \/ <>[](Tied \/ Rewound)

\* "Idempotent: an existing Schedule with the same ID is treated as success."
ExistingScheduleIsSuccess ==
    [][\A w \in Worker : schedule /\ CreateSchedule(w) => phase'[w] = "serving"]_startupVars
=============================================================================
