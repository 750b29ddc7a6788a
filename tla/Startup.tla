------------------------------ MODULE Startup ------------------------------
(***************************************************************************)
(* Starting the process, again and again: main and Build (app.go) load the *)
(* configuration, connect to ClickHouse with retries (repository.go),      *)
(* apply the migrations (migrations.go) and start the buffer.  Any step    *)
(* may fail, the process may crash between any two, and what the           *)
(* migrations did stays.                                                   *)
(*                                                                         *)
(* From "running" on, App.tla says what happens; here the process then     *)
(* stops, by a signal or by a crash.                                       *)
(***************************************************************************)
EXTENDS Config

CONSTANTS
    Machines,     \* what a start may find: [environment, dotEnv, dotEnvOk]
    Tables,       \* the tables it may find: "absent", "old", "full"
    MaxDuration,  \* of a time.Duration, an int64; a unit is 1 ms here
    MaxStarts     \* bound: how often the process is started

VARIABLES
    machine,      \* the environment and the .env file
    main,         \* where main and Build stand
    cfg,          \* what Load returned, once it has
    conn,         \* the ClickHouse connection of this process
    attempt,      \* of Connect's loop
    delay,        \* what Connect's loop waits for
    file,         \* the migrations applied so far
    refused,      \* a migration did not fit the table it met
    buffer,       \* the flush goroutine: "none", "ready", "running"
    ctxDone,      \* the signal has come
    table,        \* the table events in the database
    starts        \* how often the process has been started

own == <<main, cfg, conn, attempt, delay, file, refused, buffer, ctxDone>>
vars == <<machine, own, table, starts>>

(* The delays are less than half of what a Duration holds (146 years).     *)
ASSUME StartupAssumption ==
    /\ MaxDuration \in Nat /\ MaxStarts \in Nat \ {0}
    /\ 2 * Default.maxDelay <= MaxDuration /\ 2 * Default.baseDelay <= MaxDuration
    /\ Tables \subseteq {"absent", "old", "full"}
    /\ \A m \in Machines :
          /\ m.environment \in [Variables -> [kind : STRING, n : Int]]
          /\ m.dotEnv \in [Variables -> [kind : STRING, n : Int]]
          /\ m.dotEnvOk \in BOOLEAN
          /\ \A v \in Durations :
                2 * m.environment[v].n <= MaxDuration /\ 2 * m.dotEnv[v].n <= MaxDuration

Building == {"load", "open", "ping", "backoff", "migrate", "startBuffer", "compose"}

Init ==
    /\ machine \in Machines /\ table \in Tables /\ starts = 1
    /\ main = "load" /\ cfg = Default /\ conn = "none"
    /\ attempt = 0 /\ delay = 0 /\ file = 0 /\ refused = FALSE
    /\ buffer = "none" /\ ctxDone = FALSE

-----------------------------------------------------------------------------
(* Load.                                                                   *)

Environ == Overlay(machine.environment, machine.dotEnv)

Load ==
    /\ main = "load"
    /\ IF machine.dotEnvOk /\ Loads(Environ)
       THEN main' = "open" /\ cfg' = Configuration(Environ)
       ELSE main' = "failed" /\ UNCHANGED cfg
    /\ UNCHANGED <<machine, conn, attempt, delay, file, refused, buffer, ctxDone,
                   table, starts>>

-----------------------------------------------------------------------------
(* Connect.                                                                *)

OrDefault(n, default) == IF n <= 0 THEN default ELSE n

MaxRetries == OrDefault(cfg.maxRetries, 3)
BaseDelay  == OrDefault(cfg.baseDelay, 500)
MaxDelay   == OrDefault(cfg.maxDelay, 10000)

(* int64 arithmetic. *)
Int64(n) == ((n + MaxDuration + 1) % (2 * (MaxDuration + 1))) - (MaxDuration + 1)

(* retryDelay: doubled n times, but max from the first time it exceeds max. *)
(* Its mutant compares at the end only.                                    *)
Doubled[n \in Nat] == IF n = 0 THEN BaseDelay ELSE Int64(2 * Doubled[n - 1])
RetryDelayLate(n) == IF Doubled[n] > MaxDelay THEN MaxDelay ELSE Doubled[n]
RetryDelay(n) == IF \E i \in 1..n : Doubled[i] > MaxDelay THEN MaxDelay ELSE Doubled[n]

Open ==
    /\ main = "open"
    /\ \/ main' = "ping" /\ conn' = "open"
       \/ main' = "failed" /\ UNCHANGED conn
    /\ UNCHANGED <<machine, cfg, attempt, delay, file, refused, buffer, ctxDone,
                   table, starts>>

PingSucceeds ==
    /\ main = "ping" /\ main' = "migrate"
    /\ UNCHANGED <<machine, cfg, conn, attempt, delay, file, refused, buffer,
                   ctxDone, table, starts>>

(* There is another attempt.  Its mutant: <= instead of <. *)
RetriesOnceMore == attempt <= MaxRetries
RetriesLeft == attempt < MaxRetries

PingFails ==
    /\ main = "ping"
    /\ IF RetriesLeft
       THEN main' = "backoff" /\ delay' = RetryDelay(attempt) /\ UNCHANGED conn
       ELSE main' = "failed" /\ conn' = "closed" /\ UNCHANGED delay
    /\ UNCHANGED <<machine, cfg, attempt, file, refused, buffer, ctxDone, table,
                   starts>>

(* The select of the back-off, in which both cases may be ready.  Its      *)
(* mutant sleeps instead.                                                  *)
Sleeps == FALSE
Cancelled == ctxDone

DelayOver ==
    /\ main = "backoff"
    /\ main' = "ping" /\ attempt' = attempt + 1
    /\ UNCHANGED <<machine, cfg, conn, delay, file, refused, buffer, ctxDone,
                   table, starts>>

BackoffCancelled ==
    /\ main = "backoff" /\ Cancelled
    /\ main' = "failed" /\ conn' = "closed"
    /\ UNCHANGED <<machine, cfg, attempt, delay, file, refused, buffer, ctxDone,
                   table, starts>>

-----------------------------------------------------------------------------
(* RunMigrations.                                                          *)

(* The .sql files as sort.Strings orders them. *)
Files == <<"001_create_events", "002_add_priority_to_events">>

(* CREATE TABLE IF NOT EXISTS; ALTER TABLE ... ADD COLUMN IF NOT EXISTS.   *)
(* The mutants: without IF NOT EXISTS.                                     *)
FitsOnce(f) == IF f = "001_create_events" THEN table = "absent" ELSE table = "old"
Fits(f) == f = "001_create_events" \/ table # "absent"
Migrated(f) ==
    IF f = "001_create_events" /\ table = "old" THEN "old" ELSE "full"

Exec ==
    /\ main = "migrate" /\ file < Len(Files) /\ Fits(Files[file + 1])
    /\ table' = Migrated(Files[file + 1]) /\ file' = file + 1
    /\ UNCHANGED <<machine, main, cfg, conn, attempt, delay, refused, buffer,
                   ctxDone, starts>>

(* Build closes the connection when RunMigrations fails.  Its mutant       *)
(* forgets to.                                                             *)
LeaveOpen == UNCHANGED conn
CloseConn == conn' = "closed"

(* The statement does not fit; or the directory or a file cannot be read,  *)
(* or Exec reports an error, whether it has run or not.                    *)
MigrationFails ==
    /\ main = "migrate" /\ file < Len(Files)
    /\ main' = "failed" /\ CloseConn
    /\ refused' = ~Fits(Files[file + 1])
    /\ \/ UNCHANGED table
       \/ Fits(Files[file + 1]) /\ table' = Migrated(Files[file + 1])
    /\ UNCHANGED <<machine, cfg, attempt, delay, file, buffer, ctxDone, starts>>

(* All files are applied.  Its mutant starts the buffer in parallel. *)
MigratedAny == TRUE
MigratedAll == file = Len(Files)

MigrationsDone ==
    /\ main = "migrate" /\ MigratedAll /\ main' = "startBuffer"
    /\ UNCHANGED <<machine, cfg, conn, attempt, delay, file, refused, buffer,
                   ctxDone, table, starts>>

-----------------------------------------------------------------------------
(* startBuffer, compose, Run.                                              *)

StartBuffer ==
    /\ main = "startBuffer"
    /\ IF cfg.strategy = Memory
       THEN main' = "compose" /\ buffer' = "ready" /\ UNCHANGED conn
       ELSE main' = "failed" /\ CloseConn /\ UNCHANGED buffer
    /\ UNCHANGED <<machine, cfg, attempt, delay, file, refused, ctxDone, table,
                   starts>>

(* The flush goroutine starts its ticker, which panics without a period.   *)
StartTicker ==
    /\ buffer = "ready" /\ main \in {"compose", "running"}
    /\ IF cfg.flushInterval > 0
       THEN buffer' = "running" /\ UNCHANGED main
       ELSE main' = "crashed" /\ UNCHANGED buffer
    /\ UNCHANGED <<machine, cfg, conn, attempt, delay, file, refused, ctxDone,
                   table, starts>>

Compose ==
    /\ main = "compose" /\ main' = "running"
    /\ UNCHANGED <<machine, cfg, conn, attempt, delay, file, refused, buffer,
                   ctxDone, table, starts>>

(* Run sees the signal, and shutdown ends the process: App.tla. *)
Stop ==
    /\ main = "running" /\ ctxDone
    /\ main' = "stopped" /\ conn' = "closed"
    /\ UNCHANGED <<machine, cfg, attempt, delay, file, refused, buffer, ctxDone,
                   table, starts>>

Signal ==
    /\ main \in Building \cup {"running"} /\ ~ctxDone /\ ctxDone' = TRUE
    /\ UNCHANGED <<machine, main, cfg, conn, attempt, delay, file, refused, buffer,
                   table, starts>>

(* The process is gone, in the middle of whatever it did. *)
Crash ==
    /\ main \in Building \cup {"running"} /\ main' = "crashed"
    /\ UNCHANGED <<machine, cfg, conn, attempt, delay, file, refused, buffer,
                   ctxDone, starts>>
    /\ \/ UNCHANGED table
       \/ /\ main = "migrate" /\ file < Len(Files) /\ Fits(Files[file + 1])
          /\ table' = Migrated(Files[file + 1])

(* Somebody starts it again. *)
Restart ==
    /\ main \in {"failed", "stopped", "crashed"} /\ starts < MaxStarts
    /\ main' = "load" /\ cfg' = Default /\ conn' = "none"
    /\ attempt' = 0 /\ delay' = 0 /\ file' = 0 /\ refused' = FALSE
    /\ buffer' = "none" /\ ctxDone' = FALSE
    /\ starts' = starts + 1 /\ UNCHANGED <<machine, table>>

MainStep ==
    \/ Load \/ Open \/ PingSucceeds \/ PingFails \/ BackoffCancelled \/ Exec
    \/ MigrationFails \/ MigrationsDone \/ StartBuffer \/ Compose \/ Stop

Next ==
    \/ MainStep \/ DelayOver \/ StartTicker \/ Signal \/ Crash \/ Restart
    \/ main \in {"failed", "stopped", "crashed"} /\ starts = MaxStarts /\ UNCHANGED vars

(* The main goroutine runs, and pings and statements return (Connect gives *)
(* a ping five seconds).  A back-off may last longer than anybody waits.   *)
Spec == Init /\ [][Next]_vars /\ WF_vars(MainStep)

-----------------------------------------------------------------------------
(* Properties.                                                             *)

Loaded == (Building \ {"load"}) \cup {"running", "stopped"}

(* The types; Connect pings at most MaxRetries + 1 times (repository.go:86). *)
TypeOK ==
    /\ machine \in Machines /\ table \in Tables \cup {"old", "full"}
    /\ main \in Building \cup {"running", "failed", "stopped", "crashed"}
    /\ DOMAIN cfg = Settings
    /\ \A s \in Settings \ Words : cfg[s] \in Int
    /\ conn \in {"none", "open", "closed"}
    /\ attempt \in 0..MaxRetries /\ file \in 0..Len(Files)
    /\ delay \in -MaxDuration..MaxDuration
    /\ buffer \in {"none", "ready", "running"}
    /\ refused \in BOOLEAN /\ ctxDone \in BOOLEAN /\ starts \in 1..MaxStarts

(* Build connects to no database that nobody named: although addr,         *)
(* database and username have defaults, there is a connection only if the  *)
(* environment or the .env file sets all three (config.go:299).            *)
NoImplicitDatabase ==
    conn = "open" => \A s \in Required :
        machine.environment[s] # Unset \/ machine.dotEnv[s] # Unset

(* What the environment says in the last variable of a setting that it can *)
(* be said in is what the process uses, whatever the .env file says of it  *)
(* (config.go:87).  The older variables are the last: the .env file's      *)
(* BUFFER_CAPACITY wins over the environment's CHRONOMETRICS_ name.        *)
EnvironmentWins ==
    main \in Loaded => \A s \in Settings :
        LET v == VariablesOf(s)[Len(VariablesOf(s))]
        IN  Usable(s, machine.environment[v])
                => cfg[s] = Value(s, machine.environment[v])

(* Connect waits for some time before each retry, and from the second one  *)
(* on for no longer than RetryMaxDelay: doubling the delay must neither    *)
(* pass the maximum nor wrap, however many retries are configured          *)
(* (retryDelay).  The first delay is RetryBaseDelay whatever the maximum.  *)
BackoffCapped ==
    main = "backoff" => delay > 0 /\ (attempt > 0 => delay <= MaxDelay)

(* A Build that fails leaves nothing behind it: the connection, once open, *)
(* is closed on every error path, and no flush goroutine runs (app.go:43,  *)
(* app.go:49, repository.go:98, repository.go:105).                        *)
NoLeakOnFailure == main = "failed" => conn # "open" /\ buffer = "none"

(* No event is buffered for a table that lacks a column it needs, however  *)
(* many starts it took to apply the migrations (app.go:42, app.go:47).     *)
SchemaBeforeEvents == buffer # "none" => table = "full"

(* The migrations always fit the table they meet: one that a start before  *)
(* has applied, in full, up to any file, or without noticing, is no        *)
(* obstacle (migrations/*.sql, ApplyMigrations runs all of them each time).*)
MigrationsResume == ~refused

(* A signal ends a start that is under way, even in a back-off that would  *)
(* last for hours: Build fails, or Run sees the signal (repository.go:97). *)
SignalEndsStartup == [](ctxDone /\ main \in Building
                          => <>(main \in {"failed", "stopped", "crashed"}))
=============================================================================
