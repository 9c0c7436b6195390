------------------------------ MODULE Startup ------------------------------
(***************************************************************************)
(* main of src/main.rs and Database::new and migrate of src/db.rs: how the *)
(* processes of the service start on one database, and how they end.       *)
(*                                                                         *)
(*   "init"     settings, logging and the RPC client                       *)
(*   "connect"  the attempts to connect, with a sleep after each failure   *)
(*   "lock"     the migrator waits for its advisory lock                   *)
(*   "migrate"  it has the lock, and applies what is missing               *)
(*   "spawn"    the server runs, and the workers are spawned one by one    *)
(*   "select"   main waits for the server or for all the workers           *)
(*   "exited"   main has returned, or the process was killed               *)
(*                                                                         *)
(* What the workers do is Indexer; here they only exist.  The migrator is  *)
(* that of sqlx: the lock belongs to its session and goes with it, and     *)
(* every migration is a transaction of its own.                            *)
(***************************************************************************)
EXTENDS Backoff

CONSTANTS
    Processes,    \* the processes of the service
    NoProcess,    \* nobody
    Migrations,   \* how many there are in migrations/
    MaxRetries,   \* max_retries of Database::new
    WorkerCount   \* settings.workers.count of each process

ASSUME StartupAssumption ==
    /\ NoProcess \notin Processes
    /\ Migrations \in Nat
    /\ MaxRetries \in Nat
    /\ WorkerCount \in [Processes -> Nat]

VARIABLES
    phase,    \* where main is
    retries,  \* retry_count
    delay,    \* the delay of the connection's backoff
    waited,   \* history: how long it has slept between its attempts
    reason,   \* history: why it has exited
    server,   \* the task of the server: "none", "up" or "down"
    workers,  \* how many workers have been spawned
    applied,  \* the migrations that the database has
    lock      \* who has the migrator's lock

local == <<phase, retries, delay, waited, reason, server, workers>>
vars == <<local, applied, lock>>

Phases == {"init", "connect", "lock", "migrate", "spawn", "select", "exited"}
Reasons == {"none", "settings", "connect", "migrate", "server", "workers", "killed"}

Init ==
    /\ phase = [p \in Processes |-> "init"]
    /\ retries = [p \in Processes |-> 0]
    /\ delay = [p \in Processes |-> MinDelay]
    /\ waited = [p \in Processes |-> 0]
    /\ reason = [p \in Processes |-> "none"]
    /\ server = [p \in Processes |-> "none"]
    /\ workers = [p \in Processes |-> 0]
    /\ applied = 0
    /\ lock = NoProcess

-----------------------------------------------------------------------------
GoesTo(p, next) == phase' = [phase EXCEPT ![p] = next]

\* main returns, or the process is killed: the runtime drops every task, and the
\* database every session.
Exit(p, why) ==
    /\ GoesTo(p, "exited")
    /\ reason' = [reason EXCEPT ![p] = why]
    /\ server' = [server EXCEPT ![p] = "none"]
    /\ workers' = [workers EXCEPT ![p] = 0]
    /\ lock' = IF lock = p THEN NoProcess ELSE lock
    /\ UNCHANGED <<retries, delay, waited, applied>>

\* Settings::load, telemetry::init, HeliusApi::new: each may return an error.
Configure(p) ==
    /\ phase[p] = "init"
    /\ \/ Exit(p, "settings")
       \/ /\ GoesTo(p, "connect")
          /\ UNCHANGED <<retries, delay, waited, reason, server, workers, applied, lock>>

\* Mutant: the server is spawned as soon as there is a pool.
ConnectServing(p) ==
    /\ phase[p] = "connect"
    /\ GoesTo(p, "lock")
    /\ server' = [server EXCEPT ![p] = "up"]
    /\ retries' = [retries EXCEPT ![p] = 0]
    /\ delay' = [delay EXCEPT ![p] = MinDelay]
    /\ waited' = [waited EXCEPT ![p] = 0]
    /\ UNCHANGED <<reason, workers, applied, lock>>

\* The loop of Database::new ends with a pool, and its counters are dropped.
Connect(p) ==
    /\ phase[p] = "connect"
    /\ GoesTo(p, "lock")
    /\ retries' = [retries EXCEPT ![p] = 0]
    /\ delay' = [delay EXCEPT ![p] = MinDelay]
    /\ waited' = [waited EXCEPT ![p] = 0]
    /\ UNCHANGED <<reason, server, workers, applied, lock>>

\* Err(err) if retry_count < max_retries
CanRetry(p) == retries[p] < MaxRetries

\* An attempt fails: sleep and try again.
RetryConnect(p) ==
    /\ phase[p] = "connect"
    /\ CanRetry(p)
    /\ retries' = [retries EXCEPT ![p] = @ + 1]
    /\ \E sleep \in Sleeps(delay[p]) : waited' = [waited EXCEPT ![p] = @ + sleep]
    /\ delay' = [delay EXCEPT ![p] = NextDelay(@)]
    /\ UNCHANGED <<phase, reason, server, workers, applied, lock>>

\* The last attempt fails: "failed to connect to database after {} attempts".
GiveUp(p) ==
    /\ phase[p] = "connect"
    /\ ~CanRetry(p)
    /\ Exit(p, "connect")

-----------------------------------------------------------------------------
(* MIGRATOR.run                                                            *)

LockMigrations(p) ==
    /\ phase[p] = "lock"
    /\ lock = NoProcess
    /\ lock' = p
    /\ GoesTo(p, "migrate")
    /\ UNCHANGED <<retries, delay, waited, reason, server, workers, applied>>

ApplyMigration(p) ==
    /\ phase[p] = "migrate"
    /\ applied < Migrations
    /\ applied' = applied + 1
    /\ UNCHANGED <<local, lock>>

\* A statement fails while main waits for migrate.
MigrationFails(p) ==
    /\ phase[p] \in {"lock", "migrate"}
    /\ Exit(p, "migrate")

\* The migrator returns, and create_server is spawned.
Migrated(p) ==
    /\ phase[p] = "migrate"
    /\ applied = Migrations
    /\ lock' = NoProcess
    /\ GoesTo(p, "spawn")
    /\ server' = [server EXCEPT ![p] = "up"]
    /\ UNCHANGED <<retries, delay, waited, reason, workers, applied>>

-----------------------------------------------------------------------------
(* The tasks.                                                              *)

\* Mutant: a worker that is not in the settings.
SpawnWorkerOneMore(p) ==
    /\ phase[p] = "spawn"
    /\ workers[p] <= WorkerCount[p]
    /\ workers' = [workers EXCEPT ![p] = @ + 1]
    /\ UNCHANGED <<phase, retries, delay, waited, reason, server, applied, lock>>

\* A worker is spawned, and main sleeps for 700 ms: whatever the server does.
SpawnWorker(p) ==
    /\ phase[p] = "spawn"
    /\ workers[p] < WorkerCount[p]
    /\ workers' = [workers EXCEPT ![p] = @ + 1]
    /\ UNCHANGED <<phase, retries, delay, waited, reason, server, applied, lock>>

AllSpawned(p) ==
    /\ phase[p] = "spawn"
    /\ workers[p] = WorkerCount[p]
    /\ GoesTo(p, "select")
    /\ UNCHANGED <<retries, delay, waited, reason, server, workers, applied, lock>>

\* create_server returns: an origin that does not parse, an address that cannot
\* be bound, or an error of the listener.
ServerExits(p) ==
    /\ server[p] = "up"
    /\ server' = [server EXCEPT ![p] = "down"]
    /\ UNCHANGED <<phase, retries, delay, waited, reason, workers, applied, lock>>

\* Mutant: main waits for the workers only.
SelectWorkersOnly(p) ==
    /\ phase[p] = "select"
    /\ workers[p] = 0
    /\ Exit(p, "workers")

\* tokio::select!: the server has exited, or all workers have.  worker_loop does
\* not return, so the latter is the case only if there are none.
Select(p) ==
    /\ phase[p] = "select"
    /\ \/ server[p] = "down" /\ Exit(p, "server")
       \/ workers[p] = 0 /\ Exit(p, "workers")

\* The process is killed.
Kill(p) ==
    /\ phase[p] # "exited"
    /\ Exit(p, "killed")

\* It is started again.
Restart(p) ==
    /\ phase[p] = "exited"
    /\ GoesTo(p, "init")
    /\ reason' = [reason EXCEPT ![p] = "none"]
    /\ retries' = [retries EXCEPT ![p] = 0]
    /\ delay' = [delay EXCEPT ![p] = MinDelay]
    /\ waited' = [waited EXCEPT ![p] = 0]
    /\ UNCHANGED <<server, workers, applied, lock>>

\* main goes on.
MainStep(p) ==
    \/ Configure(p) \/ Connect(p) \/ RetryConnect(p) \/ GiveUp(p)
    \/ ApplyMigration(p) \/ Migrated(p)
    \/ SpawnWorker(p) \/ AllSpawned(p) \/ Select(p)

Next ==
    \E p \in Processes :
        \/ MainStep(p)
        \/ LockMigrations(p)
        \/ MigrationFails(p)
        \/ ServerExits(p)
        \/ Kill(p)
        \/ Restart(p)

Spec == Init /\ [][Next]_vars

\* main is polled, and whatever it awaits ends; the database hands an advisory
\* lock to those that wait for it in turn.
Fairness ==
    \A p \in Processes : WF_vars(MainStep(p)) /\ SF_vars(LockMigrations(p))

FairSpec == Spec /\ Fairness

-----------------------------------------------------------------------------
\* Type correctness; the counters stay within their limits.
TypeOK ==
    /\ phase \in [Processes -> Phases]
    /\ retries \in [Processes -> 0 .. MaxRetries]
    /\ delay \in [Processes -> MinDelay .. MaxDelay]
    /\ waited \in [Processes -> Nat]
    /\ reason \in [Processes -> Reasons]
    /\ server \in [Processes -> {"none", "up", "down"}]
    /\ workers \in [Processes -> Nat]
    /\ \A p \in Processes : workers[p] <= WorkerCount[p]
    /\ applied \in 0 .. Migrations
    /\ lock \in Processes \cup {NoProcess}

\* No request is served and no job is claimed on a schema that is not complete,
\* although several processes start at once, and any of them may fail or be
\* killed between two migrations and be started again.
ServesMigrated ==
    \A p \in Processes : server[p] # "none" \/ workers[p] > 0 => applied = Migrations

\* What the backoff is meant to do over n retries: a delay that is multiplied
\* each time until it is the longest, and sleeps of at least half of each.
Schedule[n \in 0 .. MaxRetries] ==
    IF n = 0 THEN [delay |-> MinDelay, least |-> 0]
    ELSE [delay |-> Smaller(Schedule[n - 1].delay * Larger(Multiplier, 1), MaxDelay),
          least |-> Schedule[n - 1].least + Larger(Schedule[n - 1].delay \div 2, 1)]

\* A process gives up on the database only after all its attempts, and not
\* sooner than the growing sleeps between them allow: a shorter outage never
\* ends it.
PatientConnect ==
    \A p \in Processes : reason[p] = "connect" =>
        /\ retries[p] = MaxRetries
        /\ waited[p] >= Schedule[MaxRetries].least
        /\ waited[p] <= MaxRetries * MaxDelay

\* Every start ends in a process that serves or in one that exits, whichever
\* other processes start; and a process whose server has exited does not live
\* on with its workers.
StartSettles ==
    \A p \in Processes :
        /\ phase[p] = "init" ~> phase[p] \in {"select", "exited"}
        /\ server[p] = "down" ~> phase[p] = "exited"

-----------------------------------------------------------------------------
(* The inductive invariant.                                                *)

\* The tasks run only on the way from the migrations to the end.
TasksAfterMigration ==
    \A p \in Processes :
        /\ phase[p] \in {"spawn", "select"} => applied = Migrations
        /\ phase[p] \notin {"spawn", "select"} => server[p] = "none" /\ workers[p] = 0

\* Whoever migrates has the lock, and nobody else has.
LockIsHeld == \A p \in Processes : phase[p] = "migrate" <=> lock = p

\* What has been slept so far, and how far the delay has grown.
SleptSoFar ==
    \A p \in Processes :
        /\ delay[p] = Schedule[retries[p]].delay
        /\ waited[p] >= Schedule[retries[p]].least
        /\ waited[p] <= retries[p] * MaxDelay
        /\ reason[p] = "connect" => phase[p] = "exited" /\ retries[p] = MaxRetries
        /\ reason[p] # "none" => phase[p] = "exited"

StartupInv == TypeOK /\ TasksAfterMigration /\ LockIsHeld /\ SleptSoFar
=============================================================================
