------------------------------ MODULE Lifecycle ------------------------------
(***************************************************************************)
(* The life of the process: main of cmd/app/main.go and NewServer of       *)
(* internal/app/app.go open the database pools (gormsqlite/db.go), apply   *)
(* the migrations, start the outbox dispatcher, store the bootstrap API    *)
(* key and listen; a signal, a failing listener or a failing start ends    *)
(* the run, and the resources are closed in the order of their closers.    *)
(* Requests and the dispatcher go on meanwhile. The program is started     *)
(* again with another configuration on the same file.                      *)
(*                                                                         *)
(* Clients send one API key, the one that is configured as the bootstrap   *)
(* key; a configuration differs from the next one in its tenant.           *)
(***************************************************************************)
EXTENDS Naturals

CONSTANTS
    Tenants,
    NoTenant,       \* no bootstrap key is configured; the key is not stored
    Requests,       \* HTTP requests, over all the runs
    Nobody,         \* the writer connection is free
    NumMigrations,  \* the files of migrations/files
    MaxRuns,        \* bound: starts of the program
    MaxFaults       \* bound: failing calls and crashes

ASSUME LifecycleAssumption ==
    /\ NoTenant \notin Tenants
    /\ Nobody \notin Requests
    /\ NumMigrations \in Nat /\ MaxRuns \in Nat /\ MaxFaults \in Nat

Pools == {"reader", "writer"}

VARIABLES
    schema,      \* the migrations that are applied to the file
    key,         \* the tenant of the row of api_keys with the key
    tenant,      \* cfg.BootstrapTenant of this run
    phase,       \* where main is
    cause,       \* why the run ends
    pool,        \* db.R and db.W
    holder,      \* the request that holds the one writer connection
    dispatcher,  \* the goroutine of the dispatcher
    cancelled,   \* the context of the dispatcher
    listener,    \* the listener of the server
    signal,      \* a signal has been delivered to sigCh
    pc,          \* where every request is
    caller,      \* the tenant every request was authenticated as
    runs, faults \* starts and faults so far

file == <<schema, key>>
server == <<listener, signal>>
worker == <<dispatcher, cancelled>>
requests == <<holder, pc, caller>>
vars == <<file, tenant, phase, cause, pool, worker, server, requests, runs, faults>>

Starting == {"open_reader", "open_writer", "migrate", "configure", "bootstrap"}
Ending == {"shutdown", "cancel", "wait", "close_reader", "close_writer", "exit"}
Causes == {"none", "start", "bootstrap", "signal", "timeout", "listen"}
Active == {"auth", "body", "begin", "tx", "ping"}
Answers == {"ok", "error", "refused", "ready", "unready"}

-----------------------------------------------------------------------------

Init ==
    /\ schema = 0
    /\ key = NoTenant
    /\ tenant = NoTenant
    /\ phase = "down"
    /\ cause = "none"
    /\ pool = [p \in Pools |-> "none"]
    /\ holder = Nobody
    /\ dispatcher = "none"
    /\ cancelled = FALSE
    /\ listener = "none"
    /\ signal = FALSE
    /\ pc = [r \in Requests |-> "new"]
    /\ caller = [r \in Requests |-> NoTenant]
    /\ runs = 0
    /\ faults = 0

\* The program is started with a bootstrap key for a tenant, or with none.
Launch(t) ==
    /\ phase = "down"
    /\ runs < MaxRuns
    /\ runs' = runs + 1
    /\ tenant' = t
    /\ phase' = "open_reader"
    /\ UNCHANGED <<file, cause, pool, worker, server, requests, faults>>

(***************************************************************************)
(* NewServer. A step that fails closes what is open and returns its error. *)
(***************************************************************************)

\* The start goes on with phase p ...
GoOn(p) == phase' = p /\ UNCHANGED <<cause, faults>>

\* ... or fails for a reason that is none of the program's.
FailStart(p, c) ==
    /\ faults < MaxFaults
    /\ faults' = faults + 1
    /\ phase' = p
    /\ cause' = c

\* Open, the pool of the readers.
OpenReader ==
    /\ phase = "open_reader"
    /\ \/ GoOn("open_writer") /\ pool' = [pool EXCEPT !.reader = "open"]
       \/ FailStart("exit", "start") /\ UNCHANGED pool
    /\ UNCHANGED <<file, tenant, worker, server, requests, runs>>

\* Open, the pool with the one writer connection.
OpenWriter ==
    /\ phase = "open_writer"
    /\ \/ GoOn("migrate") /\ pool' = [pool EXCEPT !.writer = "open"]
       \/ FailStart("close_reader", "start") /\ UNCHANGED pool
    /\ UNCHANGED <<file, tenant, worker, server, requests, runs>>

\* migrations.Up: goose applies the missing files one by one, each in its own
\* transaction, until none is left or one fails or the five seconds are over.
Migrate ==
    /\ phase = "migrate"
    /\ \/ /\ schema < NumMigrations
          /\ schema' = schema + 1
          /\ GoOn("migrate")
       \/ /\ schema = NumMigrations
          /\ GoOn("configure")
          /\ UNCHANGED schema
       \/ /\ FailStart("close_reader", "start")
          /\ UNCHANGED schema
    /\ UNCHANGED <<key, tenant, pool, worker, server, requests, runs>>

\* The webhook is not configured or has a secret and a valid URL, and the
\* dispatcher is started; or the program ends.
Configure ==
    /\ phase = "configure"
    /\ \/ GoOn("bootstrap") /\ dispatcher' = "idle"
       \/ FailStart("close_reader", "start") /\ UNCHANGED dispatcher
    /\ UNCHANGED <<file, tenant, pool, cancelled, server, requests, runs>>

\* Mutant: ON CONFLICT DO NOTHING.
BootstrapOnce ==
    /\ phase = "bootstrap"
    /\ \/ GoOn("serve") /\ key' = IF key = NoTenant THEN tenant ELSE key
       \/ tenant # NoTenant /\ FailStart("close_reader", "bootstrap") /\ UNCHANGED key
    /\ UNCHANGED <<schema, tenant, pool, worker, server, requests, runs>>

\* The bootstrap key, if there is one, is stored: its row is inserted, or gets
\* the configured tenant. If that fails the database is closed, with the
\* dispatcher running.
Bootstrap ==
    /\ phase = "bootstrap"
    /\ \/ GoOn("serve") /\ key' = IF tenant = NoTenant THEN key ELSE tenant
       \/ tenant # NoTenant /\ FailStart("close_reader", "bootstrap") /\ UNCHANGED key
    /\ UNCHANGED <<schema, tenant, pool, worker, server, requests, runs>>

(***************************************************************************)
(* main, once it has a server.                                             *)
(***************************************************************************)

\* The goroutine of ListenAndServe has its listener.
Listen ==
    /\ phase = "serve"
    /\ listener = "none"
    /\ listener' = "listening"
    /\ UNCHANGED <<file, tenant, phase, cause, pool, worker, signal, requests, runs, faults>>

\* ListenAndServe returns: the address is in use, or accepting fails. The server
\* is not shut down.
ListenFails ==
    /\ phase = "serve"
    /\ faults < MaxFaults
    /\ faults' = faults + 1
    /\ listener' = "closed"
    /\ cause' = "listen"
    /\ phase' = "cancel"
    /\ UNCHANGED <<file, tenant, pool, worker, signal, requests, runs>>

\* SIGINT or SIGTERM, once signal.Notify is called. (Before it a signal kills
\* the process, as Crash does.)
Signal ==
    /\ phase = "serve"
    /\ ~ signal
    /\ signal' = TRUE
    /\ UNCHANGED <<file, tenant, phase, cause, pool, worker, listener, requests, runs, faults>>

\* server.Shutdown closes the listener ...
Shutdown ==
    /\ phase = "serve"
    /\ signal
    /\ listener' = "closed"
    /\ phase' = "shutdown"
    /\ UNCHANGED <<file, tenant, cause, pool, worker, signal, requests, runs, faults>>

InProgress == {r \in Requests : pc[r] \in Active}

\* Mutant: server.Close, which does not wait for the requests.
ShutdownAtOnce ==
    /\ phase = "shutdown"
    /\ phase' = "cancel"
    /\ cause' = "signal"
    /\ UNCHANGED <<file, tenant, pool, worker, server, requests, runs, faults>>

\* ... and waits for the requests ...
ShutdownEnds ==
    /\ phase = "shutdown"
    /\ InProgress = {}
    /\ phase' = "cancel"
    /\ cause' = "signal"
    /\ UNCHANGED <<file, tenant, pool, worker, server, requests, runs, faults>>

\* Mutant: Shutdown is called with context.Background().
ShutdownWaits ==
    /\ phase = "shutdown"
    /\ InProgress = {}
    /\ phase' = "cancel"
    /\ cause' = "timeout"
    /\ UNCHANGED <<file, tenant, pool, worker, server, requests, runs, faults>>

\* ... or gives up after ten seconds.
ShutdownTimesOut ==
    /\ phase = "shutdown"
    /\ InProgress # {}
    /\ phase' = "cancel"
    /\ cause' = "timeout"
    /\ UNCHANGED <<file, tenant, pool, worker, server, requests, runs, faults>>

\* resourceCloser: the dispatcher is closed first. Its Close cancels ...
Cancel ==
    /\ phase = "cancel"
    /\ cancelled' = TRUE
    /\ phase' = "wait"
    /\ UNCHANGED <<file, tenant, cause, pool, dispatcher, server, requests, runs, faults>>

\* Mutant: Close does not wait.
WaitNot ==
    /\ phase = "wait"
    /\ phase' = "close_reader"
    /\ UNCHANGED <<file, tenant, cause, pool, worker, server, requests, runs, faults>>

\* ... and waits for the goroutine.
Wait ==
    /\ phase = "wait"
    /\ dispatcher = "stopped"
    /\ phase' = "close_reader"
    /\ UNCHANGED <<file, tenant, cause, pool, worker, server, requests, runs, faults>>

\* DB.Close and closeGORM: a pool that was opened is closed. A transaction that
\* has a connection keeps it.
Closed(p) == [pool EXCEPT ![p] = IF @ = "open" THEN "closed" ELSE @]

CloseReader ==
    /\ phase = "close_reader"
    /\ pool' = Closed("reader")
    /\ phase' = "close_writer"
    /\ UNCHANGED <<file, tenant, cause, worker, server, requests, runs, faults>>

CloseWriter ==
    /\ phase = "close_writer"
    /\ pool' = Closed("writer")
    /\ phase' = "exit"
    /\ UNCHANGED <<file, tenant, cause, worker, server, requests, runs, faults>>

\* The process is gone, and what was in progress with it.
Gone(fate) ==
    /\ phase' = "down"
    /\ cause' = "none"
    /\ pool' = [p \in Pools |-> "none"]
    /\ dispatcher' = "none"
    /\ cancelled' = FALSE
    /\ listener' = "none"
    /\ signal' = FALSE
    /\ holder' = Nobody
    /\ pc' = [r \in Requests |-> IF r \in InProgress THEN fate ELSE pc[r]]
    /\ UNCHANGED <<file, tenant, caller, runs>>

\* main returns or calls log.Fatal.
Exit == phase = "exit" /\ Gone("cut") /\ UNCHANGED faults

Crash ==
    /\ phase # "down"
    /\ faults < MaxFaults
    /\ faults' = faults + 1
    /\ Gone("crashed")

(***************************************************************************)
(* The goroutine of the dispatcher: loop and dispatchBatch.                *)
(***************************************************************************)

Dispatcher(from, to) ==
    /\ dispatcher = from
    /\ dispatcher' = to
    /\ UNCHANGED <<file, tenant, phase, cause, pool, cancelled, server, requests, runs, faults>>

\* FetchPending finds a due event, and it is published.
Fetch == pool.reader = "open" /\ ~ cancelled /\ Dispatcher("idle", "busy")

\* The result is written, in a transaction of its own.
Record == pool.writer = "open" /\ holder = Nobody /\ ~ cancelled /\ Dispatcher("busy", "idle")

\* The context is cancelled or the database closed: the result is dropped.
Drop == (cancelled \/ pool.writer = "closed") /\ Dispatcher("busy", "idle")

Stop == cancelled /\ Dispatcher("idle", "stopped")

(***************************************************************************)
(* Requests. The body of a write may take any time to arrive.              *)
(***************************************************************************)

Request(r, from, to) ==
    /\ pc[r] = from
    /\ pc' = [pc EXCEPT ![r] = to]
    /\ UNCHANGED <<file, tenant, phase, cause, pool, worker, server, runs, faults>>

\* A write, or GET /readyz.
Arrive(r) ==
    /\ listener = "listening"
    /\ Request(r, "new", "auth") \/ Request(r, "new", "ping")
    /\ UNCHANGED <<holder, caller>>

\* requireAPIKey, Authenticate and FindByTokenHash.
Authenticate(r) ==
    /\ \/ pool.reader = "open" /\ key # NoTenant /\ Request(r, "auth", "body")
       \/ pool.reader = "open" /\ key = NoTenant /\ Request(r, "auth", "refused")
       \/ pool.reader = "closed" /\ Request(r, "auth", "no_db")
    /\ caller' = [caller EXCEPT ![r] = key]
    /\ UNCHANGED holder

ReadBody(r) == Request(r, "body", "begin") /\ UNCHANGED <<holder, caller>>

\* WriteTX waits for the writer connection.
Begin(r) ==
    /\ \/ /\ pool.writer = "open"
          /\ holder = Nobody
          /\ Request(r, "begin", "tx")
          /\ holder' = r
       \/ /\ pool.writer = "closed"
          /\ Request(r, "begin", "no_db")
          /\ UNCHANGED holder
    /\ UNCHANGED caller

\* The transaction is committed or fails, also if its pool was closed meanwhile.
EndTx(r) ==
    /\ Request(r, "tx", "ok") \/ Request(r, "tx", "error")
    /\ holder' = Nobody
    /\ UNCHANGED caller

\* readyz: PingContext with the writer's pool, for at most two seconds.
Ping(r) ==
    /\ \/ pool.writer = "open" /\ holder = Nobody /\ Request(r, "ping", "ready")
       \/ pool.writer = "closed" /\ Request(r, "ping", "unready")
       \/ pool.writer = "open" /\ holder # Nobody /\ Request(r, "ping", "unready")
    /\ UNCHANGED <<holder, caller>>

Start == OpenReader \/ OpenWriter \/ Migrate \/ Configure \/ Bootstrap
End == Shutdown \/ ShutdownEnds \/ ShutdownTimesOut \/ Cancel \/ Wait
         \/ CloseReader \/ CloseWriter \/ Exit

Next ==
    \/ \E t \in Tenants \cup {NoTenant} : Launch(t)
    \/ Start \/ Listen \/ ListenFails \/ Signal \/ End \/ Crash
    \/ Fetch \/ Record \/ Drop \/ Stop
    \/ \E r \in Requests :
         Arrive(r) \/ Authenticate(r) \/ ReadBody(r) \/ Begin(r) \/ EndTx(r) \/ Ping(r)

\* The goroutine of main runs on, and so does the one of the dispatcher when its
\* context is cancelled. Nothing is assumed of the clients.
Fairness == WF_vars(Start) /\ WF_vars(End) /\ WF_vars(Drop) /\ WF_vars(Stop)

Spec == Init /\ [][Next]_vars /\ Fairness

-----------------------------------------------------------------------------
(***************************************************************************)
(* Properties.                                                             *)
(***************************************************************************)

Closing == \E p \in Pools : pool[p] = "closed"

\* A pool is never closed under a running dispatcher, in whatever way the run
\* ends, except when the bootstrap key could not be stored: NewServer then
\* closes the database and leaves the dispatcher to the end of the process.
DispatcherHasDatabase ==
    Closing /\ dispatcher \in {"idle", "busy"} => cause = "bootstrap"

\* A request that was accepted finds the database closed, or is cut off by the
\* end of the process, only if Shutdown gave up on it or the listener failed
\* (then main closes the database without a Shutdown). An orderly end answers
\* every request.
OnlyLateRequestsLost ==
    [][\A r \in Requests :
        pc[r] \in Active /\ pc'[r] \in {"no_db", "cut"} => cause \in {"timeout", "listen"}]_vars

\* "Health/readiness checks cover DB connectivity and migration state."
\* (specs/phase3/observability-slo.md:10). Nothing is served before the file is
\* what this run needs: readyz answers ready, and a request is authenticated, only
\* when every migration is applied, also over starts that failed half-way; and the
\* key then stands for the tenant of this run or, without one, of the last run that
\* had a bootstrap key: a restart with another tenant moves it.
ServedAsConfigured ==
    [][\A r \in Requests :
        /\ pc[r] = "ping" /\ pc'[r] = "ready" => pool.writer = "open"
        /\ pc'[r] # pc[r] /\ pc'[r] \in {"ready", "body"} =>
            /\ schema = NumMigrations
            /\ tenant # NoTenant => key = tenant
        /\ pc'[r] # pc[r] /\ pc'[r] = "body" =>
            /\ caller'[r] # NoTenant
            /\ tenant # NoTenant => caller'[r] = tenant]_vars

\* A start comes to an end, and so does a run that got a signal, whatever the
\* clients and the dispatcher do meanwhile.
StartsAndStops ==
    (phase \in Starting \/ signal) ~> (phase \in {"down", "serve"} /\ ~ signal)

=============================================================================
