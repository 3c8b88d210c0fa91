-------------------------- MODULE OutboxDispatcher --------------------------
(***************************************************************************)
(* internal/core/usecase/outbox_dispatcher.go over the outbox_events table *)
(* of internal/adapters/sqlite/event_repositories.go: one goroutine polls  *)
(* the rows that are pending and due, publishes them one by one in id      *)
(* order, records each result in a transaction of its own and counts it.   *)
(* The process may be closed or crash between any two of those steps.      *)
(*                                                                         *)
(* Times are seconds on one clock; an action takes no time, the clock may  *)
(* go on between any two. What a row carries (event_id, topic, payload) is *)
(* its position.                                                           *)
(***************************************************************************)
EXTENDS Naturals, Sequences, FiniteSetsExt

CONSTANTS
    MaxRows,    \* bound: rows the table ever holds
    BatchSizes, \* the values that batchSize may have
    MaxRetry,   \* maxRetry
    MaxFaults,  \* bound: SQLite errors, closings and crashes in a behaviour
    MaxTime     \* bound: events are written until then

ASSUME ConstantsAssumption ==
    /\ MaxRows \in Nat
    /\ BatchSizes \subseteq Nat \ {0}
    /\ MaxRetry \in Nat \ {0}
    /\ MaxFaults \in Nat
    /\ MaxTime \in Nat

VARIABLES
    batchSize,  \* how many rows a batch may have, as main was built
    clock,      \* the time
    rows,       \* outbox_events, by id
    pc,         \* where the goroutine is
    now,        \* the time it has read and is going to use, or else 0
    batch,      \* the fetched rows it still has to publish: id -> attempts read
    outcome,    \* what Publish returned for the first of them
    toCount,    \* the counters it still has to add a recorded result to
    cancelled,  \* its context is cancelled
    metrics,    \* the counters of the process
    faults,     \* faults so far
    \* History, which the code does not keep:
    calls,      \* the Publish calls made for every row
    unrecorded, \* those whose result was never written to the row
    arrivals,   \* the rows in the order they first reached the consumer
    earlier,    \* the counters of all the processes before this one, added up
    crashes     \* how many of those died

process == <<pc, now, batch, outcome, toCount, cancelled, metrics>>
history == <<calls, unrecorded, arrivals, earlier, crashes>>
vars == <<batchSize, clock, rows, process, faults, history>>

Ids == DOMAIN rows
Arrived == {arrivals[n] : n \in DOMAIN arrivals}

Statuses == {"pending", "dispatched", "dead"}

\* A row as insertAuditAndOutbox inserts it: due from the time its event was
\* stamped with, occurred_at.
NewRow(stamp) ==
    [status |-> "pending", attempts |-> 0,
     created_at |-> stamp, next_attempt_at |-> stamp]

\* backoffDuration, in seconds.
Backoff(attempt) == IF attempt <= 1 THEN 1 ELSE Min({attempt * attempt, 300})

Counters == {"success", "failure", "dead"}
NoMetrics == [c \in Counters |-> 0]

InStatus(table, s) == {i \in DOMAIN table : table[i].status = s}

\* The failed attempts that a table has recorded: <<row, number of the attempt>>.
FailedAttempts(table) ==
    {p \in (DOMAIN table) \X (1..MaxRetry) : p[2] <= table[p[1]].attempts}

\* What the table says of the counters.
Totals(table) ==
    [success |-> Cardinality(InStatus(table, "dispatched")),
     failure |-> Cardinality(FailedAttempts(table)),
     dead    |-> Cardinality(InStatus(table, "dead"))]

-----------------------------------------------------------------------------

Init ==
    /\ batchSize \in BatchSizes
    /\ clock = 0
    /\ rows = <<>>
    /\ pc = "idle"
    /\ now = 0
    /\ batch = <<>>
    /\ outcome = "none"
    /\ toCount = {}
    /\ cancelled = FALSE
    /\ metrics = NoMetrics
    /\ faults = 0
    /\ calls = <<>>
    /\ unrecorded = <<>>
    /\ arrivals = <<>>
    /\ earlier = NoMetrics
    /\ crashes = 0

\* Time passes.
Tick ==
    /\ \/ clock < MaxTime
       \/ \E i \in InStatus(rows, "pending") : rows[i].next_attempt_at > clock
    /\ clock' = clock + 1
    /\ UNCHANGED <<batchSize, rows, process, faults, history>>

\* The transaction of a mutation commits and its outbox row becomes visible. The
\* event was stamped when the request came in, before it waited for the writer
\* connection: ids are in the order of the commits, stamps need not be.
Enqueue ==
    /\ Len(rows) < MaxRows /\ clock <= MaxTime
    /\ \E stamp \in 0..clock : rows' = Append(rows, NewRow(stamp))
    /\ calls' = Append(calls, 0)
    /\ unrecorded' = Append(unrecorded, 0)
    /\ UNCHANGED <<batchSize, clock, process, faults, arrivals, earlier,
                   crashes>>

\* dispatchBatch begins: FetchPending reads the time ...
TakeNow ==
    /\ pc = "idle"
    /\ ~ cancelled
    /\ pc' = "fetch"
    /\ now' = clock
    /\ UNCHANGED <<batchSize, clock, rows, batch, outcome, toCount, cancelled,
                   metrics, faults, history>>

\* Mutant: the query does not ask for the status.
DueOfAnyStatus == {i \in Ids : rows[i].next_attempt_at <= now}

Due == {i \in Ids : rows[i].status = "pending" /\ rows[i].next_attempt_at <= now}

\* The rows that the query returns, with the attempts they have at this moment.
Fetch(ids) ==
    /\ pc = "fetch"
    /\ batch' = [i \in ids |-> rows[i].attempts]
    /\ pc' = IF ids = {} THEN "idle" ELSE "publish"
    /\ now' = 0
    /\ UNCHANGED <<batchSize, clock, rows, outcome, toCount, cancelled, metrics,
                   faults, history>>

\* Mutant: the query orders by id descending.
FetchNewest == Fetch({i \in Due : Cardinality({j \in Due : j > i}) < batchSize})

\* Mutant: the limit is applied before the conditions of the query.
FetchAmongFirst == Fetch({i \in Due : i <= batchSize})

\* ... and, once it has a reader connection, selects the rows that were due at
\* that time: those with the lowest ids, at most batchSize of them.
FetchPending == Fetch({i \in Due : Cardinality({j \in Due : j < i}) < batchSize})

\* A step that did not succeed: the context was cancelled, or SQLite failed.
Fails ==
    \/ cancelled /\ faults' = faults
    \/ faults < MaxFaults /\ faults' = faults + 1

\* The query fails: dispatchBatch returns and the loop waits for the next tick.
FetchError ==
    /\ pc = "fetch"
    /\ Fails
    /\ pc' = "idle"
    /\ now' = 0
    /\ UNCHANGED <<batchSize, clock, rows, batch, outcome, toCount, cancelled,
                   metrics, history>>

\* The row the loop over the batch has come to.
Current == Min(DOMAIN batch)

\* A call of the publisher returns. After an error markFailure reads the time.
PublishReturns(result, delivered) ==
    /\ pc = "publish"
    /\ pc' = "mark"
    /\ outcome' = result
    /\ now' = IF result = "error" THEN clock ELSE 0
    /\ calls' = [calls EXCEPT ![Current] = @ + 1]
    /\ arrivals' = IF delivered /\ Current \notin Arrived
                   THEN Append(arrivals, Current) ELSE arrivals
    /\ UNCHANGED <<batchSize, clock, rows, batch, toCount, cancelled, metrics,
                   faults, unrecorded, earlier, crashes>>

\* The event was delivered and acknowledged; or not delivered (the payload does
\* not decode, the endpoint refuses it); or delivered, but the dispatcher does
\* not hear of it (a timeout, a cancellation).
Publish ==
    \/ PublishReturns("ok", TRUE)
    \/ PublishReturns("error", FALSE)
    \/ PublishReturns("error", TRUE)

\* The transaction that records the result has committed; it is not counted yet.
Recorded(counters) ==
    /\ batch' = [i \in DOMAIN batch \ {Current} |-> batch[i]]
    /\ pc' = "count"
    /\ outcome' = "none"
    /\ now' = 0
    /\ toCount' = counters
    /\ UNCHANGED <<batchSize, clock, cancelled, metrics, faults, history>>

\* Mutant: the error of Publish is not looked at.
MarkDispatchedAnyway ==
    /\ pc = "mark"
    /\ ~ cancelled
    /\ rows' = [rows EXCEPT ![Current].status = "dispatched"]
    /\ Recorded({"success"})

\* MarkDispatched, after a successful Publish.
MarkDispatched ==
    /\ pc = "mark"
    /\ outcome = "ok"
    /\ ~ cancelled
    /\ rows' = [rows EXCEPT ![Current].status = "dispatched"]
    /\ Recorded({"success"})

\* Mutant: off by one, the last attempt is followed by another one.
FailedRowOffByOne(row, attempts) ==
    IF attempts > MaxRetry
    THEN [row EXCEPT !.status = "dead", !.attempts = attempts]
    ELSE [row EXCEPT !.attempts = attempts, !.next_attempt_at = now + Backoff(attempts)]

\* The row after a failed attempt: MarkDead after the last one, MarkFailed with
\* the time of the next one before.
FailedRow(row, attempts) ==
    IF attempts >= MaxRetry
    THEN [row EXCEPT !.status = "dead", !.attempts = attempts]
    ELSE [row EXCEPT !.attempts = attempts, !.next_attempt_at = now + Backoff(attempts)]

\* markFailure, after a failed Publish: it counts from the attempts that were
\* read when the batch was fetched.
MarkFailure ==
    /\ pc = "mark"
    /\ outcome = "error"
    /\ ~ cancelled
    /\ LET attempts == batch[Current] + 1
       IN /\ rows' = [rows EXCEPT ![Current] = FailedRow(@, attempts)]
          /\ Recorded(IF attempts >= MaxRetry THEN {"dead", "failure"}
                      ELSE {"failure"})

\* Mutant: the failure is counted before the row is updated.
MarkErrorCounted ==
    /\ pc = "mark"
    /\ Fails
    /\ batch' = <<>>
    /\ pc' = "idle"
    /\ outcome' = "none"
    /\ now' = 0
    /\ metrics' = [metrics EXCEPT !.failure = @ + 1]
    /\ unrecorded' = [unrecorded EXCEPT ![Current] = @ + 1]
    /\ UNCHANGED <<batchSize, clock, rows, toCount, cancelled, calls, arrivals,
                   earlier, crashes>>

\* The result cannot be written: dispatchBatch returns and drops the rest of the
\* batch.
MarkError ==
    /\ pc = "mark"
    /\ Fails
    /\ batch' = <<>>
    /\ pc' = "idle"
    /\ outcome' = "none"
    /\ now' = 0
    /\ unrecorded' = [unrecorded EXCEPT ![Current] = @ + 1]
    /\ UNCHANGED <<batchSize, clock, rows, toCount, cancelled, metrics, calls,
                   arrivals, earlier, crashes>>

\* An Add to one of the counters: a dead row is counted as dead by markFailure,
\* then as failed by dispatchBatch. After the last one the loop goes on with the
\* rest of the batch, or waits for the next tick.
Count ==
    /\ pc = "count"
    /\ \E c \in toCount :
          /\ c = "failure" => "dead" \notin toCount
          /\ metrics' = [metrics EXCEPT ![c] = @ + 1]
          /\ toCount' = toCount \ {c}
    /\ pc' = IF toCount' # {} THEN "count"
             ELSE IF DOMAIN batch = {} THEN "idle" ELSE "publish"
    /\ UNCHANGED <<batchSize, clock, rows, now, batch, outcome, cancelled,
                   faults, history>>

\* Close cancels the context of the goroutine and waits for it ...
Close ==
    /\ pc # "down"
    /\ ~ cancelled
    /\ faults < MaxFaults
    /\ cancelled' = TRUE
    /\ faults' = faults + 1
    /\ UNCHANGED <<batchSize, clock, rows, pc, now, batch, outcome, toCount,
                   metrics, history>>

\* ... and the goroutine ends when it is back in its select; then the process
\* exits.
Stop ==
    /\ pc = "idle"
    /\ cancelled
    /\ pc' = "down"
    /\ UNCHANGED <<batchSize, clock, rows, now, batch, outcome, toCount,
                   cancelled, metrics, faults, history>>

\* The process dies. The table survives, what was not counted yet never is.
Crash ==
    /\ pc # "down"
    /\ faults < MaxFaults
    /\ pc' = "down"
    /\ now' = 0
    /\ batch' = <<>>
    /\ outcome' = "none"
    /\ toCount' = {}
    /\ faults' = faults + 1
    /\ crashes' = crashes + 1
    /\ unrecorded' = IF pc = "mark" THEN [unrecorded EXCEPT ![Current] = @ + 1]
                     ELSE unrecorded
    /\ UNCHANGED <<batchSize, clock, rows, cancelled, metrics, calls, arrivals,
                   earlier>>

\* The program is started again: NewOutboxDispatcher and Start.
Restart ==
    /\ pc = "down"
    /\ pc' = "idle"
    /\ cancelled' = FALSE
    /\ metrics' = NoMetrics
    /\ earlier' = [c \in Counters |-> earlier[c] + metrics[c]]
    /\ UNCHANGED <<batchSize, clock, rows, now, batch, outcome, toCount, faults,
                   calls, unrecorded, arrivals, crashes>>

Mark == MarkDispatched \/ MarkFailure \/ MarkError

Next ==
    \/ Tick \/ Enqueue
    \/ TakeNow \/ FetchPending \/ FetchError
    \/ Publish \/ Mark \/ Count
    \/ Close \/ Stop \/ Crash \/ Restart

Spec == Init /\ [][Next]_vars

-----------------------------------------------------------------------------
(***************************************************************************)
(* Properties.                                                             *)
(***************************************************************************)

\* A row of outbox_events.
Row == [status : Statuses, attempts : 0..MaxRetry,
        created_at : Nat, next_attempt_at : Nat]

\* Every variable has its type.
TypeOK ==
    /\ batchSize \in BatchSizes
    /\ clock \in Nat
    /\ rows \in Seq(Row)
    /\ Len(rows) <= MaxRows
    /\ pc \in {"idle", "fetch", "publish", "mark", "count", "down"}
    /\ now \in 0..clock
    /\ DOMAIN batch \subseteq Ids
    /\ \A i \in DOMAIN batch : batch[i] \in 0..(MaxRetry - 1)
    /\ pc \in {"idle", "fetch", "down"} => DOMAIN batch = {}
    /\ pc \in {"publish", "mark"} => DOMAIN batch # {}
    /\ outcome \in {"none", "ok", "error"}
    /\ outcome = "none" <=> pc # "mark"
    /\ toCount \in SUBSET Counters
    /\ toCount # {} <=> pc = "count"
    /\ cancelled \in BOOLEAN
    /\ metrics \in [Counters -> Nat]
    /\ faults \in 0..MaxFaults
    /\ calls \in Seq(Nat) /\ unrecorded \in Seq(Nat)
    /\ Len(calls) = Len(rows) /\ Len(unrecorded) = Len(rows)
    /\ arrivals \in Seq(Ids)
    /\ earlier \in [Counters -> Nat]
    /\ crashes \in Nat

\* 1 while the result of a call for row i is about to be recorded.
InFlight(i) == IF pc = "mark" /\ i = Current THEN 1 ELSE 0
Acknowledged(i) == IF rows[i].status = "dispatched" THEN 1 ELSE 0

\* Every call of the publisher is accounted for, through batches, failed updates
\* and restarts: it is an attempt of the row, its success, still in flight, or
\* one of those whose result could not be written. A row is given up exactly
\* when it has used all its attempts, so a row costs at most MaxRetry calls plus
\* the unrecorded ones.
AttemptsAccounted ==
    \A i \in Ids :
        /\ calls[i] = rows[i].attempts + unrecorded[i] + Acknowledged(i) + InFlight(i)
        /\ rows[i].status = "dead" <=> rows[i].attempts = MaxRetry

\* An event reaches the consumer before one with a lower id only when a delivery
\* of that one has failed, or when that one was stamped later, having got the
\* writer connection first: batches, restarts and dropped batches by themselves
\* never reorder events.
InOrderIfStampedInOrder ==
    \A n \in DOMAIN arrivals : \A i \in 1..(arrivals[n] - 1) :
        (\A m \in 1..n : arrivals[m] # i) =>
            \/ rows[i].attempts > 0
            \/ rows[i].created_at > rows[arrivals[n]].created_at

\* 1 while a recorded result is about to be added to counter c.
Uncounted(c) == IF c \in toCount THEN 1 ELSE 0

\* The counters of the processes add up to what the table says: its dispatched
\* rows, its failed attempts and its dead rows. Nothing is counted that was not
\* written, and what was written is counted, but for one result per crash: an
\* orderly Close loses no count.
MetricsMatchTable ==
    \A c \in Counters :
        LET counted == earlier[c] + metrics[c] + Uncounted(c)
        IN counted <= Totals(rows)[c] /\ Totals(rows)[c] <= counted + crashes

\* The dispatcher implements at-least-once delivery: a row is marked dispatched
\* only after it reached the consumer, and a row that is dispatched or dead is
\* never published again, in this process or after a restart.
Queue == INSTANCE AtLeastOnce
             WITH state <- [i \in Ids |-> rows[i].status],
                  published <- calls, received <- Arrived
ImplementsAtLeastOnce == Queue!Spec

=============================================================================
