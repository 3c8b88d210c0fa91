-------------------------- MODULE RecordEventStore --------------------------
(***************************************************************************)
(* internal/adapters/sqlite/record_event_store.go on top of                *)
(* gormsqlite/db.go: a mutation of a record writes the record, its audit   *)
(* event and its outbox row in one SQLite transaction on the only          *)
(* connection of the writer pool. Any statement may fail, the client may   *)
(* go away, the process may die; the client learns the outcome or not.     *)
(*                                                                         *)
(* A request is one call of UpsertWithEvents or DeleteWithEvents. Its name *)
(* doubles as the uuid the code draws for its event.                       *)
(***************************************************************************)
EXTENDS RecordEvents, Sequences, FiniteSetsExt

CONSTANTS
    NoRequest,  \* the writer connection is in its pool
    NoEvent,    \* the transaction has no event
    MaxFaults   \* bound: failed calls, lost responses and crashes in a behaviour

ASSUME NoRequestAssumption == NoRequest \notin EventIds
ASSUME NoEventAssumption == NoEvent \notin Events
ASSUME MaxFaultsAssumption == MaxFaults \in Nat

Requests == EventIds

VARIABLES
    kv_entries,     \* committed: the value of every record, NoValue if no row
    audit_events,   \* committed: the audit trail, by id
    outbox_events,  \* committed: the envelopes of the outbox rows, by id
    mutation,       \* what every request asks for; after = NoValue is a delete
    status,         \* how far every request is
    writer,         \* the request whose transaction holds the connection
    tx,             \* that transaction: its step, its tables and its event
    faults          \* faults so far

tables == <<kv_entries, audit_events, outbox_events>>
vars == <<kv_entries, audit_events, outbox_events, mutation, status, writer, tx,
          faults>>

Mutations == [rec : Records, after : Images]

Answers == {"ok", "absent", "failed", "lost"}
Statuses == {"new", "waiting", "written", "unchanged"} \cup Answers

Steps == {"none", "begun", "row", "audit", "done"}

Transactions ==
    [step : Steps, kv : [Records -> Images], audit : Seq(Events),
     outbox : Seq(Envelopes), event : Events \cup {NoEvent}]

NoTx ==
    [step |-> "none", kv |-> [r \in Records |-> NoValue], audit |-> <<>>,
     outbox |-> <<>>, event |-> NoEvent]

\* What a transaction that has just begun sees: the committed tables.
Snapshot ==
    [step |-> "begun", kv |-> kv_entries, audit |-> audit_events,
     outbox |-> outbox_events, event |-> NoEvent]

-----------------------------------------------------------------------------

\* COALESCE(MAX(aggregate_version), 0) of a record, over an audit table.
LastVersion(audit, r) ==
    Max({0} \cup {audit[i].version : i \in {j \in DOMAIN audit : audit[j].rec = r}})

\* Mutant: the WHERE clause of the MAX is missing.
NextVersionOfAnyRecord(audit, r) ==
    Max({0} \cup {audit[i].version : i \in DOMAIN audit}) + 1

\* nextAggregateVersion.
NextVersion(audit, r) == LastVersion(audit, r) + 1

Init ==
    /\ kv_entries = [r \in Records |-> NoValue]
    /\ audit_events = <<>>
    /\ outbox_events = <<>>
    /\ mutation \in [Requests -> Mutations]
    /\ status = [q \in Requests |-> "new"]
    /\ writer = NoRequest
    /\ tx = NoTx
    /\ faults = 0

\* A client calls the store.
Submit(q) ==
    /\ status[q] = "new"
    /\ status' = [status EXCEPT ![q] = "waiting"]
    /\ UNCHANGED <<kv_entries, audit_events, outbox_events, mutation, writer, tx,
                   faults>>

\* WriteTX: the call gets the only connection of the writer pool and begins a
\* transaction on it.
BeginTx(q) ==
    /\ status[q] = "waiting"
    /\ writer = NoRequest
    /\ writer' = q
    /\ tx' = Snapshot
    /\ UNCHANGED <<kv_entries, audit_events, outbox_events, mutation, status, faults>>

\* Mutant: the row is loaded for the audit event after it was upserted.
WriteRowThenLoadBefore(q) ==
    LET m == mutation[q]
    IN /\ writer = q
       /\ tx.step = "begun"
       /\ m.after = NoValue => tx.kv[m.rec] # NoValue
       /\ tx' = [tx EXCEPT
                   !.step = "row",
                   !.kv = [tx.kv EXCEPT ![m.rec] = m.after],
                   !.event = NewEvent(q, m.rec, NextVersion(tx.audit, m.rec), m.after,
                                      m.after)]
       /\ UNCHANGED <<kv_entries, audit_events, outbox_events, mutation, status,
                      writer, faults>>

\* The row is loaded, upserted and loaded again, the version is computed from
\* the audit table and the event is built; or, for a delete, the row is loaded
\* and deleted.
WriteRow(q) ==
    LET m == mutation[q]
        before == tx.kv[m.rec]
    IN /\ writer = q
       /\ tx.step = "begun"
       /\ m.after = NoValue => before # NoValue
       /\ tx' = [tx EXCEPT
                   !.step = "row",
                   !.kv = [tx.kv EXCEPT ![m.rec] = m.after],
                   !.event = NewEvent(q, m.rec, NextVersion(tx.audit, m.rec), before,
                                      m.after)]
       /\ UNCHANGED <<kv_entries, audit_events, outbox_events, mutation, status,
                      writer, faults>>

\* Mutant: the early return is missing.
DeleteAbsentGoesOn(q) ==
    /\ writer = q
    /\ tx.step = "begun"
    /\ mutation[q].after = NoValue
    /\ tx.kv[mutation[q].rec] = NoValue
    /\ tx' = [tx EXCEPT !.step = "row"]
    /\ UNCHANGED <<kv_entries, audit_events, outbox_events, mutation, status, writer,
                   faults>>

\* DeleteWithEvents finds no row: the transaction ends without an event.
DeleteAbsent(q) ==
    /\ writer = q
    /\ tx.step = "begun"
    /\ mutation[q].after = NoValue
    /\ tx.kv[mutation[q].rec] = NoValue
    /\ tx' = [tx EXCEPT !.step = "done"]
    /\ UNCHANGED <<kv_entries, audit_events, outbox_events, mutation, status, writer,
                   faults>>

\* insertAuditAndOutbox, its two inserts.
InsertAudit(q) ==
    /\ writer = q
    /\ tx.step = "row"
    /\ tx' = [tx EXCEPT !.step = "audit", !.audit = Append(tx.audit, tx.event)]
    /\ UNCHANGED <<kv_entries, audit_events, outbox_events, mutation, status, writer,
                   faults>>

InsertOutbox(q) ==
    /\ writer = q
    /\ tx.step = "audit"
    /\ tx' = [tx EXCEPT !.step = "done",
                        !.outbox = Append(tx.outbox, EnvelopeOf(tx.event))]
    /\ UNCHANGED <<kv_entries, audit_events, outbox_events, mutation, status, writer,
                   faults>>

\* The function returned nil: COMMIT, and the connection goes back to its pool.
Commit(q) ==
    /\ writer = q
    /\ tx.step = "done"
    /\ kv_entries' = tx.kv
    /\ audit_events' = tx.audit
    /\ outbox_events' = tx.outbox
    /\ status' = [status EXCEPT ![q] = IF tx.event = NoEvent THEN "unchanged" ELSE "written"]
    /\ writer' = NoRequest
    /\ tx' = NoTx
    /\ UNCHANGED <<mutation, faults>>

\* Mutant: the error path commits what was done so far.
FailAndCommit(q) ==
    /\ faults < MaxFaults
    /\ status[q] = "waiting"
    /\ status' = [status EXCEPT ![q] = "failed"]
    /\ IF writer = q
       THEN /\ kv_entries' = tx.kv /\ audit_events' = tx.audit
            /\ outbox_events' = tx.outbox /\ writer' = NoRequest /\ tx' = NoTx
       ELSE UNCHANGED <<kv_entries, audit_events, outbox_events, writer, tx>>
    /\ faults' = faults + 1
    /\ UNCHANGED mutation

\* Mutant: the error path rolls back but does not give the connection back.
FailAndKeepConnection(q) ==
    /\ faults < MaxFaults
    /\ status[q] = "waiting"
    /\ status' = [status EXCEPT ![q] = "failed"]
    /\ tx' = IF writer = q THEN NoTx ELSE tx
    /\ faults' = faults + 1
    /\ UNCHANGED <<kv_entries, audit_events, outbox_events, mutation, writer>>

\* A statement, the COMMIT or the wait for the connection fails (an error of
\* SQLite, a context that is cancelled): ROLLBACK, and the caller gets an error.
Fail(q) ==
    /\ faults < MaxFaults
    /\ status[q] = "waiting"
    /\ status' = [status EXCEPT ![q] = "failed"]
    /\ IF writer = q
       THEN writer' = NoRequest /\ tx' = NoTx
       ELSE UNCHANGED <<writer, tx>>
    /\ faults' = faults + 1
    /\ UNCHANGED <<kv_entries, audit_events, outbox_events, mutation>>

\* The caller gets its result: a record, or whether the delete found one.
Respond(q) ==
    /\ status[q] \in {"written", "unchanged"}
    /\ status' = [status EXCEPT ![q] = IF @ = "written" THEN "ok" ELSE "absent"]
    /\ UNCHANGED <<kv_entries, audit_events, outbox_events, mutation, writer, tx,
                   faults>>

\* The response does not reach the client.
LoseResponse(q) ==
    /\ faults < MaxFaults
    /\ status[q] \in {"written", "unchanged"}
    /\ status' = [status EXCEPT ![q] = "lost"]
    /\ faults' = faults + 1
    /\ UNCHANGED <<kv_entries, audit_events, outbox_events, mutation, writer, tx>>

\* The process dies and is started again: SQLite recovers the committed tables
\* and nobody hears of the requests that were in progress.
Crash ==
    /\ faults < MaxFaults
    /\ status' = [q \in Requests |->
                    IF status[q] \in {"waiting", "written", "unchanged"} THEN "lost"
                    ELSE status[q]]
    /\ writer' = NoRequest
    /\ tx' = NoTx
    /\ faults' = faults + 1
    /\ UNCHANGED <<kv_entries, audit_events, outbox_events, mutation>>

Step(q) ==
    \/ BeginTx(q)
    \/ WriteRow(q)
    \/ DeleteAbsent(q)
    \/ InsertAudit(q)
    \/ InsertOutbox(q)
    \/ Commit(q)
    \/ Respond(q)

Next ==
    \/ \E q \in Requests : Submit(q) \/ Step(q) \/ Fail(q) \/ LoseResponse(q)
    \/ Crash

\* A call that can go on does: every request has its goroutine, and the pool
\* hands its connection to one of the calls that wait for it.
Fairness == \A q \in Requests : WF_vars(Step(q))

Spec == Init /\ [][Next]_vars
FairSpec == Spec /\ Fairness

-----------------------------------------------------------------------------
(***************************************************************************)
(* Properties.                                                             *)
(***************************************************************************)

\* Every variable has its type; a transaction is open exactly when somebody
\* holds the connection.
TypeOK ==
    /\ kv_entries \in [Records -> Images]
    /\ audit_events \in Seq(Events)
    /\ outbox_events \in Seq(Envelopes)
    /\ mutation \in [Requests -> Mutations]
    /\ status \in [Requests -> Statuses]
    /\ writer \in Requests \cup {NoRequest}
    /\ tx \in Transactions
    /\ faults \in 0..MaxFaults
    /\ writer = NoRequest <=> tx = NoTx

\* Event j is the latest one of record r below position n.
LatestBelow(n, r, j) ==
    /\ j \in 1..(n - 1)
    /\ audit_events[j].rec = r
    /\ \A k \in (j + 1)..(n - 1) : audit_events[k].rec # r

\* The committed value of every record is what its latest audit event says was
\* written, and a record without events does not exist: a failure or a crash
\* between the statements of a mutation never leaves a row without its event
\* or an event without its row.
StateMatchesAudit ==
    \A r \in Records :
        \/ /\ \A i \in DOMAIN audit_events : audit_events[i].rec # r
           /\ kv_entries[r] = NoValue
        \/ \E j \in DOMAIN audit_events :
              /\ LatestBelow(Len(audit_events) + 1, r, j)
              /\ kv_entries[r] = audit_events[j].after

\* The events of a record form a chain whatever the concurrent mutations were:
\* the first has version 1 and created the record; every other one has the
\* next version of its predecessor, replaced exactly the value that its
\* predecessor wrote (no mutation is lost between the two) and carries the
\* event type that its two values call for.
AuditChain ==
    \A i \in DOMAIN audit_events :
        LET ev == audit_events[i]
        IN /\ ev.action = ActionOf(ev.before, ev.after)
           /\ ~ (ev.before = NoValue /\ ev.after = NoValue)
           /\ \/ /\ \A j \in 1..(i - 1) : audit_events[j].rec # ev.rec
                 /\ ev.version = 1
                 /\ ev.before = NoValue
              \/ \E j \in 1..(i - 1) :
                    /\ LatestBelow(i, ev.rec, j)
                    /\ ev.version = audit_events[j].version + 1
                    /\ ev.before = audit_events[j].after

\* The outbox holds the envelope of every audit event, in the same order: what
\* is delivered is the audit trail, and nothing else.
OutboxMirrorsAudit ==
    /\ Len(outbox_events) = Len(audit_events)
    /\ \A i \in DOMAIN audit_events : outbox_events[i] = EnvelopeOf(audit_events[i])

\* The three tables say the same: every record, the trail and the outbox agree
\* in every committed state.
TablesAgree == StateMatchesAudit /\ OutboxMirrorsAudit

\* What a caller is told is what happened: a mutation that succeeded is in the
\* trail once, with the record and the value asked for; one that failed, found
\* nothing to delete or has not been answered is not in it. Only of a lost
\* answer the caller knows nothing.
HonestAnswers ==
    \A q \in Requests :
        LET logged == {i \in DOMAIN audit_events : audit_events[i].event_id = q}
        IN /\ status[q] \in {"written", "ok"} =>
                \E i \in DOMAIN audit_events :
                    /\ logged = {i}
                    /\ audit_events[i].rec = mutation[q].rec
                    /\ audit_events[i].after = mutation[q].after
           /\ status[q] \in {"new", "waiting", "unchanged", "absent", "failed"} =>
                logged = {}

\* The store implements the record log: whatever the interleaving, the failures
\* and the crashes, the committed tables change as if each mutation happened in
\* one step, and only by such steps.
Log == INSTANCE RecordLog
           WITH value <- kv_entries,
                version <- [r \in Records |-> LastVersion(audit_events, r)],
                trail <- audit_events,
                outbox <- outbox_events
ImplementsRecordLog == Log!Spec

\* Every call returns, or its process dies: the wait for the only writer
\* connection ends, whatever happened to the calls that held it before.
EveryRequestAnswered ==
    \A q \in Requests : status[q] = "waiting" ~> status[q] \in Answers

=============================================================================
