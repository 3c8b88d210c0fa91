------------------------------- MODULE KVStore -------------------------------
(***************************************************************************)
(* The KV endpoints: the handlers upsert, get, delete and scan of          *)
(* internal/adapters/httpapi/handler.go over KVService and the repository  *)
(* of internal/adapters/sqlite/repository.go. Writes are transactions on   *)
(* the one writer connection, reads see a snapshot of what is committed.   *)
(* A put takes its timestamp BEFORE it waits for the connection.           *)
(***************************************************************************)
EXTENDS KVRows, Sequences

CONSTANTS
    NumCalls,   \* bound: HTTP requests, numbered in the order of arrival
    NoCall,     \* the writer connection is free
    NoOp,       \* a request that has not arrived
    NoOutcome,  \* a request that has nothing to answer yet
    MaxFaults   \* bound: failed calls, lost clients and crashes

ASSUME KVStoreAssumption ==
    /\ NumCalls \in Nat
    /\ NoCall \notin Nat
    /\ NoOp \notin Ops
    /\ \A o \in Ops : NoOutcome \notin OutcomesOf(o)
    /\ MaxFaults \in Nat

Calls == 1..NumCalls

VARIABLES
    table,    \* the committed rows
    clock,    \* the time
    op,       \* what every request asks for
    stamp,    \* `now` of every request
    pc,       \* where every request is
    writer,   \* the request that holds the writer connection
    tx,       \* the rows as the open transaction sees them
    outcome,  \* what every request has to answer
    faults,   \* faults so far
    \* History, which the code does not keep:
    log,      \* the requests in the order in which they took effect
    earlier   \* the requests that were answered when a request arrived

history == <<log, earlier>>
vars == <<table, clock, op, stamp, pc, writer, tx, outcome, faults, history>>

Waiting == {"begin", "execute", "commit"}  \* a write on its way to the COMMIT

-----------------------------------------------------------------------------

Init ==
    /\ table = [k \in Keys |-> NoRow]
    /\ clock = 0
    /\ op = [c \in Calls |-> NoOp]
    /\ stamp = [c \in Calls |-> 0]
    /\ pc = [c \in Calls |-> "new"]
    /\ writer = NoCall
    /\ tx = table
    /\ outcome = [c \in Calls |-> NoOutcome]
    /\ faults = 0
    /\ log = <<>>
    /\ earlier = [c \in Calls |-> {}]

\* A request arrives and passes the checks of KVService; an upsert takes `now`.
Call(c, o) ==
    /\ pc[c] = "new"
    /\ \A d \in Calls : d < c => pc[d] # "new"
    /\ op' = [op EXCEPT ![c] = o]
    /\ clock' = clock + 1
    /\ stamp' = [stamp EXCEPT ![c] = clock']
    /\ pc' = [pc EXCEPT ![c] = IF IsWrite(o) THEN "begin" ELSE "read"]
    /\ earlier' = [earlier EXCEPT ![c] = {d \in Calls : pc[d] = "ok"}]
    /\ UNCHANGED <<table, writer, tx, outcome, faults, log>>

\* A request whose body, key, category or limit is not valid goes no further.
Reject(c) ==
    /\ pc[c] = "new"
    /\ \A d \in Calls : d < c => pc[d] # "new"
    /\ pc' = [pc EXCEPT ![c] = "error"]
    /\ UNCHANGED <<table, clock, op, stamp, writer, tx, outcome, faults, history>>

\* ReadTX: Get and Scan are one statement on a reader connection.
Read(c) ==
    /\ pc[c] = "read"
    /\ outcome' = [outcome EXCEPT ![c] = Outcome(table, op[c], stamp[c])]
    /\ pc' = [pc EXCEPT ![c] = "respond"]
    /\ log' = Append(log, c)
    /\ UNCHANGED <<table, clock, op, stamp, writer, tx, faults, earlier>>

\* WriteTX: wait for the writer connection and begin.
Begin(c) ==
    /\ writer = NoCall
    /\ pc[c] = "begin"
    /\ writer' = c
    /\ tx' = table
    /\ pc' = [pc EXCEPT ![c] = "execute"]
    /\ UNCHANGED <<table, clock, op, stamp, outcome, faults, history>>

\* The statements of Upsert (insert or update, load the row) or of Delete.
Execute(c) ==
    /\ pc[c] = "execute"
    /\ tx' = Effect(tx, op[c], stamp[c])
    /\ outcome' = [outcome EXCEPT ![c] = Outcome(tx, op[c], stamp[c])]
    /\ pc' = [pc EXCEPT ![c] = "commit"]
    /\ UNCHANGED <<table, clock, op, stamp, writer, faults, history>>

\* Mutant: Delete and Upsert answer before the COMMIT.
CommitNothing(c) ==
    /\ pc[c] = "commit"
    /\ writer' = NoCall
    /\ pc' = [pc EXCEPT ![c] = "respond"]
    /\ log' = Append(log, c)
    /\ UNCHANGED <<table, clock, op, stamp, tx, outcome, faults, earlier>>

Commit(c) ==
    /\ pc[c] = "commit"
    /\ table' = tx
    /\ writer' = NoCall
    /\ pc' = [pc EXCEPT ![c] = "respond"]
    /\ log' = Append(log, c)
    /\ UNCHANGED <<clock, op, stamp, tx, outcome, faults, earlier>>

Respond(c) ==
    /\ pc[c] = "respond"
    /\ pc' = [pc EXCEPT ![c] = "ok"]
    /\ UNCHANGED <<table, clock, op, stamp, writer, tx, outcome, faults, history>>

\* A statement, the COMMIT or the wait for a connection fails: ROLLBACK.
Fail(c) ==
    /\ faults < MaxFaults
    /\ pc[c] \in Waiting \cup {"read"}
    /\ pc' = [pc EXCEPT ![c] = "error"]
    /\ writer' = IF writer = c THEN NoCall ELSE writer
    /\ tx' = IF writer = c THEN table ELSE tx
    /\ outcome' = [outcome EXCEPT ![c] = NoOutcome]
    /\ faults' = faults + 1
    /\ UNCHANGED <<table, clock, op, stamp, history>>

\* The client is gone when the answer comes.
LoseResponse(c) ==
    /\ faults < MaxFaults
    /\ pc[c] = "respond"
    /\ pc' = [pc EXCEPT ![c] = "unheard"]
    /\ faults' = faults + 1
    /\ UNCHANGED <<table, clock, op, stamp, writer, tx, outcome, history>>

\* The process dies and is started again with what is committed.
Crash ==
    /\ faults < MaxFaults
    /\ pc' = [c \in Calls |->
                CASE pc[c] \in Waiting \cup {"read"} -> "cut"
                  [] pc[c] = "respond" -> "unheard"
                  [] OTHER -> pc[c]]
    /\ writer' = NoCall
    /\ tx' = table
    /\ outcome' = [c \in Calls |-> IF pc[c] \in Waiting THEN NoOutcome ELSE outcome[c]]
    /\ faults' = faults + 1
    /\ UNCHANGED <<table, clock, op, stamp, history>>

Step(c) == Read(c) \/ Begin(c) \/ Execute(c) \/ Commit(c) \/ Respond(c)

Next ==
    \/ \E c \in Calls, o \in Ops : Call(c, o)
    \/ \E c \in Calls : Reject(c) \/ Step(c) \/ Fail(c) \/ LoseResponse(c)
    \/ Crash

Spec == Init /\ [][Next]_vars

-----------------------------------------------------------------------------
(***************************************************************************)
(* Properties.                                                             *)
(***************************************************************************)

Touches(c, k) == IsWrite(op[c]) /\ op[c].key = k

\* The writes of a key among the first n entries of the log.
WritesBefore(n, k) == {i \in 1..n : Touches(log[i], k)}

LastOf(I) == CHOOSE i \in I : \A j \in I : j <= i
FirstOf(I) == CHOOSE i \in I : \A j \in I : i <= j

\* The row of a key after the first n entries of the log, told from the calls
\* alone: the content and the time of the last put, the time of the first put
\* since the last delete.
RowAfter(n, k) ==
    LET writes == WritesBefore(n, k)
        last == LastOf(writes)
        deletes == {i \in writes : op[log[i]].kind = "delete"}
        life == {i \in writes : \A d \in deletes : i > d}
    IN IF writes = {} \/ op[log[last]].kind = "delete"
       THEN NoRow
       ELSE [content |-> op[log[last]].content,
             created |-> stamp[log[FirstOf(life)]],
             updated |-> stamp[log[last]]]

\* Serial order: every request that took effect is answered with what its
\* operation returns when the requests before it in the log are done one after
\* the other, and the committed rows are those that the whole log leaves; in
\* particular no put is lost and no get is served a row that was replaced.
ResultsMatchLog ==
    /\ \A n \in DOMAIN log :
        LET c == log[n]
            o == op[c]
        IN outcome[c] = CASE o.kind = "put" -> RowAfter(n, o.key)
                          [] o.kind = "get" -> RowAfter(n - 1, o.key)
                          [] o.kind = "delete" -> RowAfter(n - 1, o.key) # NoRow
                          [] o.kind = "scan" -> [k \in Keys |-> RowAfter(n - 1, k)]
    /\ \A k \in Keys : table[k] = RowAfter(Len(log), k)

\* A row is older than its creation (updated_at < created_at) only when the put
\* that created it and the one that wrote it last overlapped: `now` is taken
\* before the wait for the connection, so that overlapping puts may commit in
\* another order than that of their timestamps, but never puts of which one was
\* answered before the other was called.
AgesInOrder ==
    \A k \in Keys : table[k] # NoRow /\ table[k].updated < table[k].created =>
        \E m, n \in WritesBefore(Len(log), k) :
            /\ m < n
            /\ stamp[log[m]] = table[k].created
            /\ stamp[log[n]] = table[k].updated
            /\ log[m] \notin earlier[log[n]]

TookEffect(c) == pc[c] \in {"respond", "ok", "unheard"}

Atomic == INSTANCE AtomicKV WITH
    stage <- [c \in Calls |->
                CASE pc[c] = "new" -> "new"
                  [] pc[c] \in Waiting \cup {"read"} -> "called"
                  [] pc[c] \in {"respond", "unheard"} -> "done"
                  [] pc[c] = "ok" -> "returned"
                  [] pc[c] \in {"error", "cut"} -> "dropped"],
    outcome <- [c \in Calls |-> IF TookEffect(c) THEN outcome[c] ELSE NoOutcome]

\* The KV API implements AtomicKV: every operation takes effect at one instant
\* between its call and its answer, or never.
ImplementsAtomicKV == Atomic!Init /\ [][Atomic!Next]_Atomic!vars

=============================================================================
