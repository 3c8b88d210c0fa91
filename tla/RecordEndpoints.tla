--------------------------- MODULE RecordEndpoints ---------------------------
(***************************************************************************)
(* The record endpoints of internal/adapters/httpapi/handler.go: single    *)
(* and bulk calls that upsert or delete records through RecordService, on  *)
(* the record log that RecordEventStore implements. What this module adds  *)
(* to the log are calls with many items and the times: a call takes        *)
(* `occurred_at` ONCE, when its body is decoded, and its items are         *)
(* committed later, one transaction each, between those of other calls.    *)
(*                                                                         *)
(* The calls are without an Idempotency-Key; BulkIdempotency is about it.  *)
(***************************************************************************)
EXTENDS RecordEvents, Sequences, FiniteSets

CONSTANTS
    NumCalls,  \* bound: calls, numbered in the order in which they are stamped
    Bodies,    \* what calls ask for: sequences of items [rec, after]
    MaxFaults  \* bound: failing items and crashes

Item == [rec : Records, after : Images]
IsDelete(b) == \A i \in DOMAIN b : b[i].after = NoValue

ASSUME EndpointsAssumption ==
    /\ NumCalls \in Nat /\ MaxFaults \in Nat
    /\ \A b \in Bodies :
        /\ b \in Seq(Item)
        /\ IsDelete(b) \/ \A i \in DOMAIN b : b[i].after # NoValue

Calls == 1..NumCalls
NoTimes == [created |-> 0, updated |-> 0]

VARIABLES
    value, version, trail, outbox, \* the record log
    times,    \* created_at and updated_at of every row
    occurred, \* occurred_at of every event of the trail
    clock,    \* the time; it may stand still between two calls, not go back
    pc,       \* where every call is
    body,     \* what every call asks for
    stamp,    \* OccurredAt of every call
    at,       \* the item every call has come to
    count,    \* the items that BulkUpsert returns, the deletions BulkDelete counts
    faults,   \* faults so far
    \* History, which the code does not keep:
    by        \* the call of every event of the trail

log == <<value, version, trail, outbox>>
calls == <<pc, body, stamp, at, count>>
vars == <<log, times, occurred, clock, calls, faults, by>>

Store == INSTANCE RecordLog

-----------------------------------------------------------------------------

Init ==
    /\ Store!Init
    /\ times = [r \in Records |-> NoTimes]
    /\ occurred = <<>>
    /\ clock = 0
    /\ pc = [c \in Calls |-> "new"]
    /\ body = [c \in Calls |-> <<>>]
    /\ stamp = [c \in Calls |-> 0]
    /\ at = [c \in Calls |-> 1]
    /\ count = [c \in Calls |-> 0]
    /\ faults = 0
    /\ by = <<>>

\* A call whose body is decoded: mutationMetaFromRequest takes the time.
Call(c, b) ==
    /\ pc[c] = "new"
    /\ \A d \in Calls : d < c => pc[d] # "new"
    /\ clock' \in {clock, clock + 1}
    /\ stamp' = [stamp EXCEPT ![c] = clock']
    /\ pc' = [pc EXCEPT ![c] = "items"]
    /\ body' = [body EXCEPT ![c] = b]
    /\ UNCHANGED <<log, times, occurred, at, count, faults, by>>

\* uuid.NewString: an id that no event has. Which one does not matter.
UnusedIds == EventIds \ {trail[i].event_id : i \in DOMAIN trail}
FreshId == CHOOSE e \in UnusedIds : TRUE

\* Mutant: created_at is among the columns that ON CONFLICT updates.
TimesAnew(old, before, after, now) ==
    IF after = NoValue THEN NoTimes ELSE [created |-> now, updated |-> now]

\* The times of a row: an insert sets both, ON CONFLICT updates updated_at only.
TimesAfter(old, before, after, now) ==
    IF after = NoValue THEN NoTimes
    ELSE [created |-> IF before = NoValue THEN now ELSE old.created, updated |-> now]

\* Mutant: BulkDelete counts the ids.
CountEvery(c) ==
    /\ pc[c] = "items"
    /\ at[c] <= Len(body[c])
    /\ LET r == body[c][at[c]].rec
           after == body[c][at[c]].after
       IN IF after = NoValue /\ value[r] = NoValue
          THEN UNCHANGED <<log, times, occurred, by>>
          ELSE /\ UnusedIds # {}
               /\ Store!Mutate(FreshId, r, after)
               /\ times' = [times EXCEPT ![r] = TimesAfter(@, value[r], after, stamp[c])]
               /\ occurred' = Append(occurred, stamp[c])
               /\ by' = Append(by, c)
    /\ count' = [count EXCEPT ![c] = @ + 1]
    /\ at' = [at EXCEPT ![c] = @ + 1]
    /\ UNCHANGED <<clock, pc, body, stamp, faults>>

\* The next item, in a transaction of its own. An absent record is not deleted
\* and not counted.
ApplyItem(c) ==
    /\ pc[c] = "items"
    /\ at[c] <= Len(body[c])
    /\ LET r == body[c][at[c]].rec
           after == body[c][at[c]].after
       IN IF after = NoValue /\ value[r] = NoValue
          THEN UNCHANGED <<log, times, occurred, count, by>>
          ELSE /\ UnusedIds # {}
               /\ Store!Mutate(FreshId, r, after)
               /\ times' = [times EXCEPT ![r] = TimesAfter(@, value[r], after, stamp[c])]
               /\ occurred' = Append(occurred, stamp[c])
               /\ count' = [count EXCEPT ![c] = @ + 1]
               /\ by' = Append(by, c)
    /\ at' = [at EXCEPT ![c] = @ + 1]
    /\ UNCHANGED <<clock, pc, body, stamp, faults>>

\* An item is not valid or its transaction fails: the loop ends with an error.
FailItem(c) ==
    /\ faults < MaxFaults
    /\ pc[c] = "items"
    /\ at[c] <= Len(body[c])
    /\ pc' = [pc EXCEPT ![c] = "error"]
    /\ faults' = faults + 1
    /\ UNCHANGED <<log, times, occurred, clock, body, stamp, at, count, by>>

\* All the items are done: 200, with the records or the count.
Answer(c) ==
    /\ pc[c] = "items"
    /\ at[c] > Len(body[c])
    /\ pc' = [pc EXCEPT ![c] = "ok"]
    /\ UNCHANGED <<log, times, occurred, clock, body, stamp, at, count, faults, by>>

\* The process dies: what is committed stays, the calls are never answered.
Crash ==
    /\ faults < MaxFaults
    /\ \E c \in Calls : pc[c] = "items"
    /\ pc' = [c \in Calls |-> IF pc[c] = "items" THEN "lost" ELSE pc[c]]
    /\ faults' = faults + 1
    /\ UNCHANGED <<log, times, occurred, clock, body, stamp, at, count, by>>

Next ==
    \/ \E c \in Calls, b \in Bodies : Call(c, b)
    \/ \E c \in Calls : ApplyItem(c) \/ FailItem(c) \/ Answer(c)
    \/ Crash

Spec == Init /\ [][Next]_vars

-----------------------------------------------------------------------------
(***************************************************************************)
(* Properties.                                                             *)
(***************************************************************************)

EventsOf(r) == {i \in DOMAIN trail : trail[i].rec = r}

\* A row agrees with the events of its record: updated_at is the time of the last
\* event, created_at that of the event that created it last, through updates,
\* deletions and new creations by any calls.
RowMatchesTrail ==
    \A r \in Records :
        value[r] # NoValue =>
            \E m, n \in EventsOf(r) :
                /\ \A i \in EventsOf(r) : i <= n
                /\ trail[m].action = "record.created"
                /\ \A i \in EventsOf(r) : trail[i].action = "record.created" => i <= m
                /\ times[r] = [created |-> occurred[m], updated |-> occurred[n]]

\* A 200 answer is true of the trail: a bulk upsert returns as many records as it
\* left events, and they are all it was asked for; a bulk delete counts exactly
\* the records that it deleted, also when its list names one twice or another
\* call deletes one meanwhile.
AnswersMatchTrail ==
    \A c \in Calls :
        pc[c] = "ok" =>
            /\ count[c] = Cardinality({i \in DOMAIN trail : by[i] = c})
            /\ \A i \in DOMAIN trail :
                 by[i] = c => (trail[i].action = "record.deleted" <=> IsDelete(body[c]))
            /\ ~ IsDelete(body[c]) => count[c] = Len(body[c])

=============================================================================
