---------------------------- MODULE EventPipeline ----------------------------
(***************************************************************************)
(* The way of a mutation from the record store to a consumer that keeps a  *)
(* copy of the records: the store (RecordLog, which RecordEventStore       *)
(* implements) commits the mutation with its outbox row, OutboxDispatcher  *)
(* delivers the row, and the consumer, which is not part of the program,   *)
(* applies an event if its aggregate_version is higher than the one it     *)
(* has. An event whose delivery timed out may still arrive later.          *)
(***************************************************************************)
EXTENDS OutboxDispatcher, RecordEvents

VARIABLES
    value, version, trail, outbox, \* the record store
    replica,  \* the consumer's copy of every record
    applied,  \* the aggregate_version of that copy
    wire      \* the events whose delivery was given up but may still arrive

store == <<value, version, trail, outbox>>
consumer == <<replica, applied, wire>>
allVars == <<vars, store, consumer>>

Store == INSTANCE RecordLog

InitAll ==
    /\ Init
    /\ Store!Init
    /\ replica = [r \in Records |-> NoValue]
    /\ applied = [r \in Records |-> 0]
    /\ wire = {}

\* uuid.NewString: an id that no event has. Which one does not matter.
UnusedIds == EventIds \ {trail[i].event_id : i \in DOMAIN trail}
FreshId == CHOOSE e \in UnusedIds : TRUE

\* A mutation commits: the record, its audit event and its outbox row at once.
MutateRecord ==
    /\ UnusedIds # {}
    /\ Enqueue
    /\ \E r \in Records, after \in Images : Store!Mutate(FreshId, r, after)
    /\ UNCHANGED consumer

\* The consumer gets the envelope of row i.
Apply(i) ==
    LET e == outbox[i]
    IN IF e.version > applied[e.rec]
       THEN /\ replica' = [replica EXCEPT ![e.rec] = e.payload]
            /\ applied' = [applied EXCEPT ![e.rec] = e.version]
       ELSE UNCHANGED <<replica, applied>>

\* The publisher returns; after an error the request may still be on its way.
PublishToConsumer ==
    /\ \/ PublishReturns("ok", TRUE) /\ Apply(Current) /\ UNCHANGED wire
       \/ PublishReturns("error", TRUE) /\ Apply(Current) /\ UNCHANGED wire
       \/ /\ PublishReturns("error", FALSE)
          /\ wire' \in {wire, wire \cup {Current}}
          /\ UNCHANGED <<replica, applied>>
    /\ UNCHANGED store

ArriveLate ==
    \E i \in wire :
        /\ Apply(i)
        /\ wire' = wire \ {i}
        /\ UNCHANGED <<vars, store>>

\* What the goroutine does by itself, between the calls of the publisher.
Goroutine == TakeNow \/ FetchPending \/ FetchError \/ Mark \/ Count \/ Stop

DispatcherStep ==
    /\ Tick \/ Goroutine \/ Close \/ Crash \/ Restart
    /\ UNCHANGED <<store, consumer>>

NextAll == MutateRecord \/ PublishToConsumer \/ ArriveLate \/ DispatcherStep

\* Time passes, the goroutine runs, calls of the publisher and of SQLite return,
\* and the program is started again after it stopped. Clients promise nothing, nor
\* does the network.
FairnessAll ==
    /\ WF_allVars(PublishToConsumer)
    /\ WF_allVars(Tick /\ UNCHANGED <<store, consumer>>)
    /\ WF_allVars(Goroutine /\ UNCHANGED <<store, consumer>>)
    /\ WF_allVars(Restart /\ UNCHANGED <<store, consumer>>)

SpecAll == InitAll /\ [][NextAll]_allVars /\ FairnessAll

-----------------------------------------------------------------------------
(***************************************************************************)
(* Properties.                                                             *)
(***************************************************************************)

\* The copy of a record is always one that the record really had, at the
\* version the consumer believes it has, whatever was lost, repeated, late or
\* out of order.
ReplicaWasTrue ==
    \A r \in Records :
        \/ applied[r] = 0 /\ replica[r] = NoValue
        \/ \E i \in DOMAIN trail :
              /\ trail[i].rec = r
              /\ trail[i].version = applied[r]
              /\ trail[i].after = replica[r]

LatestRow(r, i) ==
    /\ outbox[i].rec = r
    /\ \A j \in (i + 1)..Len(outbox) : outbox[j].rec # r

\* Once the latest event of a record is marked dispatched the copy is current,
\* though older events may be dead, waiting for a retry or still on their way.
CurrentOnceDispatched ==
    \A i \in Ids :
        (LatestRow(outbox[i].rec, i) /\ rows[i].status = "dispatched")
            => replica[outbox[i].rec] = value[outbox[i].rec]

\* Once the clients stop writing every event is settled in the end: neither a
\* failing consumer nor restarts, dropped batches or a batch limit smaller than
\* the backlog starve it. From then on the copies are current, but for records
\* whose latest event was given up.
EventuallyConsistent ==
    <>[](/\ \A i \in Ids : rows[i].status # "pending"
         /\ \A r \in Records :
                \/ replica[r] = value[r]
                \/ \E i \in Ids : LatestRow(r, i) /\ rows[i].status = "dead")

=============================================================================
