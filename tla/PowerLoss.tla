------------------------------ MODULE PowerLoss ------------------------------
(***************************************************************************)
(* What buildDSN of gormsqlite/db.go trades away: journal_mode(WAL) with   *)
(* synchronous(NORMAL). A transaction is committed when it is in the       *)
(* write-ahead log, which SQLite (external) forces to the disk only now    *)
(* and then. The process may die without losing a commit; a power failure  *)
(* may lose those that were not forced, always the latest ones.            *)
(*                                                                         *)
(* The transactions are those of the record store and of the dispatcher,   *)
(* one step each, as RecordLog and AtLeastOnce promise; a consumer keeps a *)
(* copy of the records, as in EventPipeline. Between two failures the      *)
(* committed databases are those of RecordLog.                             *)
(***************************************************************************)
EXTENDS RecordEvents, FiniteSets, SequencesExt

CONSTANTS
    MaxEvents,  \* bound: mutations
    MaxLosses   \* bound: power failures

ASSUME PowerLossAssumption ==
    /\ EventIds = 1..MaxEvents
    /\ MaxEvents \in Nat /\ MaxLosses \in Nat

VARIABLES
    wal,      \* the committed databases, from the one that is on the disk on
    ids,      \* the event ids given out so far, which never come again
    sent,     \* the row whose Publish succeeded but that is not marked yet
    replica,  \* the consumer's copy of every record
    applied,  \* the aggregate_version of that copy
    wire,     \* envelopes whose delivery was given up but may still arrive
    received, \* history: the envelopes that reached the consumer
    losses

consumer == <<replica, applied, received>>
powerVars == <<wal, ids, sent, consumer, wire, losses>>

\* The tables kv_entries, audit_events and outbox_events as every reader and
\* writer sees them.
Database == Last(wal)
Rows == Database.outbox
Pending == {i \in DOMAIN Rows : Rows[i].status = "pending"}

Commit(d) == wal' = Append(wal, d)

-----------------------------------------------------------------------------

PowerInit ==
    /\ wal = <<[value |-> [r \in Records |-> NoValue], trail |-> <<>>, outbox |-> <<>>]>>
    /\ ids = 0
    /\ sent = 0
    /\ replica = [r \in Records |-> NoValue]
    /\ applied = [r \in Records |-> 0]
    /\ wire = {}
    /\ received = {}
    /\ losses = 0

VersionsOf(r) == {e.version : e \in {f \in ToSet(Database.trail) : f.rec = r}}

\* Mutant: the latest version itself.
LastVersion(r) == Max(VersionsOf(r) \cup {1})

NextVersion(r) == Max(VersionsOf(r) \cup {0}) + 1

\* The three tables with the mutation of record r.
Mutated(r, after) ==
    LET ev == NewEvent(ids + 1, r, NextVersion(r), Database.value[r], after)
    IN [value  |-> [Database.value EXCEPT ![r] = after],
        trail  |-> Append(Database.trail, ev),
        outbox |-> Append(Rows, [envelope |-> EnvelopeOf(ev), status |-> "pending"])]

\* UpsertWithEvents and DeleteWithEvents commit.
Mutate(r, after) ==
    /\ ids < MaxEvents
    /\ after = NoValue => Database.value[r] # NoValue
    /\ Commit(Mutated(r, after))
    /\ ids' = ids + 1
    /\ UNCHANGED <<sent, consumer, wire, losses>>

\* The consumer gets an envelope.
Apply(e) ==
    /\ received' = received \cup {e}
    /\ IF e.version > applied[e.rec]
       THEN /\ replica' = [replica EXCEPT ![e.rec] = e.payload]
            /\ applied' = [applied EXCEPT ![e.rec] = e.version]
       ELSE UNCHANGED <<replica, applied>>

\* The dispatcher publishes a pending row, with success ...
Publish(i) ==
    /\ sent = 0
    /\ i \in Pending
    /\ sent' = i
    /\ Apply(Rows[i].envelope)
    /\ UNCHANGED <<wal, ids, wire, losses>>

\* ... or without: the row stays pending or dies, the request may arrive yet.
PublishFails(i) ==
    /\ sent = 0
    /\ i \in Pending
    /\ wire' \in {wire, wire \cup {Rows[i].envelope}}
    /\ \/ UNCHANGED wal
       \/ Commit([Database EXCEPT !.outbox[i].status = "dead"])
    /\ UNCHANGED <<ids, sent, consumer, losses>>

ArriveLate ==
    \E e \in wire :
        /\ Apply(e)
        /\ wire' = wire \ {e}
        /\ UNCHANGED <<wal, ids, sent, losses>>

\* Mutant: the rows of a batch are marked before they are published.
MarkUnpublished(i) ==
    /\ i \in Pending
    /\ Commit([Database EXCEPT !.outbox[i].status = "dispatched"])
    /\ sent' = 0
    /\ UNCHANGED <<ids, consumer, wire, losses>>

\* The dispatcher marks the row it has published.
MarkDispatched(i) ==
    /\ sent = i
    /\ i \in Pending
    /\ Commit([Database EXCEPT !.outbox[i].status = "dispatched"])
    /\ sent' = 0
    /\ UNCHANGED <<ids, consumer, wire, losses>>

\* The process dies and is started again: it finds what was committed.
ProcessDies ==
    /\ sent # 0
    /\ sent' = 0
    /\ UNCHANGED <<wal, ids, consumer, wire, losses>>

\* SQLite forces a part of the log to the disk.
Checkpoint ==
    /\ \E n \in 2..Len(wal) : wal' = SubSeq(wal, n, Len(wal))
    /\ UNCHANGED <<ids, sent, consumer, wire, losses>>

\* The power fails: the process dies, and commits that are not on the disk are
\* lost, the latest ones.
PowerFails ==
    /\ losses < MaxLosses
    /\ \E n \in 1..(Len(wal) - 1) : wal' = <<wal[n]>>
    /\ sent' = 0
    /\ losses' = losses + 1
    /\ UNCHANGED <<ids, consumer, wire>>

PowerNext ==
    \/ \E r \in Records, after \in Images : Mutate(r, after)
    \/ \E i \in DOMAIN Rows : Publish(i) \/ PublishFails(i) \/ MarkDispatched(i)
    \/ ArriveLate \/ ProcessDies \/ Checkpoint \/ PowerFails

PowerSpec == PowerInit /\ [][PowerNext]_powerVars

-----------------------------------------------------------------------------
(***************************************************************************)
(* Properties.                                                             *)
(***************************************************************************)

\* What an outbox row says of its delivery stays true: an event that is marked
\* dispatched has reached the consumer, also when the mark survives a failure.
DispatchedWasReceived ==
    \A i \in DOMAIN Rows :
        Rows[i].status = "dispatched" => Rows[i].envelope \in received

\* The consumer has been told of a mutation that was lost afterwards.
ToldOfLost(r) ==
    \E e \in received : e.rec = r /\ \A i \in DOMAIN Rows : Rows[i].envelope # e

\* A consumer that compares aggregate_version has the current record once its
\* latest event is dispatched, unless it had been told of a mutation of this
\* record that was lost: that version is given out again, and is ignored.
CurrentUnlessToldOfLost ==
    \A r \in Records, i \in DOMAIN Rows :
        (/\ Rows[i].envelope.rec = r
         /\ \A j \in DOMAIN Rows : j > i => Rows[j].envelope.rec # r
         /\ Rows[i].status = "dispatched"
         /\ ~ ToldOfLost(r))
            => replica[r] = Database.value[r]

\* The record log that the three tables hold.
Log == INSTANCE RecordLog WITH
    value   <- Database.value,
    version <- [r \in Records |-> NextVersion(r) - 1],
    trail   <- Database.trail,
    outbox  <- [i \in DOMAIN Rows |-> Rows[i].envelope]

\* As long as the power does not fail, the transactions write the record log,
\* whatever was lost before, and a row that is settled stays settled.
WritesLogBetweenLosses ==
    /\ Log!Init
    /\ [][losses' = losses =>
            /\ [Log!Next]_(Log!vars)
            /\ \A i \in DOMAIN Rows : Rows[i].status # "pending" => Rows'[i] = Rows[i]]_powerVars

\* What a failure leaves of the trail is its beginning, and what it leaves of a
\* row is the row as it was at some time: a row that is settled was settled.
LossesTakeTheLatest ==
    [][losses' # losses =>
         /\ Database'.trail = SubSeq(Database.trail, 1, Len(Database'.trail))
         /\ \A i \in DOMAIN Rows' : Rows'[i].status # "pending" => Rows'[i] = Rows[i]]_powerVars

=============================================================================
