---------------------------- MODULE RestartProofs ----------------------------
(***************************************************************************)
(* Proofs about the ways the process ends. PowerLoss, for any number of    *)
(* records, documents, mutations and power failures: what is still true of *)
(* the deliveries when commits are lost. Lifecycle, for any number of      *)
(* runs, requests, migrations and faults: what a start and a stop promise. *)
(* KeySpace, for any alphabet and any names, also of the tenants: which    *)
(* keys of kv_entries the requests of those runs share.                    *)
(***************************************************************************)
EXTENDS PowerLoss, KeySpace, SequenceTheorems, TLAPS

-----------------------------------------------------------------------------
(***************************************************************************)
(* PowerLoss.                                                              *)
(***************************************************************************)

OutboxRows == [envelope : Envelopes, status : {"pending", "dispatched", "dead"}]

Databases == [value : [Records -> Images], trail : Seq(Events), outbox : Seq(OutboxRows)]

PowerTypes ==
    /\ wal \in Seq(Databases) /\ wal # <<>>
    /\ ids \in Nat
    /\ sent \in Nat
    /\ replica \in [Records -> Images]
    /\ applied \in [Records -> Nat]
    /\ wire \in SUBSET Envelopes
    /\ received \in SUBSET Envelopes
    /\ losses \in Nat

\* The record r has no event in a database, or i is its last one and wrote its row.
Untouched(d, r) ==
    d.value[r] = NoValue /\ \A i \in 1..Len(d.trail) : d.trail[i].rec # r

WrittenBy(d, r, i) ==
    /\ d.trail[i].rec = r
    /\ d.value[r] = d.trail[i].after
    /\ \A j \in 1..Len(d.trail) : j > i => d.trail[j].rec # r

\* The three tables agree, and the versions of a record grow along its trail.
Consistent(d) ==
    /\ Len(d.outbox) = Len(d.trail)
    /\ \A i \in 1..Len(d.trail) :
          d.outbox[i].envelope = EnvelopeOf(d.trail[i]) /\ d.trail[i].version >= 1
    /\ \A i, j \in 1..Len(d.trail) :
          (i < j /\ d.trail[i].rec = d.trail[j].rec) => d.trail[i].version < d.trail[j].version
    /\ \A r \in Records :
          Untouched(d, r) \/ \E i \in 1..Len(d.trail) : WrittenBy(d, r, i)

\* What a database calls dispatched has reached the consumer.
DispatchedArrived(d, arrived) ==
    \A i \in 1..Len(d.outbox) :
        d.outbox[i].status = "dispatched" => d.outbox[i].envelope \in arrived

\* A power failure may bring back each of the databases in the log: all of them
\* are consistent, and they say of the consumer only what is true.
WalInv == \A k \in 1..Len(wal) : Consistent(wal[k]) /\ DispatchedArrived(wal[k], received)

SentInv == sent # 0 => sent \in 1..Len(Rows) /\ Rows[sent].envelope \in received

\* The copy of a record is that of the highest version the consumer was told of.
ConsumerInv ==
    /\ \A e \in received \cup wire : e.version >= 1
    /\ \A e \in received : e.version <= applied[e.rec]
    /\ \A r \in Records :
          \/ applied[r] = 0 /\ \A e \in received : e.rec # r
          \/ \E e \in received :
                e.rec = r /\ e.version = applied[r] /\ e.payload = replica[r]

PowerInv == PowerTypes /\ WalInv /\ SentInv /\ ConsumerInv

LEMMA PowerStarts == PowerInit => PowerInv
<1>. SUFFICES ASSUME PowerInit PROVE PowerInv
    OBVIOUS
<1>. DEFINE d == [value |-> [r \in Records |-> NoValue], trail |-> <<>>, outbox |-> <<>>]
<1>1. d \in Databases
    BY DEF Databases, Images
<1>2. wal = <<d>>
    BY DEF PowerInit
<1>3. Consistent(d) /\ DispatchedArrived(d, received)
    BY DEF Consistent, Untouched, DispatchedArrived
<1>. HIDE DEF d
<1>4. wal \in Seq(Databases) /\ wal # <<>> /\ Len(wal) = 1 /\ wal[1] = d
    BY <1>1, <1>2
<1>5. PowerTypes
    BY <1>4 DEF PowerInit, PowerTypes, Images
<1>6. WalInv
    BY <1>3, <1>4 DEF WalInv
<1>7. SentInv /\ ConsumerInv
    BY DEF PowerInit, SentInv, ConsumerInv
<1>. QED
    BY <1>5, <1>6, <1>7 DEF PowerInv

-----------------------------------------------------------------------------
(***************************************************************************)
(* The log: what is in it after a step was in it or is committed now.      *)
(***************************************************************************)

LEMMA LatestDatabase ==
    ASSUME PowerTypes, WalInv
    PROVE  /\ Len(wal) \in 1..Len(wal) /\ Database = wal[Len(wal)]
           /\ Database \in Databases
           /\ Consistent(Database) /\ DispatchedArrived(Database, received)
<1>1. Len(wal) \in Nat /\ Len(wal) >= 1
    BY DEF PowerTypes
<1>2. Database = wal[Len(wal)]
    BY DEF Database, Last
<1>3. Len(wal) \in 1..Len(wal)
    BY <1>1
<1>. QED
    BY <1>2, <1>3 DEF PowerTypes, WalInv

LEMMA CommitKeeps ==
    ASSUME PowerTypes, WalInv, NEW d \in Databases, Commit(d), received' = received,
           Consistent(d), DispatchedArrived(d, received)
    PROVE  /\ wal' \in Seq(Databases) /\ wal' # <<>>
           /\ WalInv'
           /\ Database' = d
<1>1. wal' = Append(wal, d) /\ wal \in Seq(Databases)
    BY DEF Commit, PowerTypes
<1>2. /\ wal' \in Seq(Databases) /\ wal' # <<>> /\ Len(wal') = Len(wal) + 1
      /\ wal'[Len(wal) + 1] = d
      /\ \A k \in 1..Len(wal) : wal'[k] = wal[k]
    BY <1>1
<1>3. \A k \in 1..Len(wal') : k \in 1..Len(wal) \/ k = Len(wal) + 1
    BY <1>1, <1>2
<1>4. WalInv'
    BY <1>2, <1>3 DEF WalInv
<1>5. Database' = d
    BY <1>2 DEF Database, Last
<1>. QED
    BY <1>2, <1>4, <1>5

\* A part of the log is a log.
LEMMA PartKeeps ==
    ASSUME PowerTypes, WalInv, received' = received,
           \/ \E n \in 2..Len(wal) : wal' = SubSeq(wal, n, Len(wal))
           \/ \E n \in 1..(Len(wal) - 1) : wal' = <<wal[n]>>
    PROVE  /\ wal' \in Seq(Databases) /\ wal' # <<>>
           /\ WalInv'
<1>1. wal \in Seq(Databases) /\ Len(wal) \in Nat
    BY DEF PowerTypes
<1>2. CASE \E n \in 2..Len(wal) : wal' = SubSeq(wal, n, Len(wal))
    <2>1. PICK n \in 2..Len(wal) : wal' = SubSeq(wal, n, Len(wal))
        BY <1>2
    <2>2. /\ wal' \in Seq(Databases) /\ Len(wal') = Len(wal) - n + 1
          /\ \A k \in 1..Len(wal') : wal'[k] = wal[n + k - 1] /\ n + k - 1 \in 1..Len(wal)
        BY <1>1, <2>1
    <2>3. Len(wal') # 0
        BY <1>1, <2>1, <2>2
    <2>. QED
        BY <2>2, <2>3 DEF WalInv
<1>3. CASE \E n \in 1..(Len(wal) - 1) : wal' = <<wal[n]>>
    <2>1. PICK n \in 1..(Len(wal) - 1) : wal' = <<wal[n]>>
        BY <1>3
    <2>2. n \in 1..Len(wal)
        BY <1>1
    <2>3. wal[n] \in Databases
        BY <1>1, <2>2
    <2>4. wal' \in Seq(Databases) /\ wal' # <<>> /\ Len(wal') = 1 /\ wal'[1] = wal[n]
        BY <2>1, <2>3
    <2>. QED
        BY <2>2, <2>4 DEF WalInv
<1>. QED
    BY <1>2, <1>3

\* The consumer may learn more meanwhile.
LEMMA LogStays ==
    ASSUME WalInv, UNCHANGED wal, received \subseteq received'
    PROVE  WalInv'
BY DEF WalInv, DispatchedArrived

-----------------------------------------------------------------------------
(***************************************************************************)
(* The transactions.                                                       *)
(***************************************************************************)

\* Max is an element that is as large as every other, if there is one.
LEMMA MaxIsHighest ==
    ASSUME NEW S, NEW m \in S, \A y \in S : m >= y
    PROVE  Max(S) \in S /\ \A y \in S : Max(S) >= y
BY DEF Max

\* aggregate_version: MAX + 1 over the trail, or 1.
LEMMA NextVersionIsHigher ==
    ASSUME NEW r \in Records, Database \in Databases, Consistent(Database)
    PROVE  /\ NextVersion(r) \in Nat /\ NextVersion(r) >= 1
           /\ \A i \in 1..Len(Database.trail) :
                 Database.trail[i].rec = r => Database.trail[i].version < NextVersion(r)
<1>. DEFINE t == Database.trail
            S == VersionsOf(r) \cup {0}
<1>1. t \in Seq(Events) /\ Len(t) \in Nat
    BY DEF Databases
<1>2. \A i \in 1..Len(t) : t[i].version \in Nat
    <2>1. \A i \in 1..Len(t) : t[i] \in Events
        BY <1>1
    <2>2. \A e \in Events : e.version \in Nat
        BY DEF Events
    <2>. QED
        BY <2>1, <2>2
<1>3. \A i \in 1..Len(t) : t[i].rec = r => t[i].version \in S
    <2>1. \A i \in 1..Len(t) : t[i] \in ToSet(t)
        BY <1>1 DEF ToSet
    <2>2. \A i \in 1..Len(t) : t[i].rec = r => t[i] \in {f \in ToSet(t) : f.rec = r}
        BY <2>1
    <2>3. \A e \in {f \in ToSet(t) : f.rec = r} : e.version \in VersionsOf(r)
        BY DEF VersionsOf
    <2>. QED
        BY <2>2, <2>3
<1>4. \A y \in S : y = 0 \/ \E i \in 1..Len(t) : t[i].rec = r /\ y = t[i].version
    <2>1. \A y \in VersionsOf(r) : \E e \in {f \in ToSet(t) : f.rec = r} : y = e.version
        BY DEF VersionsOf
    <2>2. \A e \in ToSet(t) : \E i \in 1..Len(t) : e = t[i]
        BY <1>1 DEF ToSet
    <2>3. \A y \in VersionsOf(r) : \E i \in 1..Len(t) : t[i].rec = r /\ y = t[i].version
        BY <2>1, <2>2
    <2>. QED
        BY <2>3
<1>. HIDE DEF S
<1>5. \E m \in S : m \in Nat /\ \A y \in S : m >= y
    <2>1. CASE Untouched(Database, r)
        <3>1. 0 \in S
            BY DEF S
        <3>2. \A y \in S : y = 0
            BY <2>1, <1>4 DEF Untouched
        <3>. QED
            BY <3>1, <3>2
    <2>2. CASE \E i \in 1..Len(t) : WrittenBy(Database, r, i)
        <3>1. PICK i \in 1..Len(t) : WrittenBy(Database, r, i)
            BY <2>2
        <3>2. \A j \in 1..Len(t) : t[j].rec = r => t[j].version <= t[i].version
            <4>1. TAKE j \in 1..Len(t)
            <4>2. HAVE t[j].rec = r
            <4>3. ~ (j > i) /\ t[i].rec = r
                BY <3>1, <4>2 DEF WrittenBy
            <4>4. j = i \/ j < i
                BY <1>1, <4>3
            <4>5. j < i => t[j].version < t[i].version
                BY <4>2, <4>3 DEF Consistent
            <4>. QED
                BY <1>2, <4>4, <4>5
        <3>3. t[i].version \in S /\ t[i].version \in Nat
            BY <1>2, <1>3, <3>1 DEF WrittenBy
        <3>4. \A y \in S : t[i].version >= y
            BY <1>2, <1>4, <3>2, <3>3
        <3>. QED
            BY <3>3, <3>4
    <2>. QED
        BY <2>1, <2>2 DEF Consistent
<1>6. PICK m \in S : m \in Nat /\ \A y \in S : m >= y
    BY <1>5
<1>7. NextVersion(r) = Max(S) + 1
    BY DEF NextVersion, S
<1>8. Max(S) \in S /\ \A y \in S : Max(S) >= y
    BY <1>6, MaxIsHighest
<1>9. Max(S) \in Nat
    <2>1. \A y \in S : y \in Nat
        BY <1>2, <1>4
    <2>. QED
        BY <1>8, <2>1
<1>10. \A i \in 1..Len(t) : t[i].rec = r => t[i].version <= Max(S)
    BY <1>2, <1>3, <1>8, <1>9
<1>. QED
    BY <1>2, <1>7, <1>9, <1>10

\* The new event is one of its record with the version and document given.
LEMMA NewEventIs ==
    ASSUME NEW e \in EventIds, NEW r \in Records, NEW n \in Nat,
           NEW before \in Images, NEW after \in Images
    PROVE  /\ NewEvent(e, r, n, before, after) \in Events
           /\ NewEvent(e, r, n, before, after).rec = r
           /\ NewEvent(e, r, n, before, after).version = n
           /\ NewEvent(e, r, n, before, after).after = after
<1>1. ActionOf(before, after) \in Actions
    BY DEF ActionOf, Actions
<1>. QED
    BY <1>1 DEF NewEvent, Events

LEMMA EnvelopeIs ==
    ASSUME NEW ev \in Events
    PROVE  /\ EnvelopeOf(ev) \in Envelopes
           /\ EnvelopeOf(ev).rec = ev.rec
           /\ EnvelopeOf(ev).version = ev.version
           /\ EnvelopeOf(ev).payload = ev.after
BY DEF EnvelopeOf, Envelopes, Events

\* A mutation goes from one consistent database to the next.
LEMMA MutationIsConsistent ==
    ASSUME NEW d \in Databases, Consistent(d), NEW arrived, DispatchedArrived(d, arrived),
           NEW r \in Records, NEW after \in Images,
           NEW ev \in Events, ev.rec = r, ev.after = after, ev.version >= 1,
           \A i \in 1..Len(d.trail) : d.trail[i].rec = r => d.trail[i].version < ev.version,
           NEW n,
           n = [value  |-> [d.value EXCEPT ![r] = after],
                trail  |-> Append(d.trail, ev),
                outbox |-> Append(d.outbox, [envelope |-> EnvelopeOf(ev), status |-> "pending"])]
    PROVE  n \in Databases /\ Consistent(n) /\ DispatchedArrived(n, arrived)
<1>. DEFINE row == [envelope |-> EnvelopeOf(ev), status |-> "pending"]
<1>1. /\ d.value \in [Records -> Images]
      /\ d.trail \in Seq(Events) /\ Len(d.trail) \in Nat
      /\ d.outbox \in Seq(OutboxRows) /\ Len(d.outbox) = Len(d.trail)
    BY DEF Databases, Consistent
<1>2. row \in OutboxRows /\ row.envelope = EnvelopeOf(ev) /\ row.status = "pending"
    BY EnvelopeIs DEF OutboxRows
<1>3. /\ n.value = [d.value EXCEPT ![r] = after]
      /\ n.trail = Append(d.trail, ev)
      /\ n.outbox = Append(d.outbox, row)
    OBVIOUS
<1>. HIDE DEF row
<1>4. /\ n.trail \in Seq(Events) /\ Len(n.trail) = Len(d.trail) + 1
      /\ n.trail[Len(d.trail) + 1] = ev
      /\ \A i \in 1..Len(d.trail) : n.trail[i] = d.trail[i]
    BY <1>1, <1>3
<1>5. /\ n.outbox \in Seq(OutboxRows) /\ Len(n.outbox) = Len(d.trail) + 1
      /\ n.outbox[Len(d.trail) + 1] = row
      /\ \A i \in 1..Len(d.trail) : n.outbox[i] = d.outbox[i]
    BY <1>1, <1>2, <1>3
<1>6. /\ n.value \in [Records -> Images] /\ n.value[r] = after
      /\ \A s \in Records \ {r} : n.value[s] = d.value[s]
    BY <1>1, <1>3
<1>7. n \in Databases
    <2>1. n = [value |-> n.value, trail |-> n.trail, outbox |-> n.outbox]
        OBVIOUS
    <2>. QED
        BY <1>4, <1>5, <1>6, <2>1 DEF Databases
<1>8. \A i \in 1..Len(n.trail) : i \in 1..Len(d.trail) \/ i = Len(d.trail) + 1
    BY <1>1, <1>4
<1>9. DispatchedArrived(n, arrived)
    <2>1. \A i \in 1..Len(n.outbox) : i \in 1..Len(d.outbox) \/ i = Len(d.trail) + 1
        BY <1>1, <1>5
    <2>. QED
        BY <1>1, <1>2, <1>5, <2>1 DEF DispatchedArrived
<1>10. Consistent(n)
    <2>1. Len(n.outbox) = Len(n.trail)
        BY <1>4, <1>5
    <2>2. \A i \in 1..Len(n.trail) :
             n.outbox[i].envelope = EnvelopeOf(n.trail[i]) /\ n.trail[i].version >= 1
        BY <1>2, <1>4, <1>5, <1>8 DEF Consistent
    <2>3. \A i, j \in 1..Len(n.trail) :
             (i < j /\ n.trail[i].rec = n.trail[j].rec) =>
                n.trail[i].version < n.trail[j].version
        <3>1. TAKE i, j \in 1..Len(n.trail)
        <3>2. HAVE i < j /\ n.trail[i].rec = n.trail[j].rec
        <3>3. i \in 1..Len(d.trail)
            BY <1>1, <1>4, <3>2
        <3>4. CASE j \in 1..Len(d.trail)
            BY <1>4, <3>2, <3>3, <3>4 DEF Consistent
        <3>5. CASE j = Len(d.trail) + 1
            BY <1>4, <3>2, <3>3, <3>5
        <3>. QED
            BY <1>8, <3>4, <3>5
    <2>4. ASSUME NEW s \in Records
          PROVE  Untouched(n, s) \/ \E i \in 1..Len(n.trail) : WrittenBy(n, s, i)
        <3>1. CASE s = r
            <4>1. WrittenBy(n, r, Len(d.trail) + 1)
                <5>1. \A j \in 1..Len(n.trail) : ~ (j > Len(d.trail) + 1)
                    BY <1>1, <1>4
                <5>. QED
                    BY <1>4, <1>6, <5>1 DEF WrittenBy
            <4>2. Len(d.trail) + 1 \in 1..Len(n.trail)
                BY <1>1, <1>4
            <4>. QED
                BY <3>1, <4>1, <4>2
        <3>2. CASE s # r /\ Untouched(d, s)
            BY <1>4, <1>6, <1>8, <3>2 DEF Untouched
        <3>3. CASE s # r /\ \E i \in 1..Len(d.trail) : WrittenBy(d, s, i)
            <4>1. PICK i \in 1..Len(d.trail) : WrittenBy(d, s, i)
                BY <3>3
            <4>2. i \in 1..Len(n.trail)
                BY <1>1, <1>4
            <4>3. \A j \in 1..Len(n.trail) : j > i => n.trail[j].rec # s
                BY <1>4, <1>8, <3>3, <4>1 DEF WrittenBy
            <4>4. WrittenBy(n, s, i)
                BY <1>4, <1>6, <3>3, <4>1, <4>3 DEF WrittenBy
            <4>. QED
                BY <4>2, <4>4
        <3>. QED
            BY <3>1, <3>2, <3>3 DEF Consistent
    <2>. QED
        BY <2>1, <2>2, <2>3, <2>4 DEF Consistent
<1>. QED
    BY <1>7, <1>9, <1>10

\* The status of a row is none of the other tables' business.
LEMMA MarkIsConsistent ==
    ASSUME NEW d \in Databases, Consistent(d), NEW arrived, DispatchedArrived(d, arrived),
           NEW i \in 1..Len(d.outbox), NEW status \in {"dispatched", "dead"},
           status = "dispatched" => d.outbox[i].envelope \in arrived,
           NEW n, n = [d EXCEPT !.outbox[i].status = status]
    PROVE  n \in Databases /\ Consistent(n) /\ DispatchedArrived(n, arrived)
<1>1. /\ d.value \in [Records -> Images]
      /\ d.trail \in Seq(Events) /\ Len(d.trail) \in Nat
      /\ d.outbox \in Seq(OutboxRows) /\ Len(d.outbox) = Len(d.trail)
      /\ d = [value |-> d.value, trail |-> d.trail, outbox |-> d.outbox]
    BY DEF Databases, Consistent
<1>2. /\ n.value = d.value /\ n.trail = d.trail
      /\ n.outbox = [d.outbox EXCEPT ![i] = [d.outbox[i] EXCEPT !.status = status]]
    BY <1>1
<1>9. n = [value |-> n.value, trail |-> n.trail, outbox |-> n.outbox]
    BY <1>1
<1>3. /\ [d.outbox[i] EXCEPT !.status = status] \in OutboxRows
      /\ [d.outbox[i] EXCEPT !.status = status].envelope = d.outbox[i].envelope
      /\ [d.outbox[i] EXCEPT !.status = status].status = status
    <2>1. d.outbox[i] \in OutboxRows
        BY <1>1
    <2>. QED
        BY <2>1 DEF OutboxRows
<1>4. /\ n.outbox \in Seq(OutboxRows) /\ Len(n.outbox) = Len(d.outbox)
      /\ n.outbox[i].status = status /\ n.outbox[i].envelope = d.outbox[i].envelope
      /\ \A k \in 1..Len(d.outbox) : k # i => n.outbox[k] = d.outbox[k]
    BY <1>1, <1>2, <1>3
<1>5. n \in Databases
    BY <1>1, <1>2, <1>4, <1>9 DEF Databases
<1>6. DispatchedArrived(n, arrived)
    BY <1>4 DEF DispatchedArrived
<1>7. \A k \in 1..Len(n.trail) : n.outbox[k].envelope = d.outbox[k].envelope
    BY <1>1, <1>2, <1>4
<1>8. Consistent(n)
    BY <1>1, <1>2, <1>4, <1>7 DEF Consistent, Untouched, WrittenBy
<1>. QED
    BY <1>5, <1>6, <1>8

-----------------------------------------------------------------------------
(***************************************************************************)
(* The steps.                                                              *)
(***************************************************************************)

LEMMA MutateKeeps ==
    ASSUME PowerInv, NEW r \in Records, NEW after \in Images, Mutate(r, after)
    PROVE  PowerInv'
<1>. USE DEF PowerInv
<1>1. /\ Database \in Databases /\ Consistent(Database)
      /\ DispatchedArrived(Database, received)
    BY LatestDatabase
<1>. DEFINE d == Database
            ev == NewEvent(ids + 1, r, NextVersion(r), d.value[r], after)
            n == [value  |-> [d.value EXCEPT ![r] = after],
                  trail  |-> Append(d.trail, ev),
                  outbox |-> Append(d.outbox, [envelope |-> EnvelopeOf(ev), status |-> "pending"])]
<1>2. /\ Commit(n) /\ ids' = ids + 1 /\ ids < MaxEvents
      /\ UNCHANGED <<sent, replica, applied, received, wire, losses>>
    BY DEF Mutate, Mutated, Rows, consumer
<1>3. ids + 1 \in EventIds /\ ids' \in Nat
    BY <1>2, PowerLossAssumption DEF PowerTypes
<1>4. d.value[r] \in Images /\ d.outbox \in Seq(OutboxRows)
    BY <1>1 DEF Databases
<1>5. /\ NextVersion(r) \in Nat /\ NextVersion(r) >= 1
      /\ \A i \in 1..Len(d.trail) :
            d.trail[i].rec = r => d.trail[i].version < NextVersion(r)
    BY <1>1, NextVersionIsHigher
<1>6. ev \in Events /\ ev.rec = r /\ ev.version = NextVersion(r) /\ ev.after = after
    BY <1>3, <1>4, <1>5, NewEventIs
<1>. HIDE DEF d, ev
<1>7. n \in Databases /\ Consistent(n) /\ DispatchedArrived(n, received)
    <2>1. d \in Databases /\ Consistent(d) /\ DispatchedArrived(d, received)
        BY <1>1 DEF d
    <2>2. /\ ev.version >= 1
          /\ \A i \in 1..Len(d.trail) : d.trail[i].rec = r => d.trail[i].version < ev.version
        BY <1>5, <1>6
    <2>. QED
        BY <1>6, <2>1, <2>2, MutationIsConsistent
<1>. HIDE DEF n
<1>8. wal' \in Seq(Databases) /\ wal' # <<>> /\ WalInv' /\ Database' = n
    BY <1>2, <1>7, CommitKeeps
<1>9. PowerTypes'
    BY <1>2, <1>3, <1>8 DEF PowerTypes
<1>10. SentInv'
    <2>1. /\ Rows = d.outbox /\ Rows' = n.outbox
          /\ n.outbox = Append(d.outbox, [envelope |-> EnvelopeOf(ev), status |-> "pending"])
        BY <1>8 DEF Rows, d, n
    <2>2. \A i \in 1..Len(d.outbox) : i \in 1..Len(n.outbox) /\ n.outbox[i] = d.outbox[i]
        BY <1>4, <2>1
    <2>. QED
        BY <1>2, <2>1, <2>2 DEF SentInv
<1>11. ConsumerInv'
    BY <1>2 DEF ConsumerInv
<1>. QED
    BY <1>8, <1>9, <1>10, <1>11

\* The consumer gets an envelope that was sent at some time.
LEMMA ApplyKeeps ==
    ASSUME PowerTypes, ConsumerInv, NEW e \in Envelopes, e.version >= 1, Apply(e),
           wire' \subseteq wire
    PROVE  /\ replica' \in [Records -> Images] /\ applied' \in [Records -> Nat]
           /\ received' \in SUBSET Envelopes /\ received' = received \cup {e}
           /\ ConsumerInv'
<1>1. e.rec \in Records /\ e.version \in Nat /\ e.payload \in Images
    BY DEF Envelopes
<1>2. /\ replica \in [Records -> Images] /\ applied \in [Records -> Nat]
      /\ received \in SUBSET Envelopes /\ received' = received \cup {e}
    BY DEF PowerTypes, Apply
<1>3. /\ \A s \in Records : s # e.rec => applied'[s] = applied[s] /\ replica'[s] = replica[s]
      /\ e.version > applied[e.rec] =>
            applied'[e.rec] = e.version /\ replica'[e.rec] = e.payload
      /\ ~ (e.version > applied[e.rec]) =>
            applied'[e.rec] = applied[e.rec] /\ replica'[e.rec] = replica[e.rec]
    BY <1>1, <1>2 DEF Apply
<1>4. replica' \in [Records -> Images] /\ applied' \in [Records -> Nat]
    BY <1>1, <1>2 DEF Apply
<1>5. \A f \in received' \cup wire' : f.version >= 1
    BY <1>2 DEF ConsumerInv
<1>6. \A s \in Records : applied[s] <= applied'[s]
    BY <1>1, <1>2, <1>3
<1>7. \A f \in received' : f.version <= applied'[f.rec]
    <2>1. \A f \in received : f.rec \in Records /\ f.version \in Nat
        BY <1>2 DEF Envelopes
    <2>2. e.version <= applied'[e.rec]
        BY <1>1, <1>2, <1>3
    <2>3. ASSUME NEW f \in received PROVE f.version <= applied'[f.rec]
        <3>1. f.version <= applied[f.rec] /\ applied[f.rec] <= applied'[f.rec]
            BY <1>6, <2>1 DEF ConsumerInv
        <3>. QED
            BY <1>2, <1>4, <2>1, <3>1
    <2>. QED
        BY <1>2, <2>2, <2>3
<1>8. ASSUME NEW s \in Records
      PROVE  \/ applied'[s] = 0 /\ \A f \in received' : f.rec # s
             \/ \E f \in received' :
                   f.rec = s /\ f.version = applied'[s] /\ f.payload = replica'[s]
    <2>1. CASE s # e.rec
        BY <1>2, <1>3, <2>1 DEF ConsumerInv
    <2>2. CASE s = e.rec /\ e.version > applied[e.rec]
        BY <1>2, <1>3, <2>2
    <2>3. CASE s = e.rec /\ ~ (e.version > applied[e.rec])
        <3>1. applied[s] # 0
            BY <1>1, <2>3
        <3>. QED
            BY <1>2, <1>3, <2>3, <3>1 DEF ConsumerInv
    <2>. QED
        BY <2>1, <2>2, <2>3
<1>. QED
    BY <1>2, <1>4, <1>5, <1>7, <1>8 DEF ConsumerInv

\* The rows that the dispatcher sees carry envelopes of the trail.
LEMMA RowsAre ==
    ASSUME PowerTypes, WalInv, NEW i \in DOMAIN Rows
    PROVE  /\ i \in 1..Len(Rows) /\ i \in Nat /\ i # 0
           /\ Rows[i].envelope \in Envelopes /\ Rows[i].envelope.version >= 1
<1>1. /\ Database \in Databases /\ Consistent(Database)
    BY LatestDatabase
<1>2. Rows \in Seq(OutboxRows) /\ Len(Rows) = Len(Database.trail)
    BY <1>1 DEF Rows, Databases, Consistent
<1>3. i \in 1..Len(Rows) /\ i \in Nat /\ i # 0 /\ Rows[i] \in OutboxRows
    BY <1>2
<1>4. Rows[i].envelope = EnvelopeOf(Database.trail[i]) /\ Database.trail[i].version >= 1
    BY <1>1, <1>2, <1>3 DEF Consistent, Rows
<1>5. Database.trail[i] \in Events
    BY <1>1, <1>2, <1>3 DEF Databases
<1>. QED
    BY <1>3, <1>4, <1>5, EnvelopeIs DEF OutboxRows

LEMMA PublishKeeps ==
    ASSUME PowerInv, NEW i \in DOMAIN Rows, Publish(i)
    PROVE  PowerInv'
<1>. USE DEF PowerInv
<1>1. /\ sent' = i /\ Apply(Rows[i].envelope) /\ Rows' = Rows
      /\ wal' = wal /\ ids' = ids /\ wire' = wire /\ losses' = losses
    BY DEF Publish, Rows, Database
<1>2. /\ i \in 1..Len(Rows) /\ i \in Nat
      /\ Rows[i].envelope \in Envelopes /\ Rows[i].envelope.version >= 1
    BY RowsAre
<1>3. /\ replica' \in [Records -> Images] /\ applied' \in [Records -> Nat]
      /\ received' \in SUBSET Envelopes /\ received' = received \cup {Rows[i].envelope}
      /\ ConsumerInv'
    BY <1>1, <1>2, ApplyKeeps
<1>4. WalInv'
    BY <1>1, <1>3, LogStays
<1>5. PowerTypes'
    BY <1>1, <1>2, <1>3 DEF PowerTypes
<1>6. SentInv'
    BY <1>1, <1>2, <1>3 DEF SentInv
<1>. QED
    BY <1>3, <1>4, <1>5, <1>6

LEMMA ArriveLateKeeps == ASSUME PowerInv, ArriveLate PROVE PowerInv'
<1>. USE DEF PowerInv
<1>1. PICK e \in wire : Apply(e) /\ wire' = wire \ {e} /\ UNCHANGED <<wal, ids, sent, losses>>
    BY DEF ArriveLate
<1>2. e \in Envelopes /\ e.version >= 1 /\ wire' \subseteq wire
    BY <1>1 DEF PowerTypes, ConsumerInv
<1>3. /\ replica' \in [Records -> Images] /\ applied' \in [Records -> Nat]
      /\ received' \in SUBSET Envelopes /\ received' = received \cup {e}
      /\ ConsumerInv'
    BY <1>1, <1>2, ApplyKeeps
<1>4. WalInv'
    BY <1>1, <1>3, LogStays
<1>5. PowerTypes'
    BY <1>1, <1>2, <1>3 DEF PowerTypes
<1>6. SentInv'
    BY <1>1, <1>3 DEF SentInv, Rows, Database
<1>. QED
    BY <1>3, <1>4, <1>5, <1>6

\* A row is marked dead, or dispatched after its delivery.
LEMMA MarkKeeps ==
    ASSUME PowerInv, NEW i \in DOMAIN Rows, NEW status \in {"dispatched", "dead"},
           status = "dispatched" => Rows[i].envelope \in received,
           Commit([Database EXCEPT !.outbox[i].status = status]), received' = received
    PROVE  /\ wal' \in Seq(Databases) /\ wal' # <<>> /\ WalInv'
           /\ Len(Rows') = Len(Rows)
           /\ \A k \in 1..Len(Rows) : Rows'[k].envelope = Rows[k].envelope
<1>. USE DEF PowerInv
<1>1. /\ Database \in Databases /\ Consistent(Database)
      /\ DispatchedArrived(Database, received)
    BY LatestDatabase
<1>2. i \in 1..Len(Database.outbox)
    BY RowsAre DEF Rows
<1>. DEFINE n == [Database EXCEPT !.outbox[i].status = status]
<1>3. n \in Databases /\ Consistent(n) /\ DispatchedArrived(n, received)
    BY <1>1, <1>2, MarkIsConsistent DEF Rows
<1>4. n.trail = Database.trail
    BY <1>1 DEF Databases
<1>. HIDE DEF n
<1>5. wal' \in Seq(Databases) /\ wal' # <<>> /\ WalInv' /\ Database' = n
    BY <1>3, CommitKeeps DEF n
<1>6. Rows = Database.outbox /\ Rows' = n.outbox
    BY <1>5 DEF Rows
<1>. QED
    BY <1>1, <1>3, <1>4, <1>5, <1>6 DEF Consistent

LEMMA PublishFailsKeeps ==
    ASSUME PowerInv, NEW i \in DOMAIN Rows, PublishFails(i)
    PROVE  PowerInv'
<1>. USE DEF PowerInv
<1>1. /\ sent = 0 /\ wire' \in {wire, wire \cup {Rows[i].envelope}}
      /\ wal' = wal \/ Commit([Database EXCEPT !.outbox[i].status = "dead"])
      /\ UNCHANGED <<ids, sent, replica, applied, received, losses>>
    BY DEF PublishFails, consumer
<1>2. Rows[i].envelope \in Envelopes /\ Rows[i].envelope.version >= 1
    BY RowsAre
<1>3. wal' \in Seq(Databases) /\ wal' # <<>> /\ WalInv'
    <2>1. CASE wal' = wal
        BY <1>1, <2>1, LogStays DEF PowerTypes
    <2>2. CASE Commit([Database EXCEPT !.outbox[i].status = "dead"])
        BY <1>1, <2>2, MarkKeeps
    <2>. QED
        BY <1>1, <2>1, <2>2
<1>4. PowerTypes'
    BY <1>1, <1>2, <1>3 DEF PowerTypes
<1>5. SentInv'
    BY <1>1 DEF SentInv
<1>6. ConsumerInv'
    BY <1>1, <1>2 DEF ConsumerInv
<1>. QED
    BY <1>3, <1>4, <1>5, <1>6

LEMMA MarkDispatchedKeeps ==
    ASSUME PowerInv, NEW i \in DOMAIN Rows, MarkDispatched(i)
    PROVE  PowerInv'
<1>. USE DEF PowerInv
<1>1. /\ sent = i /\ sent' = 0
      /\ Commit([Database EXCEPT !.outbox[i].status = "dispatched"])
      /\ UNCHANGED <<ids, replica, applied, received, wire, losses>>
    BY DEF MarkDispatched, consumer
<1>2. Rows[i].envelope \in received
    BY <1>1, RowsAre DEF SentInv
<1>3. wal' \in Seq(Databases) /\ wal' # <<>> /\ WalInv'
    BY <1>1, <1>2, MarkKeeps
<1>4. PowerTypes'
    BY <1>1, <1>3 DEF PowerTypes
<1>5. SentInv' /\ ConsumerInv'
    BY <1>1 DEF SentInv, ConsumerInv
<1>. QED
    BY <1>3, <1>4, <1>5

\* Crashes, checkpoints and power failures.
LEMMA FailuresKeep ==
    ASSUME PowerInv, ProcessDies \/ Checkpoint \/ PowerFails
    PROVE  PowerInv'
<1>. USE DEF PowerInv
<1>1. UNCHANGED <<ids, replica, applied, received, wire>>
    BY DEF ProcessDies, Checkpoint, PowerFails, consumer
<1>2. losses' \in Nat /\ sent' \in Nat
    BY DEF ProcessDies, Checkpoint, PowerFails, PowerTypes
<1>3. \/ wal' = wal
      \/ \E n \in 2..Len(wal) : wal' = SubSeq(wal, n, Len(wal))
      \/ \E n \in 1..(Len(wal) - 1) : wal' = <<wal[n]>>
    BY DEF ProcessDies, Checkpoint, PowerFails
<1>4. wal' \in Seq(Databases) /\ wal' # <<>> /\ WalInv'
    <2>1. CASE wal' = wal
        BY <1>1, <2>1, LogStays DEF PowerTypes
    <2>2. CASE wal' # wal
        BY <1>1, <1>3, <2>2, PartKeeps
    <2>. QED
        BY <2>1, <2>2
<1>5. SentInv'
    <2>1. CASE sent' = 0
        BY <2>1 DEF SentInv
    <2>2. CASE Checkpoint
        <3>1. PICK n \in 2..Len(wal) : wal' = SubSeq(wal, n, Len(wal))
            BY <2>2 DEF Checkpoint
        <3>2. wal'[Len(wal')] = wal[Len(wal)]
            BY <3>1 DEF PowerTypes
        <3>3. Rows' = Rows
            BY <3>2 DEF Rows, Database, Last
        <3>. QED
            BY <1>1, <2>2, <3>3 DEF SentInv, Checkpoint
    <2>. QED
        BY <2>1, <2>2 DEF ProcessDies, PowerFails
<1>6. PowerTypes' /\ ConsumerInv'
    BY <1>1, <1>2, <1>4 DEF PowerTypes, ConsumerInv
<1>. QED
    BY <1>4, <1>5, <1>6

LEMMA PowerStep == PowerInv /\ [PowerNext]_powerVars => PowerInv'
<1>. SUFFICES ASSUME PowerInv, [PowerNext]_powerVars PROVE PowerInv'
    OBVIOUS
<1>1. CASE UNCHANGED powerVars
    BY <1>1 DEF powerVars, consumer, PowerInv, PowerTypes, WalInv, SentInv, ConsumerInv,
                Rows, Database
<1>. QED
    BY <1>1, MutateKeeps, PublishKeeps, PublishFailsKeeps, MarkDispatchedKeeps,
       ArriveLateKeeps, FailuresKeep DEF PowerNext

\* The inductive invariant of a program whose power may fail.
THEOREM PowerInvariant == PowerSpec => []PowerInv
<1>. QED
    BY PowerStarts, PowerStep, PTL DEF PowerSpec

\* What a row says of its delivery stays true, whatever a failure takes back.
THEOREM MarksStayTrue == PowerSpec => []DispatchedWasReceived
<1>1. PowerInv => DispatchedWasReceived
    <2>. SUFFICES ASSUME PowerInv, NEW i \in DOMAIN Rows, Rows[i].status = "dispatched"
                  PROVE  Rows[i].envelope \in received
        BY DEF DispatchedWasReceived
    <2>1. DispatchedArrived(Database, received) /\ i \in 1..Len(Rows)
        BY LatestDatabase, RowsAre DEF PowerInv
    <2>. QED
        BY <2>1 DEF DispatchedArrived, Rows
<1>. QED
    BY <1>1, PowerInvariant, PTL

\* A consumer that compares aggregate_version has the current record once its
\* latest event is dispatched, unless it was told of one that was lost.
THEOREM OnlyToldFallBehind == PowerSpec => []CurrentUnlessToldOfLost
<1>1. PowerInv => CurrentUnlessToldOfLost
    <2>. SUFFICES ASSUME PowerInv, NEW r \in Records, NEW i \in DOMAIN Rows,
                         Rows[i].envelope.rec = r,
                         \A j \in DOMAIN Rows : j > i => Rows[j].envelope.rec # r,
                         Rows[i].status = "dispatched", ~ ToldOfLost(r)
                  PROVE  replica[r] = Database.value[r]
        BY DEF CurrentUnlessToldOfLost
    <2>. DEFINE t == Database.trail
    <2>1. /\ Database \in Databases /\ Consistent(Database)
          /\ DispatchedArrived(Database, received)
        BY LatestDatabase DEF PowerInv
    <2>2. /\ Rows \in Seq(OutboxRows) /\ Len(Rows) = Len(t) /\ DOMAIN Rows = 1..Len(t)
          /\ t \in Seq(Events)
        BY <2>1 DEF Databases, Consistent, Rows
    <2>3. \A j \in 1..Len(t) : t[j] \in Events
        BY <2>2
    <2>4. \A j \in 1..Len(t) : Rows[j].envelope = EnvelopeOf(t[j])
        BY <2>1 DEF Consistent, Rows
    <2>5. \A j \in 1..Len(t) :
             /\ Rows[j].envelope.rec = t[j].rec
             /\ Rows[j].envelope.version = t[j].version
             /\ Rows[j].envelope.payload = t[j].after
        BY <2>3, <2>4, EnvelopeIs
    <2>6. Rows[i].envelope \in received
        BY <2>1, <2>2 DEF DispatchedArrived, Rows
    <2>7. PICK e \in received : e.rec = r /\ e.version = applied[r] /\ e.payload = replica[r]
        BY <2>6 DEF PowerInv, ConsumerInv
    <2>8. PICK j \in 1..Len(t) : Rows[j].envelope = e
        BY <2>2, <2>7 DEF ToldOfLost
    <2>9. t[i].version <= t[j].version
        BY <2>2, <2>5, <2>6, <2>7, <2>8 DEF PowerInv, ConsumerInv
    <2>10. ~ (j > i) /\ t[i].rec = r /\ t[j].rec = r
        BY <2>2, <2>5, <2>7, <2>8
    <2>11. j = i
        <3>1. j < i => t[j].version < t[i].version
            BY <2>1, <2>2, <2>10 DEF Consistent
        <3>2. t[i].version \in Nat /\ t[j].version \in Nat
            BY <2>2, <2>3 DEF Events
        <3>. QED
            BY <2>2, <2>9, <2>10, <3>1, <3>2
    <2>12. Database.value[r] = t[i].after
        <3>1. PICK k \in 1..Len(t) : WrittenBy(Database, r, k)
            BY <2>1, <2>2, <2>10 DEF Consistent, Untouched
        <3>2. ~ (i > k) /\ ~ (k > i)
            BY <2>2, <2>5, <2>10, <3>1 DEF WrittenBy
        <3>3. i = k
            BY <2>2, <3>2
        <3>. QED
            BY <3>1, <3>3 DEF WrittenBy
    <2>. QED
        BY <2>2, <2>5, <2>7, <2>8, <2>11, <2>12
<1>. QED
    BY <1>1, PowerInvariant, PTL

-----------------------------------------------------------------------------
(***************************************************************************)
(* The log of mutations: what is written between two failures, and what a  *)
(* failure takes back.                                                     *)
(***************************************************************************)

\* What has become of the database d, unless commits were lost: more mutations
\* and more settled rows.
Continues(n, d) ==
    /\ Len(d.trail) <= Len(n.trail)
    /\ \A i \in 1..Len(d.trail) :
        /\ n.trail[i] = d.trail[i]
        /\ d.outbox[i].status # "pending" => n.outbox[i] = d.outbox[i]

\* The databases in the log continue one another, and their event ids have been
\* given out.
HistoryInv ==
    /\ \A k, l \in 1..Len(wal) : k <= l => Continues(wal[l], wal[k])
    /\ \A k \in 1..Len(wal) : \A i \in 1..Len(wal[k].trail) : wal[k].trail[i].event_id <= ids

LogInv == PowerInv /\ HistoryInv

LEMMA EventIdIsNumber ==
    ASSUME NEW d \in Databases, NEW i \in 1..Len(d.trail)
    PROVE  d.trail[i].event_id \in Nat
<1>1. d.trail \in Seq(Events)
    BY DEF Databases
<1>2. d.trail[i] \in Events
    BY <1>1
<1>3. \A e \in Events : e.event_id \in 1..MaxEvents
    BY PowerLossAssumption DEF Events
<1>. QED
    BY <1>2, <1>3, PowerLossAssumption

\* A database that is like the last one in the log or continues it is committed.
LEMMA CommitContinues ==
    ASSUME LogInv, NEW d \in Databases, Commit(d), Continues(d, Database),
           Continues(d, d), ids' \in Nat, ids <= ids',
           \A i \in 1..Len(d.trail) : d.trail[i].event_id <= ids'
    PROVE  HistoryInv'
<1>1. wal' = Append(wal, d) /\ wal \in Seq(Databases) /\ Len(wal) \in Nat /\ Len(wal) >= 1
    BY DEF Commit, PowerTypes, LogInv, PowerInv
<1>2. /\ Len(wal') = Len(wal) + 1 /\ wal'[Len(wal) + 1] = d
      /\ \A k \in 1..Len(wal) : wal'[k] = wal[k]
    BY <1>1
<1>3. \A k \in 1..Len(wal') : k \in 1..Len(wal) \/ k = Len(wal) + 1
    BY <1>1, <1>2
<1>4. ASSUME NEW k \in 1..Len(wal) PROVE Continues(d, wal[k])
    <2>1. Database = wal[Len(wal)] /\ Len(wal) \in 1..Len(wal) /\ k <= Len(wal)
        BY <1>1 DEF Database, Last
    <2>2. Continues(wal[Len(wal)], wal[k]) /\ Continues(d, wal[Len(wal)])
        BY <2>1 DEF LogInv, HistoryInv
    <2>3. wal[k] \in Databases /\ wal[Len(wal)] \in Databases
        BY <1>1, <2>1
    <2>4. Len(wal[k].trail) \in Nat /\ Len(wal[Len(wal)].trail) \in Nat /\ Len(d.trail) \in Nat
        BY <2>3 DEF Databases
    <2>5. \A i \in 1..Len(wal[k].trail) : i \in 1..Len(wal[Len(wal)].trail)
        BY <2>2, <2>4 DEF Continues
    <2>6. Len(wal[k].trail) <= Len(d.trail)
        BY <2>2, <2>4 DEF Continues
    <2>. QED
        BY <2>2, <2>5, <2>6 DEF Continues
<1>5. ASSUME NEW k \in 1..Len(wal'), NEW l \in 1..Len(wal'), k <= l
      PROVE  Continues(wal'[l], wal'[k])
    <2>1. CASE l = Len(wal) + 1
        BY <1>2, <1>3, <1>4, <2>1
    <2>2. CASE l \in 1..Len(wal)
        <3>1. k \in 1..Len(wal)
            BY <1>1, <1>5, <2>2
        <3>. QED
            BY <1>2, <1>5, <2>2, <3>1 DEF LogInv, HistoryInv
    <2>. QED
        BY <1>3, <2>1, <2>2
<1>6. ASSUME NEW k \in 1..Len(wal), NEW i \in 1..Len(wal[k].trail)
      PROVE  wal[k].trail[i].event_id <= ids'
    <2>1. wal[k].trail[i].event_id <= ids
        BY DEF LogInv, HistoryInv
    <2>2. wal[k].trail[i].event_id \in Nat
        BY <1>1, EventIdIsNumber
    <2>3. ids \in Nat /\ ids <= ids'
        BY DEF LogInv, PowerInv, PowerTypes
    <2>. QED
        BY <2>1, <2>2, <2>3
<1>7. \A k \in 1..Len(wal') : \A i \in 1..Len(wal'[k].trail) : wal'[k].trail[i].event_id <= ids'
    BY <1>2, <1>3, <1>6
<1>. QED
    BY <1>5, <1>7 DEF HistoryInv

Adds(n, d, ev, row) == n.trail = Append(d.trail, ev) /\ n.outbox = Append(d.outbox, row)

\* The databases before and after a mutation and a mark.
LEMMA MutationContinues ==
    ASSUME NEW d \in Databases, Consistent(d), NEW ev \in Events, NEW row \in OutboxRows,
           NEW n, Adds(n, d, ev, row)
    PROVE  /\ Continues(n, d) /\ Continues(n, n)
           /\ \A i \in 1..Len(d.outbox) : n.outbox[i] = d.outbox[i]
           /\ \A i \in 1..Len(n.trail) :
                 (i \in 1..Len(d.trail) /\ n.trail[i] = d.trail[i]) \/ n.trail[i] = ev
<1>1. /\ d.trail \in Seq(Events) /\ Len(d.trail) \in Nat
      /\ d.outbox \in Seq(OutboxRows) /\ Len(d.outbox) = Len(d.trail)
    BY DEF Databases, Consistent
<1>2. n.trail = Append(d.trail, ev) /\ n.outbox = Append(d.outbox, row)
    BY DEF Adds
<1>3. /\ Len(n.trail) = Len(d.trail) + 1 /\ n.trail[Len(d.trail) + 1] = ev
      /\ \A i \in 1..Len(d.trail) : n.trail[i] = d.trail[i]
    BY <1>1, <1>2
<1>4. \A i \in 1..Len(d.trail) : n.outbox[i] = d.outbox[i]
    BY <1>1, <1>2
<1>5. \A i \in 1..Len(n.trail) : i \in 1..Len(d.trail) \/ i = Len(d.trail) + 1
    BY <1>1, <1>3
<1>. QED
    BY <1>1, <1>3, <1>4, <1>5 DEF Continues

LEMMA MarkContinues ==
    ASSUME NEW d \in Databases, Consistent(d), NEW i \in 1..Len(d.outbox),
           d.outbox[i].status = "pending", NEW status \in {"dispatched", "dead"},
           NEW n, n = [d EXCEPT !.outbox[i].status = status]
    PROVE  /\ Continues(n, d) /\ Continues(n, n)
           /\ n.value = d.value /\ n.trail = d.trail /\ DOMAIN n.outbox = DOMAIN d.outbox
           /\ \A k \in 1..Len(d.outbox) :
                 /\ n.outbox[k].envelope = d.outbox[k].envelope
                 /\ d.outbox[k].status # "pending" => n.outbox[k] = d.outbox[k]
<1>1. /\ d.trail \in Seq(Events) /\ Len(d.trail) \in Nat
      /\ d.outbox \in Seq(OutboxRows) /\ Len(d.outbox) = Len(d.trail)
      /\ d = [value |-> d.value, trail |-> d.trail, outbox |-> d.outbox]
    BY DEF Databases, Consistent
<1>2. /\ n.value = d.value /\ n.trail = d.trail
      /\ n.outbox = [d.outbox EXCEPT ![i] = [d.outbox[i] EXCEPT !.status = status]]
    BY <1>1
<1>3. d.outbox[i] \in OutboxRows
    BY <1>1
<1>4. [d.outbox[i] EXCEPT !.status = status].envelope = d.outbox[i].envelope
    BY <1>3 DEF OutboxRows
<1>5. /\ n.outbox[i].envelope = d.outbox[i].envelope
      /\ \A k \in 1..Len(d.outbox) : k # i => n.outbox[k] = d.outbox[k]
      /\ DOMAIN n.outbox = DOMAIN d.outbox
    BY <1>1, <1>2, <1>4
<1>6. Continues(n, d) /\ Continues(n, n)
    BY <1>1, <1>2, <1>5 DEF Continues
<1>. QED
    BY <1>2, <1>5, <1>6

\* A function on 1..n is a sequence of length n.
LEMMA SeqOfLength ==
    ASSUME NEW S, NEW n \in Nat, NEW f \in [1..n -> S]
    PROVE  f \in Seq(S) /\ Len(f) = n
<1>1. f \in Seq(S)
    BY SeqDef
<1>2. Len(f) \in Nat /\ 1..n = 1..Len(f)
    BY <1>1, LenProperties
<1>. QED
    BY <1>1, <1>2

\* A step keeps what is settled.
Settled == \A i \in DOMAIN Rows : Rows[i].status # "pending" => Rows'[i] = Rows[i]

\* The latest version of a record is the highest in its trail: after a mutation the
\* one that the mutation was given, and as before for other records.
LEMMA NextVersionAfter ==
    ASSUME Database \in Databases, Consistent(Database),
           NEW r \in Records, NEW ev \in Events, ev.rec = r, ev.version = NextVersion(r),
           Database'.trail = Append(Database.trail, ev)
    PROVE  /\ NextVersion(r)' = NextVersion(r) + 1
           /\ \A s \in Records \ {r} : NextVersion(s)' = NextVersion(s)
<1>. DEFINE t == Database.trail
            v == NextVersion(r)
<1>1. t \in Seq(Events) /\ Len(t) \in Nat
    BY DEF Databases
<1>2. /\ v \in Nat /\ v >= 1
      /\ \A i \in 1..Len(t) : t[i].rec = r => t[i].version < v
    BY NextVersionIsHigher
<1>3. ToSet(Database'.trail) = ToSet(t) \cup {ev}
    <2>1. /\ Len(Append(t, ev)) = Len(t) + 1 /\ Append(t, ev)[Len(t) + 1] = ev
          /\ \A i \in 1..Len(t) : Append(t, ev)[i] = t[i]
          /\ DOMAIN t = 1..Len(t) /\ DOMAIN Append(t, ev) = 1..(Len(t) + 1)
        BY <1>1
    <2>2. \A e : e \in ToSet(t) <=> \E i \in 1..Len(t) : e = t[i]
        BY <2>1 DEF ToSet
    <2>3. \A e : e \in ToSet(Append(t, ev)) <=> \E i \in 1..(Len(t) + 1) : e = Append(t, ev)[i]
        BY <2>1 DEF ToSet
    <2>4. \A i \in 1..(Len(t) + 1) : i \in 1..Len(t) \/ i = Len(t) + 1
        BY <1>1
    <2>5. Len(t) + 1 \in 1..(Len(t) + 1) /\ \A i \in 1..Len(t) : i \in 1..(Len(t) + 1)
        BY <1>1
    <2>. QED
        BY <2>1, <2>2, <2>3, <2>4, <2>5
<1>. HIDE DEF t, v
<1>4. ASSUME NEW s \in Records
      PROVE  VersionsOf(s)' = IF s = r THEN VersionsOf(s) \cup {v} ELSE VersionsOf(s)
    <2>. DEFINE S == {f \in ToSet(t) : f.rec = s}
                T == {f \in ToSet(Database'.trail) : f.rec = s}
    <2>1. T = IF s = r THEN S \cup {ev} ELSE S
        BY <1>3
    <2>2. VersionsOf(s) = {e.version : e \in S} /\ VersionsOf(s)' = {e.version : e \in T}
        BY DEF VersionsOf, t
    <2>. QED
        BY <2>1, <2>2 DEF v
<1>5. \A s \in Records \ {r} : NextVersion(s)' = NextVersion(s)
    BY <1>4 DEF NextVersion
<1>6. NextVersion(r)' = v + 1
    <2>. DEFINE S == VersionsOf(r) \cup {v} \cup {0}
    <2>1. \A y \in S : v >= y
        <3>1. \A e \in ToSet(t) : \E i \in 1..Len(t) : e = t[i]
            BY <1>1 DEF ToSet
        <3>2. \A y \in VersionsOf(r) : \E i \in 1..Len(t) : t[i].rec = r /\ y = t[i].version
            BY <3>1 DEF VersionsOf, t
        <3>3. \A i \in 1..Len(t) : t[i] \in Events
            BY <1>1
        <3>4. \A e \in Events : e.version \in Nat
            BY DEF Events
        <3>5. \A y \in VersionsOf(r) : v >= y
            BY <1>2, <3>2, <3>3, <3>4
        <3>. QED
            BY <1>2, <3>5
    <2>2. NextVersion(r)' = Max(S) + 1
        BY <1>4 DEF NextVersion
    <2>3. v \in S
        OBVIOUS
    <2>. HIDE DEF S
    <2>4. Max(S) \in S /\ Max(S) >= v
        BY <2>1, <2>3, MaxIsHighest
    <2>5. PICK m \in S : m = Max(S) /\ m >= v /\ v >= m
        BY <2>1, <2>4
    <2>6. m \in Nat
        <3>1. \A y \in S : y \in Nat
            <4>1. \A e \in ToSet(t) : e \in Events
                BY <1>1 DEF ToSet
            <4>2. \A y \in VersionsOf(r) : y \in Nat
                BY <4>1 DEF VersionsOf, t, Events
            <4>. QED
                BY <1>2, <4>2 DEF S
        <3>. QED
            BY <3>1
    <2>. QED
        BY <1>2, <2>2, <2>5, <2>6
<1>. QED
    BY <1>5, <1>6 DEF v

\* A mutation is one of the record log.
LEMMA MutateLogs ==
    ASSUME LogInv, NEW r \in Records, NEW after \in Images, Mutate(r, after)
    PROVE  HistoryInv' /\ Log!Next /\ Settled
<1>. USE DEF LogInv, PowerInv
<1>1. /\ Database \in Databases /\ Consistent(Database)
      /\ Len(wal) \in 1..Len(wal) /\ Database = wal[Len(wal)]
    BY LatestDatabase
<1>. DEFINE d == Database
            ev == NewEvent(ids + 1, r, NextVersion(r), d.value[r], after)
            row == [envelope |-> EnvelopeOf(ev), status |-> "pending"]
            v == [d.value EXCEPT ![r] = after]
            n == [value |-> v, trail |-> Append(d.trail, ev), outbox |-> Append(d.outbox, row)]
<1>2. Commit(n) /\ ids' = ids + 1 /\ ids < MaxEvents /\ (after = NoValue => d.value[r] # NoValue)
    BY DEF Mutate, Mutated, Rows
<1>3. ids \in Nat /\ ids + 1 \in EventIds /\ ids' \in Nat /\ ids <= ids'
    BY <1>2, PowerLossAssumption DEF PowerTypes
<1>4. /\ d.value \in [Records -> Images] /\ v \in [Records -> Images] /\ d.value[r] \in Images
      /\ d.trail \in Seq(Events) /\ d.outbox \in Seq(OutboxRows)
      /\ Len(d.outbox) = Len(d.trail) /\ Len(d.trail) \in Nat
    BY <1>1 DEF Databases, Consistent
<1>5. NextVersion(r) \in Nat
    BY <1>1, NextVersionIsHigher
<1>6. ev \in Events /\ ev.rec = r /\ ev.version = NextVersion(r) /\ ev.event_id = ids + 1
    BY <1>3, <1>4, <1>5, NewEventIs DEF NewEvent
<1>7. row \in OutboxRows /\ row.envelope = EnvelopeOf(ev)
    BY <1>6, EnvelopeIs DEF OutboxRows
<1>8. Database' = n
    BY <1>2 DEF Commit, Database, Last, PowerTypes
<1>9. /\ n.value = v /\ n.trail = Append(d.trail, ev) /\ n.outbox = Append(d.outbox, row)
      /\ n \in Databases
    BY <1>4, <1>6, <1>7 DEF Databases
<1>. HIDE DEF d, ev, row, v
<1>16. d \in Databases /\ Consistent(d) /\ Adds(n, d, ev, row)
    BY <1>1, <1>9 DEF d, Adds
<1>. HIDE DEF n
<1>10. /\ Continues(n, d) /\ Continues(n, n)
       /\ \A i \in 1..Len(d.outbox) : n.outbox[i] = d.outbox[i]
       /\ \A i \in 1..Len(n.trail) :
             (i \in 1..Len(d.trail) /\ n.trail[i] = d.trail[i]) \/ n.trail[i] = ev
    BY <1>6, <1>7, <1>16, MutationContinues
<1>11. \A i \in 1..Len(d.trail) : d.trail[i].event_id \in Nat /\ d.trail[i].event_id <= ids
    BY <1>1, EventIdIsNumber DEF HistoryInv, d
<1>12. HistoryInv'
    <2>1. \A i \in 1..Len(n.trail) : n.trail[i].event_id <= ids'
        BY <1>2, <1>3, <1>6, <1>10, <1>11
    <2>. QED
        BY <1>2, <1>3, <1>9, <1>10, <2>1, CommitContinues DEF d
<1>13. Settled
    <2>1. Rows = d.outbox /\ Rows' = n.outbox
        BY <1>8 DEF Rows, d
    <2>. QED
        BY <1>4, <1>10, <2>1 DEF Settled
<1>14. Log!Mutate(ids + 1, r, after)
    <2>1. ev = Log!NewEvent(ids + 1, r, (NextVersion(r) - 1) + 1, d.value[r], after)
        <3>1. (NextVersion(r) - 1) + 1 = NextVersion(r)
            BY <1>5
        <3>. QED
            BY <3>1 DEF ev, NewEvent, ActionOf, Log!NewEvent, Log!ActionOf
    <2>2. EnvelopeOf(ev) = Log!EnvelopeOf(ev)
        BY DEF EnvelopeOf, Log!EnvelopeOf
    <2>3. \A i \in DOMAIN d.trail : d.trail[i].event_id # ids + 1
        <3>1. DOMAIN d.trail = 1..Len(d.trail)
            BY <1>4
        <3>2. \A i \in 1..Len(d.trail) : d.trail[i].event_id # ids + 1
            BY <1>3, <1>11
        <3>. QED
            BY <3>1, <3>2
    <2>4. /\ NextVersion(r)' = NextVersion(r) + 1
          /\ \A s \in Records \ {r} : NextVersion(s)' = NextVersion(s)
        BY <1>1, <1>6, <1>8, <1>9, NextVersionAfter DEF d
    <2>5. [s \in Records |-> NextVersion(s) - 1]'
             = [[s \in Records |-> NextVersion(s) - 1] EXCEPT ![r] = @ + 1]
        <3>1. NextVersion(r)' - 1 = (NextVersion(r) - 1) + 1
            BY <1>5, <2>4
        <3>2. \A s \in Records : NextVersion(s)' - 1 =
                 IF s = r THEN (NextVersion(r) - 1) + 1 ELSE NextVersion(s) - 1
            BY <2>4, <3>1
        <3>. QED
            BY <3>2
    <2>6. [i \in DOMAIN Rows |-> Rows[i].envelope]'
             = Append([i \in DOMAIN Rows |-> Rows[i].envelope], EnvelopeOf(ev))
        <3>. DEFINE old == [i \in 1..Len(d.trail) |-> d.outbox[i].envelope]
                    new == [i \in 1..(Len(d.trail) + 1) |-> n.outbox[i].envelope]
        <3>1. /\ Rows = d.outbox /\ Rows' = n.outbox
              /\ DOMAIN Rows = 1..Len(d.trail) /\ DOMAIN Rows' = 1..(Len(d.trail) + 1)
            BY <1>4, <1>7, <1>8, <1>9 DEF Rows, d
        <3>2. n.outbox[Len(d.trail) + 1].envelope = EnvelopeOf(ev)
            BY <1>4, <1>7, <1>9
        <3>3. old \in Seq(Envelopes) /\ Len(old) = Len(d.trail)
            <4>1. \A i \in 1..Len(d.trail) : d.outbox[i] \in OutboxRows
                BY <1>4
            <4>2. \A e \in OutboxRows : e.envelope \in Envelopes
                BY DEF OutboxRows
            <4>3. old \in [1..Len(d.trail) -> Envelopes]
                BY <4>1, <4>2
            <4>4. DOMAIN old = 1..Len(d.trail)
                OBVIOUS
            <4>. HIDE DEF old
            <4>. QED
                BY <1>4, <4>3, <4>4, SeqOfLength
        <3>4. EnvelopeOf(ev) \in Envelopes
            BY <1>6, EnvelopeIs
        <3>5. /\ Append(old, EnvelopeOf(ev)) \in Seq(Envelopes)
              /\ Len(Append(old, EnvelopeOf(ev))) = Len(d.trail) + 1
              /\ \A i \in 1..Len(d.trail) : Append(old, EnvelopeOf(ev))[i] = old[i]
              /\ Append(old, EnvelopeOf(ev))[Len(d.trail) + 1] = EnvelopeOf(ev)
            BY <3>3, <3>4, AppendProperties
        <3>6. \A i \in 1..(Len(d.trail) + 1) : new[i] = Append(old, EnvelopeOf(ev))[i]
            <4>1. TAKE i \in 1..(Len(d.trail) + 1)
            <4>2. CASE i = Len(d.trail) + 1
                BY <3>2, <3>5, <4>2
            <4>3. CASE i \in 1..Len(d.trail)
                BY <1>4, <1>10, <3>5, <4>3
            <4>. QED
                BY <1>4, <4>2, <4>3
        <3>7. DOMAIN Append(old, EnvelopeOf(ev)) = 1..(Len(d.trail) + 1)
            BY <1>4, <3>5
        <3>8. Append(old, EnvelopeOf(ev)) =
                 [i \in 1..(Len(d.trail) + 1) |-> Append(old, EnvelopeOf(ev))[i]]
            BY <3>5, <3>7
        <3>9. new = Append(old, EnvelopeOf(ev))
            BY <3>6, <3>8
        <3>. QED
            BY <3>1, <3>9
    <2>. QED
        BY <1>2, <1>8, <1>9, <2>1, <2>2, <2>3, <2>5, <2>6 DEF Log!Mutate, d, v
<1>15. ids + 1 \in EventIds /\ after \in Log!Images
    BY <1>3 DEF Images, Log!Images
<1>. QED
    BY <1>12, <1>13, <1>14, <1>15 DEF Log!Next

\* The tables of the record log do not change.
SameTables ==
    /\ Database'.value = Database.value /\ Database'.trail = Database.trail
    /\ DOMAIN Rows' = DOMAIN Rows
    /\ \A i \in DOMAIN Rows : Rows'[i].envelope = Rows[i].envelope

LEMMA SameLog ==
    ASSUME SameTables
    PROVE  UNCHANGED Log!vars
<1>1. \A r \in Records : NextVersion(r)' = NextVersion(r)
    BY DEF SameTables, NextVersion, VersionsOf
<1>2. [r \in Records |-> NextVersion(r) - 1]' = [r \in Records |-> NextVersion(r) - 1]
    BY <1>1
<1>3. [i \in DOMAIN Rows |-> Rows[i].envelope]' = [i \in DOMAIN Rows |-> Rows[i].envelope]
    BY DEF SameTables
<1>. QED
    BY <1>2, <1>3 DEF Log!vars, SameTables

\* A mark leaves the record log alone.
LEMMA MarkLogs ==
    ASSUME LogInv, NEW i \in DOMAIN Rows, i \in Pending,
           NEW status \in {"dispatched", "dead"},
           status = "dispatched" => Rows[i].envelope \in received,
           Commit([Database EXCEPT !.outbox[i].status = status]), UNCHANGED ids
    PROVE  HistoryInv' /\ UNCHANGED Log!vars /\ Settled
<1>. USE DEF LogInv, PowerInv
<1>1. /\ Database \in Databases /\ Consistent(Database) /\ DispatchedArrived(Database, received)
      /\ Len(wal) \in 1..Len(wal) /\ Database = wal[Len(wal)]
    BY LatestDatabase
<1>2. i \in 1..Len(Database.outbox) /\ Database.outbox[i].status = "pending"
    BY RowsAre DEF Rows, Pending
<1>3. ids \in Nat /\ ids' = ids
    BY DEF PowerTypes
<1>. DEFINE d == Database
            n == [Database EXCEPT !.outbox[i].status = status]
<1>4. n \in Databases
    BY <1>1, <1>2, MarkIsConsistent DEF Rows
<1>5. /\ Continues(n, d) /\ Continues(n, n)
      /\ n.value = d.value /\ n.trail = d.trail /\ DOMAIN n.outbox = DOMAIN d.outbox
      /\ \A k \in 1..Len(d.outbox) :
            /\ n.outbox[k].envelope = d.outbox[k].envelope
            /\ d.outbox[k].status # "pending" => n.outbox[k] = d.outbox[k]
    BY <1>1, <1>2, MarkContinues
<1>6. Database' = n
    BY DEF Commit, Database, Last, PowerTypes
<1>7. Commit(n)
    OBVIOUS
<1>. HIDE DEF d, n
<1>8. \A k \in 1..Len(n.trail) : n.trail[k].event_id <= ids'
    BY <1>1, <1>3, <1>5 DEF HistoryInv, d
<1>9. HistoryInv'
    BY <1>3, <1>4, <1>5, <1>7, <1>8, CommitContinues DEF d
<1>10. /\ Rows = d.outbox /\ Rows' = n.outbox /\ DOMAIN Rows = 1..Len(d.outbox)
    BY <1>1, <1>6 DEF Rows, d, Databases
<1>11. Settled
    BY <1>5, <1>10 DEF Settled
<1>12. SameTables
    BY <1>5, <1>6, <1>10 DEF SameTables, d
<1>. QED
    BY <1>9, <1>11, <1>12, SameLog

\* The databases are as they were.
LEMMA LogUntouched ==
    ASSUME LogInv, UNCHANGED <<wal, ids>>
    PROVE  HistoryInv' /\ UNCHANGED Log!vars /\ Settled
<1>1. Database' = Database /\ Rows' = Rows
    BY DEF Database, Rows
<1>2. HistoryInv'
    BY DEF LogInv, HistoryInv
<1>3. SameTables
    BY <1>1 DEF SameTables
<1>. QED
    BY <1>1, <1>2, <1>3, SameLog DEF Settled

LEMMA CheckpointLogs ==
    ASSUME LogInv, Checkpoint
    PROVE  HistoryInv' /\ UNCHANGED Log!vars /\ Settled
<1>1. PICK n \in 2..Len(wal) : wal' = SubSeq(wal, n, Len(wal))
    BY DEF Checkpoint
<1>2. wal \in Seq(Databases) /\ Len(wal) \in Nat /\ ids' = ids
    BY DEF LogInv, PowerInv, PowerTypes, Checkpoint
<1>3. /\ Len(wal') = Len(wal) - n + 1
      /\ \A k \in 1..Len(wal') : wal'[k] = wal[n + k - 1] /\ n + k - 1 \in 1..Len(wal)
    BY <1>1, <1>2
<1>4. HistoryInv'
    <2>1. \A k, l \in 1..Len(wal') : k <= l => n + k - 1 <= n + l - 1
        BY <1>1, <1>2, <1>3
    <2>2. \A k, l \in 1..Len(wal') : k <= l => Continues(wal'[l], wal'[k])
        BY <1>3, <2>1 DEF LogInv, HistoryInv
    <2>3. \A k \in 1..Len(wal') : \A i \in 1..Len(wal'[k].trail) : wal'[k].trail[i].event_id <= ids'
        BY <1>2, <1>3 DEF LogInv, HistoryInv
    <2>. QED
        BY <2>2, <2>3 DEF HistoryInv
<1>5. Database' = Database
    <2>1. n + Len(wal') - 1 = Len(wal) /\ Len(wal') \in 1..Len(wal')
        BY <1>1, <1>2, <1>3
    <2>2. wal'[Len(wal')] = wal[Len(wal)]
        BY <1>3, <2>1
    <2>. QED
        BY <2>2 DEF Database, Last
<1>6. Rows' = Rows
    BY <1>5 DEF Rows
<1>7. SameTables
    BY <1>5, <1>6 DEF SameTables
<1>. QED
    BY <1>4, <1>6, <1>7, SameLog DEF Settled

\* A power failure brings back a database that the present one continues.
LEMMA FailureTakesLatest ==
    ASSUME LogInv, PowerFails
    PROVE  /\ HistoryInv'
           /\ Database'.trail = SubSeq(Database.trail, 1, Len(Database'.trail))
           /\ \A i \in DOMAIN Rows' : Rows'[i].status # "pending" => Rows'[i] = Rows[i]
<1>. USE DEF LogInv, PowerInv
<1>1. PICK n \in 1..(Len(wal) - 1) : wal' = <<wal[n]>>
    BY DEF PowerFails
<1>2. /\ Database \in Databases /\ Database = wal[Len(wal)]
      /\ Len(wal) \in 1..Len(wal) /\ ids' = ids
    BY LatestDatabase DEF PowerFails
<1>3. n \in 1..Len(wal) /\ n <= Len(wal) /\ n <= n
    BY <1>2
<1>4. wal[n] \in Databases /\ Consistent(wal[n])
    BY <1>3 DEF PowerTypes, WalInv
<1>5. Continues(Database, wal[n]) /\ Continues(wal[n], wal[n])
    BY <1>2, <1>3 DEF HistoryInv
<1>6. Len(wal') = 1 /\ wal'[1] = wal[n] /\ Database' = wal[n]
    BY <1>1 DEF Database, Last
<1>. DEFINE old == wal[n]
            t == Database.trail
<1>7. /\ old.trail \in Seq(Events) /\ old.outbox \in Seq(OutboxRows)
      /\ Len(old.outbox) = Len(old.trail) /\ t \in Seq(Events)
      /\ Len(old.trail) \in Nat /\ Len(t) \in Nat
    BY <1>2, <1>4 DEF Databases, Consistent
<1>8. HistoryInv'
    <2>1. \A k \in 1..Len(wal') : k = 1
        BY <1>6
    <2>2. \A k, l \in 1..Len(wal') : Continues(wal'[l], wal'[k])
        BY <1>5, <1>6, <2>1
    <2>3. \A i \in 1..Len(wal[n].trail) : wal[n].trail[i].event_id <= ids'
        BY <1>2, <1>3 DEF HistoryInv
    <2>4. \A k \in 1..Len(wal') : \A i \in 1..Len(wal'[k].trail) : wal'[k].trail[i].event_id <= ids'
        BY <1>6, <2>1, <2>3
    <2>. QED
        BY <2>2, <2>4 DEF HistoryInv
<1>9. old.trail = SubSeq(t, 1, Len(old.trail))
    <2>. DEFINE m == Len(old.trail)
    <2>1. m <= Len(t) /\ \A i \in 1..m : old.trail[i] = t[i]
        BY <1>5 DEF Continues
    <2>2. /\ SubSeq(t, 1, m) \in Seq(Events) /\ Len(SubSeq(t, 1, m)) = m
          /\ \A i \in 1..m : SubSeq(t, 1, m)[i] = t[i]
        <3>1. \A i \in 1..m : t[i] \in Events
            BY <1>7, <2>1
        <3>2. m \in Nat /\ 1 \in Int /\ m \in Int
            BY <1>7
        <3>. HIDE DEF m, t
        <3>3. /\ SubSeq(t, 1, m) \in Seq(Events)
              /\ Len(SubSeq(t, 1, m)) = IF 1 <= m THEN m - 1 + 1 ELSE 0
              /\ \A i \in 1..(m - 1 + 1) : SubSeq(t, 1, m)[i] = t[1 + i - 1]
            BY <3>1, <3>2, SubSeqProperties
        <3>. QED
            BY <3>2, <3>3
    <2>. HIDE DEF t
    <2>3. \A i \in 1..Len(old.trail) : old.trail[i] = SubSeq(t, 1, m)[i]
        BY <2>1, <2>2
    <2>. QED
        BY <1>7, <2>2, <2>3, SeqEqual
<1>10. /\ Rows' = old.outbox /\ DOMAIN Rows' = 1..Len(old.trail) /\ Rows = Database.outbox
    BY <1>6, <1>7 DEF Rows
<1>11. \A i \in DOMAIN Rows' : Rows'[i].status # "pending" => Rows'[i] = Rows[i]
    BY <1>5, <1>10 DEF Continues
<1>. QED
    BY <1>6, <1>8, <1>9, <1>11

\* The steps that are not a power failure.
LEMMA OtherStepsLog ==
    ASSUME LogInv, [PowerNext]_powerVars, ~ PowerFails
    PROVE  HistoryInv' /\ [Log!Next]_(Log!vars) /\ Settled
<1>1. CASE UNCHANGED powerVars
    BY <1>1, LogUntouched DEF powerVars
<1>2. ASSUME NEW r \in Records, NEW after \in Images, Mutate(r, after)
      PROVE  HistoryInv' /\ [Log!Next]_(Log!vars) /\ Settled
    BY <1>2, MutateLogs
<1>3. ASSUME NEW i \in DOMAIN Rows, Publish(i)
      PROVE  HistoryInv' /\ [Log!Next]_(Log!vars) /\ Settled
    BY <1>3, LogUntouched DEF Publish
<1>4. ASSUME NEW i \in DOMAIN Rows, PublishFails(i)
      PROVE  HistoryInv' /\ [Log!Next]_(Log!vars) /\ Settled
    <2>1. i \in Pending /\ UNCHANGED ids
        BY <1>4 DEF PublishFails
    <2>2. CASE UNCHANGED wal
        BY <2>1, <2>2, LogUntouched
    <2>3. CASE Commit([Database EXCEPT !.outbox[i].status = "dead"])
        BY <2>1, <2>3, MarkLogs
    <2>. QED
        BY <1>4, <2>2, <2>3 DEF PublishFails
<1>5. ASSUME NEW i \in DOMAIN Rows, MarkDispatched(i)
      PROVE  HistoryInv' /\ [Log!Next]_(Log!vars) /\ Settled
    <2>1. /\ i \in Pending /\ sent = i /\ UNCHANGED ids
          /\ Commit([Database EXCEPT !.outbox[i].status = "dispatched"])
        BY <1>5 DEF MarkDispatched
    <2>2. Rows[i].envelope \in received
        BY <2>1, RowsAre DEF LogInv, PowerInv, SentInv
    <2>. QED
        BY <2>1, <2>2, MarkLogs
<1>6. CASE ArriveLate \/ ProcessDies
    BY <1>6, LogUntouched DEF ArriveLate, ProcessDies
<1>7. CASE Checkpoint
    BY <1>7, CheckpointLogs
<1>. QED
    BY <1>1, <1>2, <1>3, <1>4, <1>5, <1>6, <1>7 DEF PowerNext

LEMMA LogStarts == PowerInit => LogInv /\ Log!Init
<1>. SUFFICES ASSUME PowerInit PROVE LogInv /\ Log!Init
    OBVIOUS
<1>1. PowerInv
    BY PowerStarts
<1>. DEFINE d == [value |-> [r \in Records |-> NoValue], trail |-> <<>>, outbox |-> <<>>]
<1>2. wal = <<d>> /\ d.trail = <<>> /\ d.outbox = <<>> /\ d.value = [r \in Records |-> NoValue]
    BY DEF PowerInit
<1>. HIDE DEF d
<1>3. Len(wal) = 1 /\ wal[1] = d /\ Database = d /\ Rows = <<>>
    BY <1>2 DEF Database, Last, Rows
<1>4. HistoryInv
    <2>1. Continues(d, d)
        BY <1>2 DEF Continues
    <2>2. \A k \in 1..Len(wal) : k = 1
        BY <1>3
    <2>. QED
        BY <1>2, <1>3, <2>1, <2>2 DEF HistoryInv
<1>5. \A r \in Records : NextVersion(r) - 1 = 0
    <2>1. ToSet(Database.trail) = {}
        BY <1>2, <1>3 DEF ToSet
    <2>2. \A r \in Records : VersionsOf(r) \cup {0} = {0}
        BY <2>1 DEF VersionsOf
    <2>3. ASSUME NEW r \in Records PROVE NextVersion(r) - 1 = 0
        <3>. DEFINE S == VersionsOf(r) \cup {0}
        <3>1. S = {0} /\ NextVersion(r) = Max(S) + 1
            BY <2>2 DEF NextVersion
        <3>. HIDE DEF S
        <3>2. Max(S) \in S
            BY <3>1, MaxIsHighest
        <3>3. Max(S) = 0
            BY <3>1, <3>2, Zenon
        <3>4. NextVersion(r) = 0 + 1
            BY <3>1, <3>3, Zenon
        <3>. QED
            BY <3>4
    <2>. QED
        BY <2>3
<1>6. Log!Init
    <2>1. [r \in Records |-> NextVersion(r) - 1] = [r \in Records |-> 0]
        BY <1>5
    <2>2. [i \in DOMAIN Rows |-> Rows[i].envelope] = <<>>
        BY <1>3
    <2>. QED
        BY <1>2, <1>3, <2>1, <2>2 DEF Log!Init
<1>. QED
    BY <1>1, <1>4, <1>6 DEF LogInv

\* The inductive invariant of the log of commits.
THEOREM LogInvariant == PowerSpec => []LogInv
<1>1. LogInv /\ [PowerNext]_powerVars => LogInv'
    BY PowerStep, OtherStepsLog, FailureTakesLatest DEF LogInv
<1>. QED
    BY <1>1, LogStarts, PTL DEF PowerSpec

\* Between power failures the program writes the log of records that the store
\* promises, and does not change its mind about a delivery.
THEOREM PowerLossWritesLog == PowerSpec => WritesLogBetweenLosses
<1>1. PowerInit => Log!Init
    BY LogStarts
<1>2. LogInv /\ [PowerNext]_powerVars =>
        [losses' = losses =>
            /\ [Log!Next]_(Log!vars)
            /\ \A i \in DOMAIN Rows : Rows[i].status # "pending" => Rows'[i] = Rows[i]]_powerVars
    <2>1. LogInv /\ PowerFails => losses' # losses
        BY DEF PowerFails, LogInv, PowerInv, PowerTypes
    <2>. QED
        BY <2>1, OtherStepsLog DEF Settled
<1>. QED
    BY <1>1, <1>2, LogInvariant, PTL DEF PowerSpec, WritesLogBetweenLosses

\* A power failure takes back the latest mutations and marks, and nothing else.
THEOREM OnlyLatestCommitsAreLost == PowerSpec => LossesTakeTheLatest
<1>1. LogInv /\ [PowerNext]_powerVars =>
        [losses' # losses =>
            /\ Database'.trail = SubSeq(Database.trail, 1, Len(Database'.trail))
            /\ \A i \in DOMAIN Rows' : Rows'[i].status # "pending" => Rows'[i] = Rows[i]]_powerVars
    <2>1. [PowerNext]_powerVars /\ ~ PowerFails => losses' = losses
        BY DEF PowerNext, powerVars, Mutate, Publish, PublishFails, MarkDispatched, ArriveLate,
               ProcessDies, Checkpoint
    <2>. QED
        BY <2>1, FailureTakesLatest
<1>. QED
    BY <1>1, LogInvariant, PTL DEF PowerSpec, LossesTakeTheLatest

-----------------------------------------------------------------------------
(***************************************************************************)
(* Lifecycle.                                                              *)
(***************************************************************************)

LifecycleTypes ==
    /\ schema \in Nat
    /\ key \in Tenants \cup {NoTenant}
    /\ tenant \in Tenants \cup {NoTenant}
    /\ phase \in {"down", "serve"} \cup Starting \cup Ending
    /\ cause \in Causes
    /\ pool \in [Pools -> {"none", "open", "closed"}]
    /\ holder \in Requests \cup {Nobody}
    /\ dispatcher \in {"none", "idle", "busy", "stopped"}
    /\ cancelled \in BOOLEAN
    /\ listener \in {"none", "listening", "closed"}
    /\ signal \in BOOLEAN
    /\ pc \in [Requests -> {"new", "no_db", "cut", "crashed"} \cup Active \cup Answers]
    /\ caller \in [Requests -> Tenants \cup {NoTenant}]
    /\ runs \in Nat
    /\ faults \in Nat

\* The file is what this run needs.
FileReady ==
    /\ schema = NumMigrations
    /\ tenant # NoTenant => key = tenant

\* The phases in which the file is ready: those that a request may be in
\* progress in before the database is closed.
Serving == {"serve", "shutdown", "cancel", "wait"}

\* A listener, and a request in progress, belong to a run that serves or has
\* served: its start did not fail.
ServedInv ==
    /\ phase \in {"configure", "bootstrap"} => schema = NumMigrations
    /\ phase \in Serving => FileReady
    /\ listener = "listening" => phase = "serve"
    /\ InProgress # {} =>
          /\ FileReady
          /\ phase \in {"serve"} \cup Ending
          /\ phase \in Ending \ {"shutdown"} => cause \in {"timeout", "listen"}

\* Pools are closed last, the reader first; the dispatcher is started when the
\* file is ready for it and is gone by then, but for the failed bootstrap.
ClosingInv ==
    /\ pool.reader = "closed" => phase \in {"close_writer", "exit"}
    /\ pool.writer = "closed" => phase = "exit"
    /\ phase \in Starting \ {"bootstrap"} => dispatcher = "none"
    /\ phase \in {"close_reader", "close_writer", "exit"} /\ dispatcher \in {"idle", "busy"} =>
          cause = "bootstrap"
    /\ phase = "down" => dispatcher = "none"

LifecycleInv == LifecycleTypes /\ ServedInv /\ ClosingInv

USE DEF Pools, Causes, Serving, Starting, Ending, Active, Answers

LEMMA LifecycleStarts == Init => LifecycleInv
<1>. SUFFICES ASSUME Init PROVE LifecycleInv
    OBVIOUS
<1>1. LifecycleTypes
    BY LifecycleAssumption DEF Init, LifecycleTypes
<1>2. InProgress = {}
    BY DEF Init, InProgress
<1>3. pool.reader = "none" /\ pool.writer = "none"
    BY DEF Init
<1>4. ServedInv
    BY <1>2 DEF Init, ServedInv
<1>5. ClosingInv
    BY <1>3 DEF Init, ClosingInv
<1>. QED
    BY <1>1, <1>4, <1>5 DEF LifecycleInv

LEMMA LifecycleStep == LifecycleInv /\ [Next]_vars => LifecycleInv'
<1>. SUFFICES ASSUME LifecycleInv, [Next]_vars PROVE LifecycleInv'
    OBVIOUS
<1>. USE LifecycleAssumption DEF LifecycleInv, file, server, worker, requests
<1>1. ASSUME NEW t \in Tenants \cup {NoTenant}, Launch(t) PROVE LifecycleInv'
    BY <1>1 DEF Launch, LifecycleTypes, ServedInv, ClosingInv, InProgress, FileReady
<1>2. CASE OpenReader
    BY <1>2 DEF OpenReader, GoOn, FailStart, LifecycleTypes, ServedInv, ClosingInv, InProgress, FileReady
<1>3. CASE OpenWriter
    BY <1>3 DEF OpenWriter, GoOn, FailStart, LifecycleTypes, ServedInv, ClosingInv, InProgress, FileReady
<1>4. CASE Migrate
    BY <1>4 DEF Migrate, GoOn, FailStart, LifecycleTypes, ServedInv, ClosingInv, InProgress, FileReady
<1>5. CASE Configure
    BY <1>5 DEF Configure, GoOn, FailStart, LifecycleTypes, ServedInv, ClosingInv, InProgress, FileReady
<1>6. CASE Bootstrap
    BY <1>6 DEF Bootstrap, GoOn, FailStart, LifecycleTypes, ServedInv, ClosingInv, InProgress, FileReady
<1>7. CASE Listen
    BY <1>7 DEF Listen, LifecycleTypes, ServedInv, ClosingInv, InProgress, FileReady
<1>8. CASE ListenFails
    BY <1>8 DEF ListenFails, LifecycleTypes, ServedInv, ClosingInv, InProgress, FileReady
<1>9. CASE Signal
    BY <1>9 DEF Signal, LifecycleTypes, ServedInv, ClosingInv, InProgress, FileReady
<1>10. CASE Shutdown
    BY <1>10 DEF Shutdown, LifecycleTypes, ServedInv, ClosingInv, InProgress, FileReady
<1>11. CASE ShutdownEnds \/ ShutdownTimesOut
    BY <1>11 DEF ShutdownEnds, ShutdownTimesOut, LifecycleTypes, ServedInv, ClosingInv, InProgress, FileReady
<1>12. CASE Cancel
    BY <1>12 DEF Cancel, LifecycleTypes, ServedInv, ClosingInv, InProgress, FileReady
<1>25. CASE Wait
    BY <1>25 DEF Wait, LifecycleTypes, ServedInv, ClosingInv, InProgress, FileReady
<1>13. CASE CloseReader
    BY <1>13 DEF CloseReader, Closed, LifecycleTypes, ServedInv, ClosingInv, InProgress, FileReady
<1>14. CASE CloseWriter
    BY <1>14 DEF CloseWriter, Closed, LifecycleTypes, ServedInv, ClosingInv, InProgress, FileReady
<1>15. CASE Exit
    <2>1. InProgress' = {}
        BY <1>15 DEF Exit, Gone, InProgress
    <2>2. LifecycleTypes'
        BY <1>15 DEF Exit, Gone, LifecycleTypes, InProgress
    <2>. QED
        BY <1>15, <2>1, <2>2 DEF Exit, Gone, ServedInv, ClosingInv
<1>16. CASE Crash
    <2>1. InProgress' = {}
        BY <1>16 DEF Crash, Gone, InProgress
    <2>3. pc' \in [Requests -> {"new", "no_db", "cut", "crashed"} \cup Active \cup Answers]
        BY <1>16 DEF Crash, Gone, LifecycleTypes
    <2>4. faults' \in Nat
        BY <1>16 DEF Crash, LifecycleTypes
    <2>2. LifecycleTypes'
        BY <1>16, <2>3, <2>4 DEF Crash, Gone, LifecycleTypes
    <2>. QED
        BY <1>16, <2>1, <2>2 DEF Crash, Gone, ServedInv, ClosingInv
<1>17. CASE Fetch \/ Record \/ Drop \/ Stop
    BY <1>17 DEF Fetch, Record, Drop, Stop, Dispatcher, LifecycleTypes, ServedInv, ClosingInv, InProgress, FileReady
<1>18. ASSUME NEW r \in Requests, Arrive(r) PROVE LifecycleInv'
    BY <1>18 DEF Arrive, Request, LifecycleTypes, ServedInv, ClosingInv, InProgress, FileReady
<1>19. ASSUME NEW r \in Requests, Authenticate(r) PROVE LifecycleInv'
    BY <1>19 DEF Authenticate, Request, LifecycleTypes, ServedInv, ClosingInv, InProgress, FileReady
<1>20. ASSUME NEW r \in Requests, ReadBody(r) PROVE LifecycleInv'
    BY <1>20 DEF ReadBody, Request, LifecycleTypes, ServedInv, ClosingInv, InProgress, FileReady
<1>21. ASSUME NEW r \in Requests, Begin(r) PROVE LifecycleInv'
    BY <1>21 DEF Begin, Request, LifecycleTypes, ServedInv, ClosingInv, InProgress, FileReady
<1>22. ASSUME NEW r \in Requests, EndTx(r) PROVE LifecycleInv'
    BY <1>22 DEF EndTx, Request, LifecycleTypes, ServedInv, ClosingInv, InProgress, FileReady
<1>23. ASSUME NEW r \in Requests, Ping(r) PROVE LifecycleInv'
    BY <1>23 DEF Ping, Request, LifecycleTypes, ServedInv, ClosingInv, InProgress, FileReady
<1>24. CASE UNCHANGED vars
    BY <1>24 DEF vars, LifecycleTypes, ServedInv, ClosingInv, InProgress, FileReady
<1>. QED
    BY <1>1, <1>2, <1>3, <1>4, <1>5, <1>6, <1>7, <1>8, <1>9, <1>10, <1>11, <1>12, <1>13,
       <1>14, <1>15, <1>16, <1>17, <1>18, <1>19, <1>20, <1>21, <1>22, <1>23, <1>24, <1>25
       DEF Next, Start, End

\* The inductive invariant of the life of the process.
THEOREM LifecycleInvariant == Spec => []LifecycleInv
<1>. QED
    BY LifecycleStarts, LifecycleStep, PTL DEF Spec

\* In whatever way a run ends, its pools are not closed under the dispatcher,
\* but for a start whose bootstrap key could not be stored.
THEOREM DispatcherKeepsDatabase == Spec => []DispatcherHasDatabase
<1>1. LifecycleInv => DispatcherHasDatabase
    BY DEF LifecycleInv, ClosingInv, LifecycleTypes, DispatcherHasDatabase, Closing
<1>. QED
    BY <1>1, LifecycleInvariant, PTL

-----------------------------------------------------------------------------
(***************************************************************************)
(* What a step may do to a request.                                        *)
(***************************************************************************)

\* A request that is in progress and is lost in this step was given up by
\* Shutdown, or the listener had failed.
LostLate(r) ==
    pc[r] \in Active /\ pc'[r] \in {"no_db", "cut"} => cause \in {"timeout", "listen"}

\* A request that is let in, or told that the program is ready, meets a file
\* that is ready for this run.
LetInReady(r) ==
    /\ pc[r] = "ping" /\ pc'[r] = "ready" => pool.writer = "open"
    /\ pc'[r] # pc[r] /\ pc'[r] \in {"ready", "body"} => FileReady
    /\ pc'[r] # pc[r] /\ pc'[r] = "body" =>
          /\ caller'[r] # NoTenant
          /\ tenant # NoTenant => caller'[r] = tenant

\* The actions of main and of the dispatcher that leave the requests alone.
LEMMA RequestsUntouched ==
    ASSUME \/ \E t \in Tenants \cup {NoTenant} : Launch(t)
           \/ Start \/ Listen \/ ListenFails \/ Signal
           \/ Shutdown \/ ShutdownEnds \/ ShutdownTimesOut \/ Cancel \/ Wait
           \/ CloseReader \/ CloseWriter
           \/ Fetch \/ Record \/ Drop \/ Stop
           \/ UNCHANGED vars
    PROVE  pc' = pc
<1>1. Start => pc' = pc
    BY DEF Start, OpenReader, OpenWriter, Migrate, Configure, Bootstrap, requests
<1>2. (\E t \in Tenants \cup {NoTenant} : Launch(t)) => pc' = pc
    BY DEF Launch, requests
<1>3. Fetch \/ Record \/ Drop \/ Stop => pc' = pc
    BY DEF Fetch, Record, Drop, Stop, Dispatcher, requests
<1>4. UNCHANGED vars => pc' = pc
    BY DEF vars, requests
<1>. QED
    BY <1>1, <1>2, <1>3, <1>4
       DEF Listen, ListenFails, Signal, Shutdown, ShutdownEnds, ShutdownTimesOut,
           Cancel, Wait, CloseReader, CloseWriter, requests

\* A handler finds a pool closed only after main has begun to close the database;
\* the requests that are left then were given up.
LEMMA RequestStep ==
    ASSUME LifecycleInv, NEW r \in Requests, NEW q \in Requests,
           Arrive(q) \/ Authenticate(q) \/ ReadBody(q) \/ Begin(q) \/ EndTx(q) \/ Ping(q)
    PROVE  LostLate(r) /\ LetInReady(r)
<1>. USE DEF LifecycleInv
<1>1. /\ pc' = [pc EXCEPT ![q] = pc'[q]]
      /\ pc \in [Requests -> {"new", "no_db", "cut", "crashed"} \cup Active \cup Answers]
    BY DEF Arrive, Authenticate, ReadBody, Begin, EndTx, Ping, Request, LifecycleTypes
<1>2. CASE r # q
    BY <1>1, <1>2 DEF LostLate, LetInReady
<1>3. CASE r = q
    <2>1. pc[r] \in Active => InProgress # {}
        BY DEF InProgress
    <2>2. CASE Arrive(r)
        BY <2>2, <1>1 DEF Arrive, Request, LostLate, LetInReady
    <2>3. CASE Authenticate(r)
        <3>1. pc[r] = "auth" /\ caller'[r] = key
            BY <2>3 DEF Authenticate, Request, LifecycleTypes
        <3>2. \/ pool.reader = "open" /\ key # NoTenant /\ pc'[r] = "body"
              \/ pc'[r] = "refused"
              \/ pool.reader = "closed" /\ pc'[r] = "no_db"
            BY <2>3, <1>1 DEF Authenticate, Request
        <3>3. FileReady /\ (pool.reader = "closed" => cause \in {"timeout", "listen"})
            BY <3>1, <2>1 DEF ServedInv, ClosingInv
        <3>. QED
            BY <3>1, <3>2, <3>3 DEF LostLate, LetInReady, FileReady
    <2>4. CASE ReadBody(r)
        BY <2>4, <1>1 DEF ReadBody, Request, LostLate, LetInReady
    <2>5. CASE Begin(r)
        <3>1. /\ pc[r] = "begin"
              /\ pc'[r] = "tx" \/ (pool.writer = "closed" /\ pc'[r] = "no_db")
            BY <2>5, <1>1 DEF Begin, Request
        <3>2. pool.writer = "closed" => cause \in {"timeout", "listen"}
            BY <3>1, <2>1 DEF ServedInv, ClosingInv
        <3>. QED
            BY <3>1, <3>2 DEF LostLate, LetInReady
    <2>6. CASE EndTx(r)
        BY <2>6, <1>1 DEF EndTx, Request, LostLate, LetInReady
    <2>7. CASE Ping(r)
        <3>1. /\ pc[r] = "ping"
              /\ (pool.writer = "open" /\ pc'[r] = "ready") \/ pc'[r] = "unready"
            BY <2>7, <1>1 DEF Ping, Request
        <3>2. FileReady
            BY <3>1, <2>1 DEF ServedInv
        <3>. QED
            BY <3>1, <3>2 DEF LostLate, LetInReady
    <2>. QED
        BY <1>3, <2>2, <2>3, <2>4, <2>5, <2>6, <2>7
<1>. QED
    BY <1>2, <1>3

\* The end of the process cuts off only what Shutdown gave up, or what a failed
\* listener left behind; a crash is no end of this kind.
LEMMA EndOfProcess ==
    ASSUME LifecycleInv, NEW r \in Requests, Exit \/ Crash
    PROVE  LostLate(r) /\ LetInReady(r)
<1>. USE DEF LifecycleInv
<1>1. pc'[r] = pc[r] \/ (pc[r] \in Active /\ pc'[r] \in {"cut", "crashed"})
    BY DEF Exit, Crash, Gone, InProgress
<1>2. pc[r] \in Active /\ pc'[r] \in {"no_db", "cut"} => phase = "exit"
    BY DEF Exit, Crash, Gone, InProgress
<1>3. pc[r] \in Active /\ phase = "exit" => cause \in {"timeout", "listen"}
    BY DEF ServedInv, InProgress
<1>. QED
    BY <1>1, <1>2, <1>3 DEF LostLate, LetInReady

LEMMA EveryStep ==
    ASSUME LifecycleInv, [Next]_vars, NEW r \in Requests
    PROVE  LostLate(r) /\ LetInReady(r)
<1>1. CASE Exit \/ Crash
    BY <1>1, EndOfProcess
<1>2. CASE \E q \in Requests :
             Arrive(q) \/ Authenticate(q) \/ ReadBody(q) \/ Begin(q) \/ EndTx(q) \/ Ping(q)
    BY <1>2, RequestStep
<1>3. CASE pc' = pc
    BY <1>3 DEF LostLate, LetInReady
<1>. QED
    BY <1>1, <1>2, <1>3, RequestsUntouched DEF Next, End

\* An orderly end answers every request: one is lost only if Shutdown gave up on
\* it or the listener failed.
THEOREM OrderlyEndsAnswer == Spec => OnlyLateRequestsLost
<1>1. LifecycleInv /\ [Next]_vars =>
        [\A r \in Requests :
            pc[r] \in Active /\ pc'[r] \in {"no_db", "cut"} => cause \in {"timeout", "listen"}]_vars
    BY EveryStep DEF LostLate
<1>. QED
    BY <1>1, LifecycleInvariant, PTL DEF Spec, OnlyLateRequestsLost

\* Nothing is served, and readyz does not answer ready, before every migration is
\* applied and the key stands for the tenant of this run, over any number of
\* starts, failing ones included.
THEOREM NothingServedTooEarly == Spec => ServedAsConfigured
<1>1. LifecycleInv /\ [Next]_vars =>
        [\A r \in Requests :
            /\ pc[r] = "ping" /\ pc'[r] = "ready" => pool.writer = "open"
            /\ pc'[r] # pc[r] /\ pc'[r] \in {"ready", "body"} =>
                /\ schema = NumMigrations
                /\ tenant # NoTenant => key = tenant
            /\ pc'[r] # pc[r] /\ pc'[r] = "body" =>
                /\ caller'[r] # NoTenant
                /\ tenant # NoTenant => caller'[r] = tenant]_vars
    BY EveryStep DEF LetInReady, FileReady
<1>. QED
    BY <1>1, LifecycleInvariant, PTL DEF Spec, ServedAsConfigured

-----------------------------------------------------------------------------
(***************************************************************************)
(* Why a start and a stop end: nobody waits for somebody who waits, and    *)
(* what main has left to do only gets less. What StartsAndStops needs      *)
(* besides is that main and the dispatcher run on.                         *)
(***************************************************************************)

\* The migrations are never past the last one, which migrations.Up would not
\* leave; what a phase uses was opened or started before it; and a transaction
\* has the writer connection.
StandingInv ==
    /\ schema <= NumMigrations
    /\ phase \in {"open_writer", "migrate", "configure", "bootstrap"} \cup Serving =>
          pool.reader # "none"
    /\ phase \in {"migrate", "configure", "bootstrap"} \cup Serving => pool.writer # "none"
    /\ InProgress # {} => pool.reader # "none" /\ pool.writer # "none"
    /\ phase \in {"bootstrap"} \cup Serving => dispatcher # "none"
    /\ phase = "wait" => cancelled
    /\ \A r \in Requests : pc[r] = "tx" <=> holder = r

\* Whoever waits, waits for somebody who can go on: main, in Close, for a
\* dispatcher whose context is cancelled; a write for a transaction that is in
\* progress; and the handlers meet pools that were opened.
NobodyWaitsForever ==
    /\ phase = "migrate" => schema < NumMigrations \/ schema = NumMigrations
    /\ phase = "wait" => dispatcher = "stopped" \/ (cancelled /\ dispatcher \in {"idle", "busy"})
    /\ holder # Nobody => holder \in Requests /\ pc[holder] = "tx"
    /\ \A r \in InProgress : \A p \in Pools : pool[p] \in {"open", "closed"}

\* What the dispatcher has to do once its context is cancelled.
DispatcherLeft ==
    CASE dispatcher = "busy" -> 2
      [] dispatcher = "idle" -> 1
      [] OTHER -> 0

\* The steps that main has left in this run, at most.
StepsLeft ==
    CASE phase = "down" -> 0
      [] phase = "exit" -> 1
      [] phase = "close_writer" -> 2
      [] phase = "close_reader" -> 3
      [] phase = "wait" -> 4 + DispatcherLeft
      [] phase = "cancel" -> 7
      [] phase = "shutdown" -> 8
      [] phase = "serve" -> 9
      [] phase = "bootstrap" -> 10
      [] phase = "configure" -> 11
      [] phase = "migrate" -> 12 + (NumMigrations - schema)
      [] phase = "open_writer" -> 13 + NumMigrations
      [] phase = "open_reader" -> 14 + NumMigrations

\* Every step of main's start and end, and every step of the dispatcher that Close
\* waits for, leaves less to do, and no other step of the run leaves more.
RunsOnlyWindDown ==
    [][/\ phase # "down" => StepsLeft' <= StepsLeft
       /\ Start \/ ListenFails \/ End \/ Crash => StepsLeft' < StepsLeft
       /\ phase = "wait" /\ (Drop \/ Stop) => StepsLeft' < StepsLeft]_vars

LEMMA StandingStarts == Init => StandingInv
<1>1. Init => InProgress = {}
    BY DEF Init, InProgress
<1>. QED
    BY <1>1, LifecycleAssumption DEF Init, StandingInv

LEMMA StandingStep == LifecycleInv /\ StandingInv /\ [Next]_vars => StandingInv'
<1>. SUFFICES ASSUME LifecycleInv, StandingInv, [Next]_vars PROVE StandingInv'
    OBVIOUS
<1>. USE LifecycleAssumption DEF LifecycleInv, LifecycleTypes, StandingInv, InProgress,
         file, server, worker, requests
<1>1. ASSUME NEW t \in Tenants \cup {NoTenant}, Launch(t) PROVE StandingInv'
    BY <1>1 DEF Launch, ServedInv
<1>2. CASE OpenReader \/ OpenWriter
    BY <1>2 DEF OpenReader, OpenWriter, GoOn, FailStart
<1>3. CASE Migrate
    BY <1>3 DEF Migrate, GoOn, FailStart
<1>4. CASE Configure \/ Bootstrap
    BY <1>4 DEF Configure, Bootstrap, GoOn, FailStart
<1>5. CASE Listen \/ ListenFails \/ Signal
    BY <1>5 DEF Listen, ListenFails, Signal
<1>6. CASE Shutdown \/ ShutdownEnds \/ ShutdownTimesOut \/ Cancel \/ Wait
    BY <1>6 DEF Shutdown, ShutdownEnds, ShutdownTimesOut, Cancel, Wait
<1>7. CASE CloseReader \/ CloseWriter
    BY <1>7 DEF CloseReader, CloseWriter, Closed
<1>8. CASE Exit \/ Crash
    <2>1. /\ phase' = "down" /\ holder' = Nobody /\ schema' = schema
          /\ pc' = [r \in Requests |-> IF r \in InProgress THEN pc'[r] ELSE pc[r]]
          /\ \A r \in InProgress : pc'[r] \in {"cut", "crashed"}
        BY <1>8 DEF Exit, Crash, Gone
    <2>2. \A r \in Requests : pc'[r] \notin Active
        BY <2>1
    <2>. QED
        BY <2>1, <2>2
<1>9. CASE Fetch \/ Record \/ Drop \/ Stop
    BY <1>9 DEF Fetch, Record, Drop, Stop, Dispatcher
<1>10. ASSUME NEW q \in Requests, Arrive(q) PROVE StandingInv'
    BY <1>10 DEF Arrive, Request, ServedInv
<1>11. ASSUME NEW q \in Requests, Authenticate(q) PROVE StandingInv'
    BY <1>11 DEF Authenticate, Request
<1>12. ASSUME NEW q \in Requests, ReadBody(q) PROVE StandingInv'
    BY <1>12 DEF ReadBody, Request
<1>13. ASSUME NEW q \in Requests, Begin(q) PROVE StandingInv'
    BY <1>13 DEF Begin, Request
<1>14. ASSUME NEW q \in Requests, EndTx(q) PROVE StandingInv'
    BY <1>14 DEF EndTx, Request
<1>15. ASSUME NEW q \in Requests, Ping(q) PROVE StandingInv'
    BY <1>15 DEF Ping, Request
<1>16. CASE UNCHANGED vars
    BY <1>16 DEF vars
<1>. QED
    BY <1>1, <1>2, <1>3, <1>4, <1>5, <1>6, <1>7, <1>8, <1>9, <1>10, <1>11, <1>12, <1>13,
       <1>14, <1>15, <1>16 DEF Next, Start, End

THEOREM StandingInvariant == Spec => []StandingInv
<1>. QED
    BY StandingStarts, StandingStep, LifecycleInvariant, PTL DEF Spec

\* Nobody waits for somebody who cannot go on: not main for the dispatcher, nor a
\* write for the one writer connection, for any number of runs and requests.
THEOREM WaitsAreForTheLiving == Spec => []NobodyWaitsForever
<1>1. LifecycleInv /\ StandingInv => NobodyWaitsForever
    <2>. SUFFICES ASSUME LifecycleInv, StandingInv PROVE NobodyWaitsForever
        OBVIOUS
    <2>. USE LifecycleAssumption DEF LifecycleInv, LifecycleTypes, StandingInv
    <2>1. phase = "migrate" => schema < NumMigrations \/ schema = NumMigrations
        OBVIOUS
    <2>2. phase = "wait" =>
             dispatcher = "stopped" \/ (cancelled /\ dispatcher \in {"idle", "busy"})
        OBVIOUS
    <2>3. holder # Nobody => holder \in Requests /\ pc[holder] = "tx"
        OBVIOUS
    <2>4. \A r \in InProgress : \A p \in Pools : pool[p] \in {"open", "closed"}
        OBVIOUS
    <2>. QED
        BY <2>1, <2>2, <2>3, <2>4 DEF NobodyWaitsForever
<1>. QED
    BY <1>1, LifecycleInvariant, StandingInvariant, PTL

\* What is left in every phase, as the inequalities below need it.
StepsLeftTable ==
    /\ schema \in 0..NumMigrations
    /\ phase \in {"down", "serve"} \cup Starting \cup Ending
    /\ DispatcherLeft \in 0..2
    /\ StepsLeft \in Nat
    /\ phase = "down" <=> StepsLeft = 0
    /\ phase = "exit" => StepsLeft = 1
    /\ phase = "close_writer" => StepsLeft = 2
    /\ phase = "close_reader" => StepsLeft = 3
    /\ phase = "wait" => StepsLeft = 4 + DispatcherLeft
    /\ phase = "cancel" => StepsLeft = 7
    /\ phase = "shutdown" => StepsLeft = 8
    /\ phase = "serve" => StepsLeft = 9
    /\ phase = "bootstrap" => StepsLeft = 10
    /\ phase = "configure" => StepsLeft = 11
    /\ phase = "migrate" => StepsLeft = 12 + (NumMigrations - schema)
    /\ phase = "open_writer" => StepsLeft = 13 + NumMigrations
    /\ phase = "open_reader" => StepsLeft = 14 + NumMigrations

LEMMA StepsLeftIs == LifecycleInv /\ StandingInv => StepsLeftTable
<1>. SUFFICES ASSUME LifecycleInv, StandingInv PROVE StepsLeftTable
    OBVIOUS
<1>1. LifecycleTypes /\ schema \in Nat /\ schema \in 0..NumMigrations
    BY LifecycleAssumption DEF LifecycleInv, LifecycleTypes, StandingInv
<1>2. phase \in {"down", "serve"} \cup Starting \cup Ending
    BY <1>1 DEF LifecycleTypes
<1>3. DispatcherLeft \in 0..2
    BY <1>1 DEF LifecycleTypes, DispatcherLeft
<1>4. NumMigrations \in Nat /\ NumMigrations - schema \in Nat
    BY <1>1, LifecycleAssumption
<1>. QED
    BY <1>1, <1>2, <1>3, <1>4 DEF StepsLeft, StepsLeftTable

\* The steps of main.
LEMMA MainGoesOn ==
    ASSUME StepsLeftTable, StepsLeftTable', Start \/ ListenFails \/ End \/ Crash
    PROVE  StepsLeft' < StepsLeft
<1>. DEFINE now == StepsLeft
            then == StepsLeft'
<1>. SUFFICES then < now
    OBVIOUS
<1>1. /\ schema \in 0..NumMigrations /\ NumMigrations \in Nat
      /\ DispatcherLeft \in 0..2 /\ now \in Nat
      /\ phase = "down" <=> now = 0
      /\ phase = "exit" => now = 1
      /\ phase = "close_writer" => now = 2
      /\ phase = "close_reader" => now = 3
      /\ phase = "wait" => now = 4 + DispatcherLeft
      /\ phase = "cancel" => now = 7
      /\ phase = "shutdown" => now = 8
      /\ phase = "serve" => now = 9
      /\ phase = "bootstrap" => now = 10
      /\ phase = "configure" => now = 11
      /\ phase = "migrate" => now = 12 + (NumMigrations - schema)
      /\ phase = "open_writer" => now = 13 + NumMigrations
      /\ phase = "open_reader" => now = 14 + NumMigrations
    BY LifecycleAssumption DEF StepsLeftTable
<1>2. /\ schema' \in 0..NumMigrations
      /\ DispatcherLeft' \in 0..2 /\ then \in Nat
      /\ phase' = "down" => then = 0
      /\ phase' = "exit" => then = 1
      /\ phase' = "close_writer" => then = 2
      /\ phase' = "close_reader" => then = 3
      /\ phase' = "wait" => then = 4 + DispatcherLeft'
      /\ phase' = "cancel" => then = 7
      /\ phase' = "shutdown" => then = 8
      /\ phase' = "serve" => then = 9
      /\ phase' = "bootstrap" => then = 10
      /\ phase' = "configure" => then = 11
      /\ phase' = "migrate" => then = 12 + (NumMigrations - schema')
      /\ phase' = "open_writer" => then = 13 + NumMigrations
    BY DEF StepsLeftTable
<1>. HIDE DEF now, then
<1>3. OpenReader => then < now
    BY <1>1, <1>2 DEF OpenReader, GoOn, FailStart
<1>4. CASE OpenWriter
    <2>1. phase = "open_writer" /\ phase' \in {"migrate", "close_reader"}
        BY <1>4 DEF OpenWriter, GoOn, FailStart
    <2>2. now = 13 + NumMigrations
        BY <2>1, <1>1
    <2>3. then = 3 \/ then = 12 + (NumMigrations - schema')
        BY <2>1, <1>2
    <2>4. schema \in 0..NumMigrations /\ schema' \in 0..NumMigrations /\ NumMigrations \in Nat
        BY <1>1, <1>2
    <2>. QED
        BY <2>2, <2>3, <2>4
<1>5. CASE Migrate
    <2>1. /\ phase = "migrate"
          /\ \/ phase' = "migrate" /\ schema' = schema + 1
             \/ phase' \in {"configure", "close_reader"}
        BY <1>5 DEF Migrate, GoOn, FailStart
    <2>2. now = 12 + (NumMigrations - schema)
        BY <2>1, <1>1
    <2>3. \/ schema' = schema + 1 /\ then = 12 + (NumMigrations - schema')
          \/ then \in {3, 11}
        BY <2>1, <1>2
    <2>4. schema \in 0..NumMigrations /\ schema' \in 0..NumMigrations /\ NumMigrations \in Nat
        BY <1>1, <1>2
    <2>. QED
        BY <2>2, <2>3, <2>4
<1>6. CASE Configure \/ Bootstrap
    <2>1. \/ phase = "configure" /\ phase' \in {"bootstrap", "close_reader"}
          \/ phase = "bootstrap" /\ phase' \in {"serve", "close_reader"}
        BY <1>6 DEF Configure, Bootstrap, GoOn, FailStart
    <2>2. \/ now = 11 /\ then \in {3, 10}
          \/ now = 10 /\ then \in {3, 9}
        BY <2>1, <1>1, <1>2
    <2>. QED
        BY <2>2
<1>7. CASE ListenFails
    BY <1>7, <1>1, <1>2 DEF ListenFails
<1>8. CASE End
    <2>1. \/ phase = "serve" /\ phase' = "shutdown"
          \/ phase = "shutdown" /\ phase' = "cancel"
          \/ phase = "cancel" /\ phase' = "wait"
          \/ phase = "wait" /\ phase' = "close_reader"
          \/ phase = "close_reader" /\ phase' = "close_writer"
          \/ phase = "close_writer" /\ phase' = "exit"
          \/ phase = "exit" /\ phase' = "down"
        BY <1>8 DEF End, Shutdown, ShutdownEnds, ShutdownTimesOut, Cancel, Wait,
                    CloseReader, CloseWriter, Exit, Gone
    <2>2. \/ now = 9 /\ then = 8
          \/ now = 8 /\ then = 7
          \/ now = 7 /\ then = 4 + DispatcherLeft'
          \/ now = 4 + DispatcherLeft /\ then = 3
          \/ now = 3 /\ then = 2
          \/ now = 2 /\ then = 1
          \/ now = 1 /\ then = 0
        BY <2>1, <1>1, <1>2
    <2>3. DispatcherLeft \in 0..2 /\ DispatcherLeft' \in 0..2
        BY <1>1, <1>2
    <2>. QED
        BY <2>2, <2>3
<1>9. CASE Crash
    <2>1. phase # "down" /\ phase' = "down"
        BY <1>9 DEF Crash, Gone
    <2>2. now # 0 /\ then = 0 /\ now \in Nat
        BY <2>1, <1>1, <1>2
    <2>. QED
        BY <2>2
<1>. QED
    BY <1>3, <1>4, <1>5, <1>6, <1>7, <1>8, <1>9 DEF Start

\* The steps of the dispatcher, which only goes towards its end when main waits.
LEMMA DispatcherGoesOn ==
    ASSUME LifecycleInv, StandingInv, StepsLeftTable, StepsLeftTable',
           Fetch \/ Record \/ Drop \/ Stop
    PROVE  /\ phase = "wait" => StepsLeft' < StepsLeft
           /\ phase # "wait" => StepsLeft' = StepsLeft
<1>1. phase' = phase /\ schema' = schema
    BY DEF Fetch, Record, Drop, Stop, Dispatcher, file
<1>2. CASE phase = "wait"
    <2>1. cancelled
        BY <1>2 DEF StandingInv
    <2>2. \/ dispatcher = "busy" /\ dispatcher' = "idle"
          \/ dispatcher = "idle" /\ dispatcher' = "stopped"
        BY <2>1 DEF Fetch, Record, Drop, Stop, Dispatcher
    <2>3. DispatcherLeft' < DispatcherLeft
        BY <2>2 DEF DispatcherLeft
    <2>4. /\ StepsLeft = 4 + DispatcherLeft /\ DispatcherLeft \in 0..2
          /\ StepsLeft' = 4 + DispatcherLeft' /\ DispatcherLeft' \in 0..2
        BY <1>1, <1>2 DEF StepsLeftTable
    <2>. DEFINE a == DispatcherLeft
                b == DispatcherLeft'
    <2>5. a \in 0..2 /\ b \in 0..2 /\ b < a => 4 + b < 4 + a
        <3>. HIDE DEF a, b
        <3>. QED
            OBVIOUS
    <2>. QED
        BY <1>2, <2>3, <2>4, <2>5
<1>3. CASE phase # "wait"
    BY <1>1, <1>3 DEF StepsLeft
<1>. QED
    BY <1>2, <1>3

\* What main has left to do gets less with every step of a start or a stop, and with
\* every step of the dispatcher that Close waits for; the clients cannot put it off.
THEOREM RunsWindDown == Spec => RunsOnlyWindDown
<1>1. ASSUME LifecycleInv, StandingInv, StepsLeftTable, StepsLeftTable', [Next]_vars
      PROVE  /\ phase # "down" => StepsLeft' <= StepsLeft
             /\ Start \/ ListenFails \/ End \/ Crash => StepsLeft' < StepsLeft
             /\ phase = "wait" /\ (Drop \/ Stop) => StepsLeft' < StepsLeft
    <2>. USE <1>1 DEF file, server, worker, requests
    <2>. DEFINE now == StepsLeft
                then == StepsLeft'
    <2>. SUFFICES /\ phase # "down" => then <= now
                  /\ Start \/ ListenFails \/ End \/ Crash => then < now
                  /\ phase = "wait" /\ (Drop \/ Stop) => then < now
        OBVIOUS
    <2>1. (phase' = phase /\ schema' = schema /\ dispatcher' = dispatcher) => then = now
        BY DEF StepsLeft, DispatcherLeft
    <2>2. now \in Nat /\ then \in Nat
        BY DEF StepsLeftTable
    <2>3. Start \/ ListenFails \/ End \/ Crash => then < now
        BY MainGoesOn
    <2>4. Fetch \/ Record \/ Drop \/ Stop =>
             (phase = "wait" => then < now) /\ (phase # "wait" => then = now)
        BY DispatcherGoesOn
    <2>. HIDE DEF now, then
    <2>5. ASSUME NEW t \in Tenants \cup {NoTenant}, Launch(t) PROVE phase = "down"
        BY <2>5 DEF Launch
    <2>6. Listen \/ Signal \/ UNCHANGED vars => then = now
        BY <2>1 DEF Listen, Signal, vars
    <2>7. ASSUME NEW r \in Requests,
                 Arrive(r) \/ Authenticate(r) \/ ReadBody(r) \/ Begin(r) \/ EndTx(r) \/ Ping(r)
          PROVE  then = now
        BY <2>7, <2>1 DEF Arrive, Authenticate, ReadBody, Begin, EndTx, Ping, Request
    <2>8. phase # "down" => then < now \/ then = now
        BY <2>3, <2>4, <2>5, <2>6, <2>7 DEF Next
    <2>. QED
        BY <2>2, <2>3, <2>4, <2>8
<1>2. LifecycleInv /\ StandingInv => StepsLeftTable
    BY StepsLeftIs
<1>3. LifecycleInv /\ StandingInv /\ StepsLeftTable /\ StepsLeftTable' /\ [Next]_vars =>
        [/\ phase # "down" => StepsLeft' <= StepsLeft
         /\ Start \/ ListenFails \/ End \/ Crash => StepsLeft' < StepsLeft
         /\ phase = "wait" /\ (Drop \/ Stop) => StepsLeft' < StepsLeft]_vars
    BY <1>1
<1>. QED
    BY <1>2, <1>3, LifecycleInvariant, StandingInvariant, PTL DEF Spec, RunsOnlyWindDown

-----------------------------------------------------------------------------
(***************************************************************************)
(* KeySpace: the keys of kv_entries, whatever the tenants are called.      *)
(***************************************************************************)

LEMMA WordsAreStrings == Words \subseteq Strings
BY DEF Words, Strings

LEMMA JoinIsString ==
    ASSUME NEW u \in Strings, NEW w \in Strings
    PROVE  Join(u, w) \in Strings
BY DEF Strings, Join

LEMMA JoinParts ==
    ASSUME NEW u \in Strings, NEW x \in Strings
    PROVE  /\ Len(u) \in Nat /\ Len(x) \in Nat
           /\ Len(Join(u, x)) = Len(u) + 1 + Len(x)
           /\ \A n \in 1..Len(u) : Join(u, x)[n] = u[n]
           /\ Join(u, x)[Len(u) + 1] = Slash
           /\ \A n \in 1..Len(x) : Join(u, x)[Len(u) + 1 + n] = x[n]
BY DEF Strings, Join

LEMMA SameElements ==
    ASSUME NEW u \in Strings, NEW w \in Strings, Len(u) = Len(w),
           \A n \in 1..Len(w) : w[n] = u[n]
    PROVE  w = u
BY DEF Strings

LEMMA JoinNothing ==
    ASSUME NEW u \in Strings
    PROVE  /\ Join(u, <<>>) \in Strings /\ Len(Join(u, <<>>)) = Len(u) + 1 /\ Len(u) \in Nat
           /\ \A n \in 1..Len(u) : Join(u, <<>>)[n] = u[n]
           /\ Join(u, <<>>)[Len(u) + 1] = Slash
BY DEF Strings, Join

LEMMA EqualParts ==
    ASSUME NEW t \in Strings, NEW u \in Strings, NEW x \in Strings, NEW y \in Strings,
           Join(t, x) = Join(u, y), Len(t) = Len(u)
    PROVE  t = u /\ x = y
<1>. DEFINE j == Join(t, x)
<1>1. /\ Len(t) \in Nat /\ Len(x) \in Nat /\ Len(j) = Len(t) + 1 + Len(x)
      /\ \A n \in 1..Len(t) : j[n] = t[n]
      /\ \A n \in 1..Len(x) : j[Len(t) + 1 + n] = x[n]
    BY JoinParts
<1>2. j = Join(u, y)
    OBVIOUS
<1>. HIDE DEF j
<1>3. /\ Len(y) \in Nat /\ Len(j) = Len(t) + 1 + Len(y)
      /\ \A n \in 1..Len(t) : j[n] = u[n]
      /\ \A n \in 1..Len(y) : j[Len(t) + 1 + n] = y[n]
    <2>1. /\ Len(y) \in Nat /\ Len(Join(u, y)) = Len(u) + 1 + Len(y)
          /\ \A n \in 1..Len(u) : Join(u, y)[n] = u[n]
          /\ \A n \in 1..Len(y) : Join(u, y)[Len(u) + 1 + n] = y[n]
        BY JoinParts
    <2>. QED
        BY <2>1, <1>2
<1>4. Len(x) = Len(y)
    BY <1>1, <1>3
<1>5. t = u
    BY <1>1, <1>3, SameElements
<1>6. x = y
    BY <1>1, <1>3, <1>4, SameElements
<1>. QED
    BY <1>5, <1>6

\* A word has no slash, so that it is not a joined string.
LEMMA JoinIsNoWord ==
    ASSUME NEW u \in Strings, NEW x \in Strings
    PROVE  Join(u, x) \notin Words
<1>. SUFFICES ASSUME Join(u, x) \in Words PROVE FALSE
    OBVIOUS
<1>1. Len(u) + 1 \in 1..Len(Join(u, x))
    BY JoinParts
<1>2. Join(u, x)[Len(u) + 1] \in Letters
    BY <1>1 DEF Words
<1>. QED
    BY <1>2, JoinParts, CharactersAssumption

\* A longer first part of a joined string is a path below the shorter one.
LEMMA LongerIsBelow ==
    ASSUME NEW t \in Strings, NEW u \in Strings, NEW x \in Strings, NEW y \in Strings,
           Join(t, x) = Join(u, y), Len(t) < Len(u)
    PROVE  Below(u, t)
<1>. DEFINE j == Join(u, y)
            head == SubSeq(u, 1, Len(t) + 1)
<1>1. /\ Len(t) \in Nat
      /\ \A n \in 1..Len(t) : j[n] = t[n]
      /\ j[Len(t) + 1] = Slash
    BY JoinParts
<1>2. Len(u) \in Nat /\ \A n \in 1..Len(u) : j[n] = u[n]
    BY JoinParts
<1>. HIDE DEF j
<1>3. /\ head \in Strings /\ Len(head) = Len(t) + 1
      /\ \A n \in 1..(Len(t) + 1) : head[n] = u[n]
    BY <1>1, <1>2 DEF Strings
<1>. HIDE DEF head
<1>4. ASSUME NEW n \in 1..(Len(t) + 1) PROVE Join(t, <<>>)[n] = u[n]
    <2>1. n \in 1..Len(u)
        BY <1>1, <1>2
    <2>2. CASE n \in 1..Len(t)
        BY <2>1, <2>2, <1>1, <1>2, JoinNothing
    <2>3. CASE n = Len(t) + 1
        BY <2>1, <2>3, <1>1, <1>2, JoinNothing
    <2>. QED
        BY <2>2, <2>3, <1>1
<1>5. head = Join(t, <<>>)
    BY <1>3, <1>4, JoinNothing, SameElements
<1>. QED
    BY <1>1, <1>2, <1>5, JoinNothing DEF Below, StartsWith, head

\* A joined string can be taken apart in one way only, unless one first part is a
\* path below the other.
LEMMA SameOrNested ==
    ASSUME NEW t \in Strings, NEW u \in Strings, NEW x \in Strings, NEW y \in Strings,
           Join(t, x) = Join(u, y)
    PROVE  (t = u /\ x = y) \/ Nested(t, u)
<1>1. Len(t) \in Nat /\ Len(u) \in Nat
    BY JoinParts
<1>2. CASE Len(t) = Len(u)
    BY <1>2, EqualParts
<1>3. CASE Len(t) < Len(u)
    BY <1>3, LongerIsBelow DEF Nested
<1>4. CASE Len(u) < Len(t)
    BY <1>4, LongerIsBelow DEF Nested
<1>. QED
    BY <1>1, <1>2, <1>3, <1>4

\* Nothing is above a word.
LEMMA WordIsNotBelow ==
    ASSUME NEW w \in Words, NEW t \in Strings
    PROVE  ~ Below(w, t)
<1>. SUFFICES ASSUME Below(w, t) PROVE FALSE
    OBVIOUS
<1>1. /\ Len(t) \in Nat /\ Len(Join(t, <<>>)) = Len(t) + 1
      /\ Join(t, <<>>)[Len(t) + 1] = Slash
    BY JoinNothing
<1>2. Len(w) \in Nat /\ Len(t) + 1 <= Len(w) /\ SubSeq(w, 1, Len(t) + 1) = Join(t, <<>>)
    BY <1>1 DEF Below, StartsWith, Words
<1>3. SubSeq(w, 1, Len(t) + 1)[Len(t) + 1] = w[Len(t) + 1] /\ w[Len(t) + 1] \in Letters
    BY <1>1, <1>2 DEF Words
<1>. QED
    BY <1>1, <1>2, <1>3, CharactersAssumption

LEMMA FirstWord ==
    ASSUME NEW u \in Words, NEW w \in Words, NEW x \in Strings, NEW y \in Strings,
           Join(u, x) = Join(w, y)
    PROVE  u = w /\ x = y
BY SameOrNested, WordIsNotBelow, WordsAreStrings DEF Nested

\* The last slash of a joined string begins its last word.
LEMMA LastWord ==
    ASSUME NEW t \in Strings, NEW u \in Strings, NEW c \in Words, NEW d \in Words,
           Join(t, c) = Join(u, d)
    PROVE  t = u /\ c = d
<1>1. c \in Strings /\ d \in Strings /\ Len(t) \in Nat /\ Len(u) \in Nat
    BY WordsAreStrings, JoinParts
<1>2. ASSUME NEW v \in Strings, NEW w \in Strings, NEW x \in Words, NEW y \in Words,
             Join(v, x) = Join(w, y), Len(v) < Len(w)
      PROVE  FALSE
    <2>1. x \in Strings /\ y \in Strings
        BY WordsAreStrings
    <2>2. /\ Len(v) \in Nat /\ Len(w) \in Nat /\ Len(x) \in Nat /\ Len(y) \in Nat
          /\ Len(v) + 1 + Len(x) = Len(w) + 1 + Len(y)
        <3>1. Len(Join(v, x)) = Len(v) + 1 + Len(x) /\ Len(v) \in Nat /\ Len(x) \in Nat
            BY <2>1, JoinParts
        <3>2. Len(Join(w, y)) = Len(w) + 1 + Len(y) /\ Len(w) \in Nat /\ Len(y) \in Nat
            BY <2>1, JoinParts
        <3>. QED
            BY <1>2, <3>1, <3>2
    <2>3. Len(w) - Len(v) \in 1..Len(x)
        BY <1>2, <2>2
    <2>4. Join(v, x)[Len(v) + 1 + (Len(w) - Len(v))] = x[Len(w) - Len(v)]
        BY <2>1, <2>3, JoinParts
    <2>5. Len(v) + 1 + (Len(w) - Len(v)) = Len(w) + 1
        BY <2>2
    <2>6. Join(w, y)[Len(w) + 1] = Slash
        BY <2>1, JoinParts
    <2>7. x[Len(w) - Len(v)] \in Letters
        BY <2>3 DEF Words
    <2>. QED
        BY <1>2, <2>4, <2>5, <2>6, <2>7, CharactersAssumption
<1>3. Len(t) = Len(u)
    BY <1>1, <1>2
<1>. QED
    BY <1>1, <1>3, EqualParts

\* What names are made of.
LEMMA RecordParts ==
    ASSUME Served \subseteq Tenants, NEW n \in RecordNames
    PROVE  /\ n[1] \in Served /\ n[2] \in Collections /\ n[3] \in Ids
           /\ n = <<n[1], n[2], n[3]>>
           /\ n[1] \in Strings /\ n[2] \in Words /\ n[2] \in Strings /\ n[3] \in Strings
           /\ Join(n[2], n[3]) \in Strings
<1>1. /\ n[1] \in Served /\ n[2] \in Collections /\ n[3] \in Ids
      /\ n = <<n[1], n[2], n[3]>>
    BY DEF RecordNames
<1>2. n[1] \in Strings /\ n[2] \in Words /\ n[2] \in Strings /\ n[3] \in Strings
    BY <1>1, NamesAssumption, WordsAreStrings
<1>. QED
    BY <1>1, <1>2, JoinIsString

LEMMA ResponseParts ==
    ASSUME Served \subseteq Tenants, NEW n \in ResponseNames
    PROVE  /\ n = <<n[1], n[2], n[3], n[4]>>
           /\ n[1] \in Strings /\ n[2] \in Words /\ n[3] \in Words /\ n[4] \in Strings
           /\ Join(n[3], n[4]) \in Strings
           /\ Join(n[2], Join(n[3], n[4])) \in Strings
           /\ Join(n[1], Join(n[2], Join(n[3], n[4]))) \in Strings
<1>1. n = <<n[1], n[2], n[3], n[4]>>
    BY DEF ResponseNames
<1>2. n[1] \in Strings /\ n[2] \in Words /\ n[3] \in Words /\ n[4] \in Strings
    BY NamesAssumption DEF ResponseNames
<1>3. Join(n[3], n[4]) \in Strings
    BY <1>2, JoinIsString, WordsAreStrings
<1>4. Join(n[2], Join(n[3], n[4])) \in Strings
    BY <1>2, <1>3, JoinIsString, WordsAreStrings
<1>. QED
    BY <1>1, <1>2, <1>3, <1>4, JoinIsString

LEMMA RecordKeysDiffer ==
    ASSUME Served \subseteq Tenants, NEW m \in RecordNames, NEW n \in RecordNames,
           KeyOfRecord(m) = KeyOfRecord(n)
    PROVE  m = n \/ Nested(m[1], n[1])
<1>1. Join(m[1], Join(m[2], m[3])) = Join(n[1], Join(n[2], n[3]))
    BY DEF KeyOfRecord, RecordKey
<1>2. \/ m[1] = n[1] /\ Join(m[2], m[3]) = Join(n[2], n[3])
      \/ Nested(m[1], n[1])
    BY <1>1, RecordParts, SameOrNested
<1>3. Join(m[2], m[3]) = Join(n[2], n[3]) => m[2] = n[2] /\ m[3] = n[3]
    BY RecordParts, FirstWord
<1>. QED
    BY <1>2, <1>3, RecordParts

LEMMA ResponseKeysDiffer ==
    ASSUME Served \subseteq Tenants, NEW m \in ResponseNames, NEW n \in ResponseNames,
           KeyOfResponse(m) = KeyOfResponse(n)
    PROVE  m = n \/ Nested(m[1], n[1])
<1>1. Join(m[1], Join(m[2], Join(m[3], m[4]))) = Join(n[1], Join(n[2], Join(n[3], n[4])))
    BY ResponseParts, NamesAssumption, FirstWord DEF KeyOfResponse, ResponseKey
<1>2. \/ /\ m[1] = n[1]
         /\ Join(m[2], Join(m[3], m[4])) = Join(n[2], Join(n[3], n[4]))
      \/ Nested(m[1], n[1])
    BY <1>1, ResponseParts, SameOrNested
<1>3. Join(m[2], Join(m[3], m[4])) = Join(n[2], Join(n[3], n[4])) =>
         m[2] = n[2] /\ Join(m[3], m[4]) = Join(n[3], n[4])
    BY ResponseParts, FirstWord
<1>4. Join(m[3], m[4]) = Join(n[3], n[4]) => m[3] = n[3] /\ m[4] = n[4]
    BY ResponseParts, FirstWord
<1>. QED
    BY <1>2, <1>3, <1>4, ResponseParts

\* Only a tenant that is called like the place of the stored responses has names
\* that begin as theirs do.
LEMMA BelowIdempotency ==
    ASSUME NEW t \in Strings, NEW x \in Strings, NEW y \in Strings,
           Join(t, x) = Join(Idempotency, y)
    PROVE  Reserved(t)
<1>1. Idempotency \in Words /\ Idempotency \in Strings
    BY NamesAssumption, WordsAreStrings
<1>2. t = Idempotency \/ Nested(t, Idempotency)
    BY <1>1, SameOrNested
<1>. QED
    BY <1>1, <1>2, WordIsNotBelow DEF Nested, Reserved

LEMMA KeysAreApart == ASSUME Served \subseteq Tenants PROVE KeysApart
<1>1. ASSUME NEW m \in RecordNames, NEW n \in ResponseNames, KeyOfRecord(m) = KeyOfResponse(n)
      PROVE  Reserved(m[1])
    BY <1>1, RecordParts, ResponseParts, BelowIdempotency
       DEF KeyOfRecord, RecordKey, KeyOfResponse, ResponseKey
<1>2. ASSUME NEW k \in ItemKeys, NEW n \in RecordNames PROVE KeyOfRecord(n) # k
    <2>1. KeyOfRecord(n) \notin Words
        BY RecordParts, JoinIsNoWord DEF KeyOfRecord, RecordKey
    <2>. QED
        BY <2>1, NamesAssumption
<1>3. ASSUME NEW k \in ItemKeys, NEW n \in ResponseNames PROVE KeyOfResponse(n) # k
    <2>1. KeyOfResponse(n) \notin Words
        BY ResponseParts, NamesAssumption, WordsAreStrings, JoinIsNoWord
           DEF KeyOfResponse, ResponseKey
    <2>. QED
        BY <2>1, NamesAssumption
<1>. QED
    BY <1>1, <1>2, <1>3, RecordKeysDiffer, ResponseKeysDiffer DEF KeysApart

\* Requests are authenticated as tenants that were configured.
LEMMA ServedAreTenants == LifecycleTypes => Served \subseteq Tenants
BY DEF LifecycleTypes, Served

\* Whatever the tenants are called, and in whatever run their requests came: two
\* names have one key only if one tenant is called like a path below the other, or
\* like the place of the stored responses.
THEOREM KeysStayApart == Spec => []KeysApart
<1>1. LifecycleInv => KeysApart
    BY ServedAreTenants, KeysAreApart DEF LifecycleInv
<1>. QED
    BY <1>1, LifecycleInvariant, PTL

-----------------------------------------------------------------------------

\* A string that begins with p is p followed by what comes after it.
LEMMA TakenApart ==
    ASSUME NEW w \in Strings, NEW p \in Strings, StartsWith(w, p)
    PROVE  After(w, p) \in Strings /\ w = p \o After(w, p)
<1>1. Len(p) \in Nat /\ Len(w) \in Nat /\ Len(p) <= Len(w)
    BY DEF StartsWith, Strings
<1>2. After(w, p) \in Strings /\ Len(After(w, p)) = Len(w) - Len(p)
    BY <1>1 DEF After, Strings
<1>3. p \o After(w, p) \in Strings /\ Len(p \o After(w, p)) = Len(w)
    BY <1>1, <1>2 DEF Strings
<1>4. ASSUME NEW n \in 1..Len(w) PROVE w[n] = (p \o After(w, p))[n]
    <2>1. CASE n <= Len(p)
        <3>1. SubSeq(w, 1, Len(p))[n] = w[n]
            BY <1>1, <2>1 DEF Strings
        <3>2. (p \o After(w, p))[n] = p[n]
            BY <1>1, <1>2, <2>1 DEF Strings
        <3>. QED
            BY <3>1, <3>2 DEF StartsWith
    <2>2. CASE n > Len(p)
        <3>1. n - Len(p) \in 1..(Len(w) - Len(p))
            BY <1>1, <2>2
        <3>2. After(w, p)[n - Len(p)] = w[n]
            BY <1>1, <3>1 DEF After, Strings
        <3>3. (p \o After(w, p))[n] = After(w, p)[n - Len(p)]
            BY <1>1, <1>2, <3>1, <2>2 DEF Strings
        <3>. QED
            BY <3>2, <3>3
    <2>3. n <= Len(p) \/ n > Len(p)
        BY <1>1
    <2>. QED
        BY <2>1, <2>2, <2>3
<1>. QED
    BY <1>2, <1>3, <1>4, SameElements

\* What is put together begins with its first part.
LEMMA PutTogether ==
    ASSUME NEW u \in Strings, NEW x \in Strings
    PROVE  u \o x \in Strings /\ StartsWith(u \o x, u) /\ After(u \o x, u) = x
<1>1. /\ Len(u) \in Nat /\ Len(x) \in Nat
      /\ u \o x \in Strings /\ Len(u \o x) = Len(u) + Len(x)
    BY DEF Strings
<1>2. SubSeq(u \o x, 1, Len(u)) = u
    <2>1. SubSeq(u \o x, 1, Len(u)) \in Strings /\ Len(SubSeq(u \o x, 1, Len(u))) = Len(u)
        BY <1>1 DEF Strings
    <2>2. \A n \in 1..Len(u) : SubSeq(u \o x, 1, Len(u))[n] = u[n]
        BY <1>1 DEF Strings
    <2>. QED
        BY <2>1, <2>2 DEF Strings
<1>3. After(u \o x, u) = x
    <2>1. After(u \o x, u) \in Strings /\ Len(After(u \o x, u)) = Len(x)
        BY <1>1 DEF After, Strings
    <2>2. \A n \in 1..Len(x) : After(u \o x, u)[n] = x[n]
        <3>. SUFFICES ASSUME NEW n \in 1..Len(x) PROVE After(u \o x, u)[n] = x[n]
            OBVIOUS
        <3>1. (u \o x)[Len(u) + n] = x[n]
            BY <1>1 DEF Strings
        <3>2. After(u \o x, u)[n] = (u \o x)[Len(u) + n]
            BY <1>1 DEF After, Strings
        <3>. QED
            BY <3>1, <3>2
    <2>. QED
        BY <2>1, <2>2 DEF Strings
<1>. QED
    BY <1>1, <1>2, <1>3 DEF StartsWith

LEMMA Associative ==
    ASSUME NEW u \in Strings, NEW x \in Strings, NEW y \in Strings
    PROVE  (u \o x) \o y = u \o (x \o y)
BY ConcatAssociative DEF Strings

\* The key of a record is the prefix of its collection followed by its id.
LEMMA KeyHasPrefix ==
    ASSUME NEW t \in Strings, NEW c \in Strings, NEW id \in Strings
    PROVE  /\ RecordPrefix(t, c) \in Strings
           /\ RecordKey(t, c, id) = RecordPrefix(t, c) \o id
<1>. DEFINE u == t \o <<Slash>>
            w == Join(c, <<>>)
<1>1. u \in Strings /\ w \in Strings
    BY JoinNothing DEF Strings
<1>2. w = c \o <<Slash>>
    BY DEF Join, Strings
<1>3. RecordPrefix(t, c) = u \o w /\ RecordKey(t, c, id) = u \o Join(c, id)
    BY DEF RecordPrefix, RecordKey, Join
<1>4. w \o id = Join(c, id)
    BY <1>2 DEF Join
<1>5. RecordPrefix(t, c) \in Strings
    BY <1>1, JoinIsString DEF RecordPrefix
<1>. HIDE DEF u, w
<1>6. (u \o w) \o id = u \o (w \o id)
    BY <1>1, Associative
<1>. QED
    BY <1>3, <1>4, <1>5, <1>6

\* A key begins with the prefix of a collection and p if what follows the prefix of
\* the collection begins with p, and in no other way.
LEMMA BeginsWithPrefix ==
    ASSUME NEW w \in Strings, NEW u \in Strings, NEW p \in Strings
    PROVE  /\ \A x \in Strings : w = u \o x =>
                (StartsWith(w, u \o p) <=> StartsWith(x, p)) /\ After(w, u) = x
           /\ StartsWith(w, u \o p) => \E x \in Strings : w = u \o x
<1>1. u \o p \in Strings
    BY PutTogether
<1>2. ASSUME NEW y \in Strings
      PROVE  (u \o p) \o y = u \o (p \o y) /\ p \o y \in Strings
    <2>1. p \o y \in Strings
        BY PutTogether
    <2>2. (u \o p) \o y = u \o (p \o y)
        BY Associative
    <2>. QED
        BY <2>1, <2>2
<1>3. ASSUME StartsWith(w, u \o p)
      PROVE  \E y \in Strings : p \o y \in Strings /\ w = u \o (p \o y)
    <2>. DEFINE y == After(w, u \o p)
    <2>1. y \in Strings /\ w = (u \o p) \o y
        BY <1>1, <1>3, TakenApart
    <2>. HIDE DEF y
    <2>2. (u \o p) \o y = u \o (p \o y) /\ p \o y \in Strings
        BY <2>1, <1>2
    <2>. QED
        BY <2>1, <2>2
<1>4. ASSUME NEW x \in Strings, w = u \o x, StartsWith(w, u \o p)
      PROVE  StartsWith(x, p)
    <2>1. PICK y \in Strings : p \o y \in Strings /\ w = u \o (p \o y)
        BY <1>3, <1>4
    <2>2. After(w, u) = x
        BY <1>4, PutTogether
    <2>3. After(u \o (p \o y), u) = p \o y
        BY <2>1, PutTogether
    <2>4. x = p \o y
        BY <2>1, <2>2, <2>3
    <2>5. StartsWith(p \o y, p)
        BY PutTogether
    <2>. QED
        BY <2>4, <2>5
<1>5. ASSUME NEW x \in Strings, w = u \o x, StartsWith(x, p)
      PROVE  StartsWith(w, u \o p)
    <2>. DEFINE y == After(x, p)
    <2>1. y \in Strings /\ x = p \o y
        BY <1>5, TakenApart
    <2>. HIDE DEF y
    <2>2. (u \o p) \o y = u \o (p \o y)
        BY <2>1, <1>2
    <2>3. w = (u \o p) \o y
        BY <1>5, <2>1, <2>2
    <2>4. StartsWith((u \o p) \o y, u \o p)
        BY <1>1, <2>1, PutTogether
    <2>. QED
        BY <2>3, <2>4
<1>6. ASSUME NEW x \in Strings, w = u \o x PROVE After(w, u) = x
    <2>1. After(u \o x, u) = x
        BY PutTogether
    <2>. QED
        BY <1>6, <2>1
<1>. QED
    BY <1>3, <1>4, <1>5, <1>6

\* A listing selects a row that belongs to its collection and to its prefix ...
LEMMA OwnRowsSelected ==
    ASSUME Served \subseteq Tenants,
           NEW t \in Served, NEW c \in Collections, NEW p \in AskedPrefixes, NEW id \in Ids
    PROVE  /\ RecordRow(<<t, c, id>>) \in KeyedRows
           /\ After(RecordRow(<<t, c, id>>).key, RecordPrefix(t, c)) = id
           /\ Selected(RecordRow(<<t, c, id>>), t, c, p) <=> StartsWith(id, p)
<1>. DEFINE n == <<t, c, id>>
<1>1. n \in RecordNames /\ RecordRow(n) \in KeyedRows
    BY DEF RecordNames, KeyedRows
<1>2. t \in Strings /\ c \in Strings /\ id \in Strings /\ p \in Strings
    BY NamesAssumption, WordsAreStrings
<1>3. /\ RecordRow(n).key = RecordKey(t, c, id)
      /\ RecordRow(n).category = RecordCategory(t, c)
    BY DEF RecordRow, KeyOfRecord
<1>4. /\ RecordPrefix(t, c) \in Strings
      /\ RecordKey(t, c, id) = RecordPrefix(t, c) \o id
    BY <1>2, KeyHasPrefix
<1>5. RecordKey(t, c, id) \in Strings
    BY <1>2, <1>4, PutTogether
<1>6. /\ StartsWith(RecordKey(t, c, id), RecordPrefix(t, c) \o p) <=> StartsWith(id, p)
      /\ After(RecordKey(t, c, id), RecordPrefix(t, c)) = id
    BY <1>2, <1>4, <1>5, BeginsWithPrefix
<1>. QED
    BY <1>1, <1>3, <1>6 DEF Selected

\* ... and no other row.
LEMMA OnlyOwnRowsSelected ==
    ASSUME Served \subseteq Tenants,
           NEW t \in Served, NEW c \in Collections, NEW p \in AskedPrefixes,
           ~ Reserved(t), NEW r \in KeyedRows, Selected(r, t, c, p)
    PROVE  \E id \in Ids : r = RecordRow(<<t, c, id>>)
<1>1. t \in Strings /\ c \in Words /\ c \in Strings /\ p \in Strings
    BY NamesAssumption, WordsAreStrings
<1>2. CASE \E n \in RecordNames : r = RecordRow(n)
    <2>1. PICK n \in RecordNames : r = RecordRow(n)
        BY <1>2
    <2>2. Join(n[1], n[2]) = Join(t, c)
        BY <2>1 DEF Selected, RecordRow, RecordCategory
    <2>3. n[1] = t /\ n[2] = c
        BY <1>1, <2>2, RecordParts, LastWord
    <2>. QED
        BY <2>1, <2>3, RecordParts
<1>3. CASE \E n \in ResponseNames : r = ResponseRow(n)
    <2>1. PICK n \in ResponseNames : r = ResponseRow(n)
        BY <1>3
    <2>2. Join(t, c) = Join(Idempotency, n[1])
        BY <2>1 DEF Selected, ResponseRow, RecordCategory, ResponseCategory
    <2>. QED
        BY <1>1, <2>2, ResponseParts, BelowIdempotency
<1>4. CASE r \in [key : ItemKeys, category : ItemCategories]
    <2>1. r.key \in Words /\ r.key \in Strings /\ RecordPrefix(t, c) \in Strings
        BY <1>1, <1>4, NamesAssumption, WordsAreStrings, KeyHasPrefix
    <2>2. PICK x \in Strings : r.key = RecordPrefix(t, c) \o x
        BY <1>1, <2>1, BeginsWithPrefix DEF Selected
    <2>3. r.key = Join(t, Join(c, x)) /\ Join(c, x) \in Strings
        BY <1>1, <2>2, KeyHasPrefix, JoinIsString DEF RecordKey
    <2>. QED
        BY <1>1, <2>1, <2>3, JoinIsNoWord
<1>. QED
    BY <1>2, <1>3, <1>4 DEF KeyedRows

LEMMA ListingIsExact == ASSUME Served \subseteq Tenants PROVE ListingExact
<1>. SUFFICES ASSUME NEW t \in Served, NEW c \in Collections, NEW p \in AskedPrefixes,
                     ~ Reserved(t)
              PROVE  Listing(KeyedRows, t, c, p) =
                        {<<RecordRow(<<t, c, id>>), id>> : id \in {id \in Ids : StartsWith(id, p)}}
    BY DEF ListingExact
<1>. DEFINE Row(id) == RecordRow(<<t, c, id>>)
            Id(r) == After(r.key, RecordPrefix(t, c))
<1>1. \A id \in Ids : /\ Row(id) \in KeyedRows /\ Id(Row(id)) = id
                      /\ Selected(Row(id), t, c, p) <=> StartsWith(id, p)
    BY OwnRowsSelected
<1>2. \A r \in KeyedRows : Selected(r, t, c, p) => \E id \in Ids : r = Row(id)
    BY OnlyOwnRowsSelected
<1>3. Listing(KeyedRows, t, c, p) = {<<r, Id(r)>> : r \in {r \in KeyedRows : Selected(r, t, c, p)}}
    BY DEF Listing
<1>. HIDE DEF Row, Id
<1>4. {<<r, Id(r)>> : r \in {r \in KeyedRows : Selected(r, t, c, p)}} =
          {<<Row(id), id>> : id \in {id \in Ids : StartsWith(id, p)}}
    <2>1. ASSUME NEW r \in KeyedRows, Selected(r, t, c, p)
          PROVE  \E id \in Ids : StartsWith(id, p) /\ <<r, Id(r)>> = <<Row(id), id>>
        BY <2>1, <1>1, <1>2
    <2>2. ASSUME NEW id \in Ids, StartsWith(id, p)
          PROVE  \E r \in KeyedRows : Selected(r, t, c, p) /\ <<Row(id), id>> = <<r, Id(r)>>
        BY <2>2, <1>1
    <2>. QED
        BY <2>1, <2>2
<1>. QED
    BY <1>3, <1>4 DEF Row

\* A listing of a collection is exact, whatever names the other users of the table
\* choose and whatever the tenants are called, "idempotency" apart.
THEOREM ListingsStayExact == Spec => []ListingExact
<1>1. LifecycleInv => ListingExact
    BY ServedAreTenants, ListingIsExact DEF LifecycleInv
<1>. QED
    BY <1>1, LifecycleInvariant, PTL

=============================================================================
