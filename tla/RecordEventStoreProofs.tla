----------------------- MODULE RecordEventStoreProofs -----------------------
(***************************************************************************)
(* Proofs about RecordEventStore, for every set of records, documents and  *)
(* requests and every number of faults. The argument: only one transaction *)
(* is open at a time, so it replaces the very tables it has read (TxOK),   *)
(* and COMMIT changes the committed tables exactly as one mutation of      *)
(* RecordLog does (TablesStep); no other step touches them.                *)
(***************************************************************************)
EXTENDS RecordEventStore, SequenceTheorems, TLAPS

\* An event built from values of the right types is an event, and so is its
\* envelope.
LEMMA EventTypes ==
    /\ \A e \in EventIds, r \in Records, n \in Nat, b \in Images, a \in Images :
         NewEvent(e, r, n, b, a) \in Events
    /\ \A ev \in Events : EnvelopeOf(ev) \in Envelopes
    BY Zenon DEF NewEvent, Events, EnvelopeOf, Envelopes, ActionOf, Actions, Images

-----------------------------------------------------------------------------
(***************************************************************************)
(* The latest version of a record.                                         *)
(***************************************************************************)

Versions(audit, r) ==
    {0} \cup {audit[i].version : i \in {j \in DOMAIN audit : audit[j].rec = r}}

\* Every record has a highest version. (It is part of the invariant because it
\* cannot be had from finiteness without an induction.)
HasLast(audit) ==
    \A r \in Records :
        \E m \in Versions(audit, r) : \A n \in Versions(audit, r) : m >= n

\* The versions of a record in an audit table, and the 0 beside them, are numbers.
LEMMA VersionsAreNumbers ==
    ASSUME NEW audit \in Seq(Events), NEW r \in Records
    PROVE  Versions(audit, r) \subseteq Nat
<1>1. DOMAIN audit = 1..Len(audit)
    BY LenProperties
<1>2. \A i \in 1..Len(audit) : audit[i] \in Events
    BY ElementOfSeq
<1>3. \A i \in DOMAIN audit : audit[i].version \in Nat
    BY <1>1, <1>2 DEF Events
<1>. QED
    BY <1>3 DEF Versions

\* LastVersion is the highest version when there is one.
LEMMA LastVersionIsHighest ==
    ASSUME NEW audit \in Seq(Events), HasLast(audit), NEW r \in Records
    PROVE  /\ LastVersion(audit, r) \in Nat
           /\ LastVersion(audit, r) \in Versions(audit, r)
           /\ \A n \in Versions(audit, r) : LastVersion(audit, r) >= n
<1> DEFINE V == Versions(audit, r)
<1>1. V \subseteq Nat
    BY VersionsAreNumbers
<1>2. PICK m \in V : \A n \in V : m >= n
    BY DEF HasLast
<1>3. LastVersion(audit, r) = CHOOSE x \in V : \A y \in V : x >= y
    BY DEF LastVersion, Max, Versions
<1>. QED
    BY <1>1, <1>2, <1>3

\* The highest version of a set is its only member that no member exceeds.
LEMMA LastVersionUnique ==
    ASSUME NEW audit \in Seq(Events), NEW r \in Records,
           NEW m \in Versions(audit, r),
           \A n \in Versions(audit, r) : m >= n
    PROVE  LastVersion(audit, r) = m
<1> DEFINE V == Versions(audit, r)
<1>1. V \subseteq Nat
    BY VersionsAreNumbers
<1>2. LastVersion(audit, r) = CHOOSE x \in V : \A y \in V : x >= y
    BY DEF LastVersion, Max, Versions
<1>3. \A x \in V : (\A y \in V : x >= y) => x = m
    BY <1>1
<1>. QED
    BY <1>2, <1>3

\* Appending an event with the next version of its record raises the latest
\* version of that record by one and no other.
LEMMA AppendVersion ==
    ASSUME NEW audit \in Seq(Events), HasLast(audit), NEW ev \in Events,
           ev.version = LastVersion(audit, ev.rec) + 1
    PROVE  LET longer == Append(audit, ev)
           IN /\ HasLast(longer)
              /\ \A r \in Records :
                   LastVersion(longer, r) =
                       IF r = ev.rec THEN ev.version ELSE LastVersion(audit, r)
<1> DEFINE longer == Append(audit, ev)
<1>1. /\ longer \in Seq(Events)
      /\ DOMAIN longer = 1..(Len(audit) + 1)
      /\ DOMAIN audit = 1..Len(audit)
      /\ \A i \in DOMAIN audit : longer[i] = audit[i]
      /\ longer[Len(audit) + 1] = ev
      /\ Len(audit) \in Nat
    BY AppendProperties, LenProperties
<1>2. ev.rec \in Records
    BY DEF Events
<1>3. ASSUME NEW r \in Records
      PROVE  Versions(longer, r) =
                 Versions(audit, r) \cup (IF r = ev.rec THEN {ev.version} ELSE {})
    BY <1>1 DEF Versions
<1>4. ASSUME NEW r \in Records
      PROVE  LET m == IF r = ev.rec THEN ev.version ELSE LastVersion(audit, r)
             IN m \in Versions(longer, r) /\ \A n \in Versions(longer, r) : m >= n
    <2>1. /\ LastVersion(audit, r) \in Nat
          /\ LastVersion(audit, r) \in Versions(audit, r)
          /\ \A n \in Versions(audit, r) : LastVersion(audit, r) >= n
        BY LastVersionIsHighest
    <2>2. Versions(audit, r) \subseteq Nat
        BY VersionsAreNumbers
    <2>3. CASE r = ev.rec
        BY <1>3, <2>1, <2>2, <2>3
    <2>4. CASE r # ev.rec
        BY <1>3, <2>1, <2>4
    <2>. QED
        BY <2>3, <2>4
<1>5. HasLast(longer)
    BY <1>4 DEF HasLast
<1>6. ASSUME NEW r \in Records
      PROVE  LastVersion(longer, r) =
                 IF r = ev.rec THEN ev.version ELSE LastVersion(audit, r)
    <2> DEFINE m == IF r = ev.rec THEN ev.version ELSE LastVersion(audit, r)
    <2>1. m \in Versions(longer, r) /\ \A n \in Versions(longer, r) : m >= n
        BY <1>4
    <2>2. longer \in Seq(Events)
        BY <1>1
    <2> HIDE DEF m, longer
    <2>3. LastVersion(longer, r) = m
        BY <2>1, <2>2, LastVersionUnique
    <2>. QED
        BY <2>3 DEF m
<1>. QED
    BY <1>5, <1>6

-----------------------------------------------------------------------------
(***************************************************************************)
(* The invariant of the transaction.                                       *)
(***************************************************************************)

\* What a transaction for request q will have done to the committed tables.
Allowed(q) == mutation[q].after = NoValue => kv_entries[mutation[q].rec] # NoValue

EventOf(q) ==
    NewEvent(q, mutation[q].rec, NextVersion(audit_events, mutation[q].rec),
             kv_entries[mutation[q].rec], mutation[q].after)

NewEntries(q) == [kv_entries EXCEPT ![mutation[q].rec] = mutation[q].after]
NewAudit(q) == Append(audit_events, EventOf(q))
NewOutbox(q) == Append(outbox_events, EnvelopeOf(EventOf(q)))

\* The open transaction differs from the committed tables by the part of its
\* own mutation that is done, and its version is the next one of the COMMITTED
\* audit table: nobody else commits while it is open.
TxOK ==
    writer # NoRequest =>
        /\ status[writer] = "waiting"
        /\ \/ /\ tx.step \in {"begun", "done"}
              /\ tx.kv = kv_entries
              /\ tx.audit = audit_events
              /\ tx.outbox = outbox_events
              /\ tx.event = NoEvent
           \/ /\ tx.step \in {"row", "audit", "done"}
              /\ Allowed(writer)
              /\ tx.kv = NewEntries(writer)
              /\ tx.audit = IF tx.step = "row" THEN audit_events ELSE NewAudit(writer)
              /\ tx.outbox = IF tx.step = "done" THEN NewOutbox(writer) ELSE outbox_events
              /\ tx.event = EventOf(writer)

StoreInv == TypeOK /\ HasLast(audit_events) /\ TxOK

\* The committed tables change as one mutation of request q changes them.
Mutates(q) ==
    /\ Allowed(q)
    /\ kv_entries' = NewEntries(q)
    /\ audit_events' = NewAudit(q)
    /\ outbox_events' = NewOutbox(q)

\* The event of a request is an event.
LEMMA EventOfType ==
    ASSUME TypeOK, HasLast(audit_events), NEW q \in Requests
    PROVE  /\ mutation[q].rec \in Records
           /\ mutation[q].after \in Images
           /\ LastVersion(audit_events, mutation[q].rec) \in Nat
           /\ EventOf(q) \in Events
           /\ EnvelopeOf(EventOf(q)) \in Envelopes
<1>1. mutation[q].rec \in Records /\ mutation[q].after \in Images
    BY DEF TypeOK, Mutations
<1>2. LastVersion(audit_events, mutation[q].rec) \in Nat
    BY <1>1, LastVersionIsHighest DEF TypeOK
<1>3. NextVersion(audit_events, mutation[q].rec) \in Nat
    BY <1>2 DEF NextVersion
<1>4. kv_entries[mutation[q].rec] \in Images
    BY <1>1 DEF TypeOK
<1>5. EventOf(q) \in Events
    BY <1>1, <1>3, <1>4, EventTypes DEF EventOf, Requests
<1>. QED
    BY <1>1, <1>2, <1>5, EventTypes

\* A mutation keeps the committed tables typed and their versions bounded.
LEMMA MutatesTypes ==
    ASSUME TypeOK, HasLast(audit_events), NEW q \in Requests
    PROVE  /\ NewEntries(q) \in [Records -> Images]
           /\ NewAudit(q) \in Seq(Events)
           /\ NewOutbox(q) \in Seq(Envelopes)
           /\ HasLast(NewAudit(q))
<1>1. /\ mutation[q].rec \in Records
      /\ mutation[q].after \in Images
      /\ LastVersion(audit_events, mutation[q].rec) \in Nat
      /\ EventOf(q) \in Events
      /\ EnvelopeOf(EventOf(q)) \in Envelopes
    BY EventOfType
<1>2. NewEntries(q) \in [Records -> Images]
    BY <1>1 DEF NewEntries, TypeOK
<1>3. NewAudit(q) \in Seq(Events) /\ NewOutbox(q) \in Seq(Envelopes)
    BY <1>1, AppendProperties DEF NewAudit, NewOutbox, TypeOK
<1>4. EventOf(q).version = LastVersion(audit_events, EventOf(q).rec) + 1
    BY DEF EventOf, NewEvent, NextVersion
<1>5. HasLast(NewAudit(q))
    BY <1>1, <1>4, AppendVersion DEF NewAudit, TypeOK
<1>. QED
    BY <1>2, <1>3, <1>5

\* How a request moves in a step that commits no mutation.
QuietMove(q) ==
    \/ status'[q] = status[q]
    \/ status[q] \in {"new", "waiting"} /\ status'[q] \in {"waiting", "unchanged", "failed", "lost"}
    \/ status[q] = "unchanged" /\ status'[q] \in {"absent", "lost"}
    \/ status[q] = "written" /\ status'[q] \in {"ok", "lost"}

\* The heart of the argument: a step leaves the committed tables alone, or it
\* commits exactly one mutation of a request that was waiting.
LEMMA TablesStep ==
    ASSUME StoreInv, [Next]_vars
    PROVE  /\ UNCHANGED mutation
           /\ \/ /\ UNCHANGED tables
                 /\ \A q \in Requests : QuietMove(q)
              \/ \E q \in Requests :
                   /\ Mutates(q)
                   /\ status[q] = "waiting"
                   /\ status' = [status EXCEPT ![q] = "written"]
<1>. USE DEF StoreInv
<1>1. ASSUME NEW q \in Requests, Commit(q)
      PROVE  \/ UNCHANGED tables /\ \A p \in Requests : QuietMove(p)
             \/ /\ Mutates(q)
                /\ status[q] = "waiting"
                /\ status' = [status EXCEPT ![q] = "written"]
    <2>1. writer = q /\ q # NoRequest /\ status[q] = "waiting"
        BY <1>1, NoRequestAssumption DEF Commit, Requests, TxOK
    <2>2. CASE tx.event = NoEvent
        <3>1. EventOf(q) # NoEvent
            BY EventOfType, NoEventAssumption
        <3>2. UNCHANGED tables
            BY <1>1, <2>1, <2>2, <3>1 DEF Commit, TxOK, tables
        <3>3. status' = [status EXCEPT ![q] = "unchanged"]
            BY <1>1, <2>2 DEF Commit
        <3>. QED
            BY <2>1, <3>2, <3>3 DEF TypeOK, QuietMove
    <2>3. CASE tx.event # NoEvent
        BY <1>1, <2>1, <2>3 DEF Commit, TxOK, Mutates
    <2>. QED
        BY <2>2, <2>3
<1>2. ASSUME NEW q \in Requests,
             Submit(q) \/ BeginTx(q) \/ WriteRow(q) \/ DeleteAbsent(q)
             \/ InsertAudit(q) \/ InsertOutbox(q)
      PROVE  UNCHANGED tables /\ \A p \in Requests : QuietMove(p)
    BY <1>2 DEF Submit, BeginTx, WriteRow, DeleteAbsent, InsertAudit, InsertOutbox,
                tables, QuietMove, TypeOK
<1>3. ASSUME NEW q \in Requests, Respond(q) \/ Fail(q) \/ LoseResponse(q)
      PROVE  UNCHANGED tables /\ \A p \in Requests : QuietMove(p)
    BY <1>3 DEF Respond, Fail, LoseResponse, tables, QuietMove, TypeOK
<1>4. CASE Crash
    BY <1>4 DEF Crash, tables, QuietMove, TypeOK
<1>5. CASE UNCHANGED vars
    BY <1>5 DEF vars, tables, QuietMove
<1>6. UNCHANGED mutation
    BY DEF Next, Step, Submit, BeginTx, WriteRow, DeleteAbsent, InsertAudit,
           InsertOutbox, Commit, Fail, Respond, LoseResponse, Crash, vars
<1>. QED
    BY <1>1, <1>2, <1>3, <1>4, <1>5, <1>6 DEF Next, Step

\* The initial states satisfy the invariant.
LEMMA StoreInit == Init => StoreInv
<1>. SUFFICES ASSUME Init PROVE StoreInv
    OBVIOUS
<1>1. <<>> \in Seq(Events) /\ <<>> \in Seq(Envelopes)
    BY EmptySeq
<1>2. [r \in Records |-> NoValue] \in [Records -> Images]
    BY DEF Images
<1>3. NoTx \in Transactions
    BY <1>1, <1>2 DEF NoTx, Transactions, Steps
<1>4. TypeOK
    BY <1>1, <1>2, <1>3, MaxFaultsAssumption DEF TypeOK, Init, Statuses
<1>5. HasLast(audit_events)
    <2>1. ASSUME NEW r \in Records PROVE Versions(<<>>, r) = {0}
        BY DEF Versions
    <2>2. ASSUME NEW r \in Records
          PROVE  0 \in Versions(<<>>, r) /\ \A n \in Versions(<<>>, r) : 0 >= n
        BY <2>1
    <2>3. HasLast(<<>>)
        BY <2>2 DEF HasLast
    <2>. QED
        BY <2>3 DEF Init
<1>6. TxOK
    BY DEF TxOK, Init
<1>. QED
    BY <1>4, <1>5, <1>6 DEF StoreInv

\* Every step keeps the types.
LEMMA StoreTypeStep ==
    ASSUME StoreInv, [Next]_vars
    PROVE  TypeOK' /\ HasLast(audit_events')
<1>. USE DEF StoreInv
<1>0. NoTx \in Transactions /\ NoTx.step = "none"
    <2>1. <<>> \in Seq(Events) /\ <<>> \in Seq(Envelopes)
        BY EmptySeq
    <2>. QED
        BY <2>1 DEF NoTx, Transactions, Steps, Images
<1>1. HasLast(audit_events')
    BY TablesStep, MutatesTypes DEF Mutates, tables
<1>2. ASSUME NEW q \in Requests, Submit(q)
      PROVE  TypeOK'
    BY <1>2 DEF Submit, TypeOK, Statuses
<1>3. ASSUME NEW q \in Requests, BeginTx(q)
      PROVE  TypeOK'
    <2>1. Snapshot \in Transactions /\ Snapshot # NoTx
        BY <1>0 DEF Snapshot, TypeOK, Transactions, Steps
    <2>. QED
        BY <1>3, <2>1, NoRequestAssumption DEF BeginTx, TypeOK, Requests
<1>4. ASSUME NEW q \in Requests, WriteRow(q)
      PROVE  TypeOK'
    <2>1. /\ writer = q /\ writer # NoRequest
          /\ tx.step = "begun" /\ tx.kv = kv_entries /\ tx.audit = audit_events
        BY <1>4, NoRequestAssumption DEF WriteRow, TxOK, Requests
    <2>2. tx' = [tx EXCEPT !.step = "row", !.kv = NewEntries(q), !.event = EventOf(q)]
        BY <1>4, <2>1 DEF WriteRow, NewEntries, EventOf
    <2>3. NewEntries(q) \in [Records -> Images] /\ EventOf(q) \in Events
        BY MutatesTypes, EventOfType
    <2>4. tx' \in Transactions /\ tx' # NoTx
        BY <2>2, <2>3, <1>0 DEF TypeOK, Transactions, Steps
    <2>. QED
        BY <1>4, <2>1, <2>4 DEF WriteRow, TypeOK
<1>5. ASSUME NEW q \in Requests, DeleteAbsent(q)
      PROVE  TypeOK'
    <2>1. tx' \in Transactions /\ tx' # NoTx /\ writer # NoRequest
        BY <1>5, <1>0, NoRequestAssumption
           DEF DeleteAbsent, TypeOK, Transactions, Steps, Requests
    <2>. QED
        BY <1>5, <2>1 DEF DeleteAbsent, TypeOK
<1>6. ASSUME NEW q \in Requests, InsertAudit(q)
      PROVE  TypeOK'
    <2>1. writer = q /\ writer # NoRequest /\ tx.step = "row"
        BY <1>6, NoRequestAssumption DEF InsertAudit, Requests
    <2>2. tx.event = EventOf(q) /\ tx.event \in Events
        BY <2>1, EventOfType DEF TxOK
    <2>3. Append(tx.audit, tx.event) \in Seq(Events)
        BY <2>2, AppendProperties DEF TypeOK, Transactions
    <2>4. tx' \in Transactions /\ tx' # NoTx
        BY <1>6, <2>3, <1>0 DEF InsertAudit, TypeOK, Transactions, Steps
    <2>. QED
        BY <1>6, <2>1, <2>4 DEF InsertAudit, TypeOK
<1>7. ASSUME NEW q \in Requests, InsertOutbox(q)
      PROVE  TypeOK'
    <2>1. writer = q /\ writer # NoRequest /\ tx.step = "audit"
        BY <1>7, NoRequestAssumption DEF InsertOutbox, Requests
    <2>2. tx.event = EventOf(q) /\ EnvelopeOf(tx.event) \in Envelopes
        BY <2>1, EventOfType DEF TxOK
    <2>3. Append(tx.outbox, EnvelopeOf(tx.event)) \in Seq(Envelopes)
        BY <2>2, AppendProperties DEF TypeOK, Transactions
    <2>4. tx' \in Transactions /\ tx' # NoTx
        BY <1>7, <2>3, <1>0 DEF InsertOutbox, TypeOK, Transactions, Steps
    <2>. QED
        BY <1>7, <2>1, <2>4 DEF InsertOutbox, TypeOK
<1>8. ASSUME NEW q \in Requests, Commit(q)
      PROVE  TypeOK'
    <2>1. /\ kv_entries' \in [Records -> Images]
          /\ audit_events' \in Seq(Events)
          /\ outbox_events' \in Seq(Envelopes)
        BY <1>8 DEF Commit, TypeOK, Transactions
    <2>. QED
        BY <1>8, <1>0, <2>1 DEF Commit, TypeOK, Statuses
<1>9. ASSUME NEW q \in Requests, Fail(q)
      PROVE  TypeOK'
    BY <1>9, <1>0, MaxFaultsAssumption DEF Fail, TypeOK, Statuses, Answers
<1>10. ASSUME NEW q \in Requests, Respond(q) \/ LoseResponse(q)
       PROVE  TypeOK'
    BY <1>10, MaxFaultsAssumption DEF Respond, LoseResponse, TypeOK, Statuses, Answers
<1>11. CASE Crash
    BY <1>11, <1>0, MaxFaultsAssumption DEF Crash, TypeOK, Statuses, Answers
<1>12. CASE UNCHANGED vars
    BY <1>12 DEF vars, TypeOK
<1>. QED
    BY <1>1, <1>2, <1>3, <1>4, <1>5, <1>6, <1>7, <1>8, <1>9, <1>10, <1>11, <1>12
       DEF Next, Step

\* A step of any request keeps the open transaction what it should be: the
\* committed tables under it change only when it ends.
LEMMA StoreTxStep ==
    ASSUME StoreInv, [Next]_vars
    PROVE  TxOK'
<1>. USE DEF StoreInv
<1>1. ASSUME NEW q \in Requests, Submit(q) \/ Respond(q) \/ LoseResponse(q)
      PROVE  TxOK'
    <2>1. writer # NoRequest => writer # q /\ writer \in Requests /\ status'[writer] = "waiting"
        BY <1>1 DEF Submit, Respond, LoseResponse, TxOK, TypeOK
    <2>. QED
        BY <1>1, <2>1 DEF Submit, Respond, LoseResponse, TxOK, Allowed, NewEntries,
                          NewAudit, NewOutbox, EventOf
<1>2. ASSUME NEW q \in Requests, BeginTx(q)
      PROVE  TxOK'
    BY <1>2 DEF BeginTx, Snapshot, TxOK
<1>3. ASSUME NEW q \in Requests, WriteRow(q)
      PROVE  TxOK'
    <2>1. /\ writer = q /\ writer # NoRequest /\ status[q] = "waiting"
          /\ tx.step = "begun" /\ tx.kv = kv_entries /\ tx.audit = audit_events
          /\ tx.outbox = outbox_events
        BY <1>3, NoRequestAssumption DEF WriteRow, TxOK, Requests
    <2>2. /\ tx' = [tx EXCEPT !.step = "row", !.kv = NewEntries(q), !.event = EventOf(q)]
          /\ Allowed(q)
        BY <1>3, <2>1 DEF WriteRow, NewEntries, EventOf, Allowed
    <2>3. /\ tx'.step = "row" /\ tx'.kv = NewEntries(q) /\ tx'.event = EventOf(q)
          /\ tx'.audit = audit_events /\ tx'.outbox = outbox_events
        BY <2>1, <2>2 DEF TypeOK, Transactions
    <2>4. UNCHANGED <<kv_entries, audit_events, outbox_events, mutation, status, writer>>
        BY <1>3 DEF WriteRow
    <2>. QED
        BY <2>1, <2>2, <2>3, <2>4 DEF TxOK, Allowed, NewEntries, EventOf
<1>4. ASSUME NEW q \in Requests, DeleteAbsent(q)
      PROVE  TxOK'
    BY <1>4 DEF DeleteAbsent, TxOK, TypeOK, Transactions
<1>5. ASSUME NEW q \in Requests, InsertAudit(q)
      PROVE  TxOK'
    <2>1. /\ writer = q /\ writer # NoRequest /\ status[q] = "waiting"
          /\ tx.step = "row" /\ Allowed(q) /\ tx.kv = NewEntries(q)
          /\ tx.audit = audit_events /\ tx.outbox = outbox_events
          /\ tx.event = EventOf(q)
        BY <1>5, NoRequestAssumption DEF InsertAudit, TxOK, Requests
    <2>2. /\ tx'.step = "audit" /\ tx'.kv = tx.kv /\ tx'.event = tx.event
          /\ tx'.audit = NewAudit(q) /\ tx'.outbox = tx.outbox
        BY <1>5, <2>1 DEF InsertAudit, TypeOK, Transactions, NewAudit
    <2>3. UNCHANGED <<kv_entries, audit_events, outbox_events, mutation, status, writer>>
        BY <1>5 DEF InsertAudit
    <2>. QED
        BY <2>1, <2>2, <2>3 DEF TxOK, Allowed, NewEntries, NewAudit, EventOf
<1>6. ASSUME NEW q \in Requests, InsertOutbox(q)
      PROVE  TxOK'
    <2>1. /\ writer = q /\ writer # NoRequest /\ status[q] = "waiting"
          /\ tx.step = "audit" /\ Allowed(q) /\ tx.kv = NewEntries(q)
          /\ tx.audit = NewAudit(q) /\ tx.outbox = outbox_events
          /\ tx.event = EventOf(q)
        BY <1>6, NoRequestAssumption DEF InsertOutbox, TxOK, Requests
    <2>2. /\ tx'.step = "done" /\ tx'.kv = tx.kv /\ tx'.event = tx.event
          /\ tx'.audit = tx.audit /\ tx'.outbox = NewOutbox(q)
        BY <1>6, <2>1 DEF InsertOutbox, TypeOK, Transactions, NewOutbox
    <2>3. UNCHANGED <<kv_entries, audit_events, outbox_events, mutation, status, writer>>
        BY <1>6 DEF InsertOutbox
    <2>. QED
        BY <2>1, <2>2, <2>3
           DEF TxOK, Allowed, NewEntries, NewAudit, NewOutbox, EventOf
<1>7. ASSUME NEW q \in Requests, Commit(q)
      PROVE  TxOK'
    BY <1>7 DEF Commit, TxOK
<1>8. ASSUME NEW q \in Requests, Fail(q)
      PROVE  TxOK'
    <2>1. CASE writer = q
        BY <1>8, <2>1 DEF Fail, TxOK
    <2>2. CASE writer # q
        <3>1. writer # NoRequest => writer \in Requests /\ status'[writer] = "waiting"
            BY <1>8, <2>2 DEF Fail, TxOK, TypeOK
        <3>. QED
            BY <1>8, <2>2, <3>1 DEF Fail, TxOK, Allowed, NewEntries, NewAudit,
                                    NewOutbox, EventOf
    <2>. QED
        BY <2>1, <2>2
<1>9. CASE Crash
    BY <1>9 DEF Crash, TxOK
<1>10. CASE UNCHANGED vars
    BY <1>10 DEF vars, TxOK, Allowed, NewEntries, NewAudit, NewOutbox, EventOf
<1>. QED
    BY <1>1, <1>2, <1>3, <1>4, <1>5, <1>6, <1>7, <1>8, <1>9, <1>10 DEF Next, Step

\* In every behaviour of the store, the variables have their types and the open
\* transaction is one against the current committed tables.
THEOREM StoreInvariant == Spec => []StoreInv
<1>1. Init => StoreInv
    BY StoreInit
<1>2. StoreInv /\ [Next]_vars => StoreInv'
    BY StoreTypeStep, StoreTxStep DEF StoreInv
<1>. QED
    BY <1>1, <1>2, PTL DEF Spec

\* Type correctness of the record store.
THEOREM TypeCorrect == Spec => []TypeOK
<1>1. StoreInv => TypeOK
    BY DEF StoreInv
<1>. QED
    BY <1>1, StoreInvariant, PTL

-----------------------------------------------------------------------------
(***************************************************************************)
(* What the committed tables say of each other.                            *)
(***************************************************************************)

\* The latest event of a record has its latest version.
LatestVersion ==
    \A r \in Records : \A j \in DOMAIN audit_events :
        LatestBelow(Len(audit_events) + 1, r, j)
            => audit_events[j].version = LastVersion(audit_events, r)

HistoryInv ==
    /\ StateMatchesAudit
    /\ AuditChain
    /\ OutboxMirrorsAudit
    /\ HonestAnswers
    /\ LatestVersion

\* The audit table after a mutation, element by element.
LEMMA MutatedAudit ==
    ASSUME StoreInv, NEW q \in Requests, Mutates(q)
    PROVE  /\ Len(audit_events) \in Nat
           /\ DOMAIN audit_events = 1..Len(audit_events)
           /\ Len(audit_events') = Len(audit_events) + 1
           /\ DOMAIN audit_events' = 1..(Len(audit_events) + 1)
           /\ \A i \in 1..Len(audit_events) : audit_events'[i] = audit_events[i]
           /\ audit_events'[Len(audit_events) + 1] = EventOf(q)
           /\ EventOf(q).rec = mutation[q].rec
           /\ EventOf(q).event_id = q
           /\ EventOf(q).after = mutation[q].after
           /\ EventOf(q).before = kv_entries[mutation[q].rec]
           /\ EventOf(q).version = LastVersion(audit_events, mutation[q].rec) + 1
           /\ EventOf(q).action = ActionOf(EventOf(q).before, EventOf(q).after)
           /\ mutation[q].rec \in Records
           /\ kv_entries' = [kv_entries EXCEPT ![mutation[q].rec] = mutation[q].after]
           /\ \A r \in Records :
                LastVersion(audit_events', r) =
                    IF r = mutation[q].rec THEN EventOf(q).version
                    ELSE LastVersion(audit_events, r)
<1>. USE DEF StoreInv
<1>1. /\ audit_events \in Seq(Events) /\ EventOf(q) \in Events
      /\ mutation[q].rec \in Records
      /\ audit_events' = Append(audit_events, EventOf(q))
    BY EventOfType DEF TypeOK, Mutates, NewAudit
<1>2. /\ EventOf(q).rec = mutation[q].rec
      /\ EventOf(q).event_id = q
      /\ EventOf(q).after = mutation[q].after
      /\ EventOf(q).before = kv_entries[mutation[q].rec]
      /\ EventOf(q).version = LastVersion(audit_events, mutation[q].rec) + 1
      /\ EventOf(q).action = ActionOf(EventOf(q).before, EventOf(q).after)
    BY DEF EventOf, NewEvent, NextVersion
<1>3. \A r \in Records :
        LastVersion(audit_events', r) =
            IF r = mutation[q].rec THEN EventOf(q).version
            ELSE LastVersion(audit_events, r)
    BY <1>1, <1>2, AppendVersion
<1>4. kv_entries' = [kv_entries EXCEPT ![mutation[q].rec] = mutation[q].after]
    BY DEF Mutates, NewEntries
<1>5. /\ Len(audit_events) \in Nat
      /\ DOMAIN audit_events = 1..Len(audit_events)
    BY <1>1, LenProperties
<1>6. /\ audit_events' \in Seq(Events)
      /\ Len(audit_events') = Len(audit_events) + 1
      /\ \A i \in 1..Len(audit_events) : audit_events'[i] = audit_events[i]
      /\ audit_events'[Len(audit_events) + 1] = EventOf(q)
    BY <1>1, AppendProperties
<1>7. DOMAIN audit_events' = 1..(Len(audit_events) + 1)
    BY <1>6, LenProperties
<1>. QED
    BY <1>1, <1>2, <1>3, <1>4, <1>5, <1>6, <1>7

\* The empty tables agree with each other and with requests that are all new.
LEMMA HistoryInit == Init => HistoryInv
<1>. SUFFICES ASSUME Init PROVE HistoryInv
    OBVIOUS
<1>1. audit_events = <<>> /\ outbox_events = <<>> /\ DOMAIN audit_events = {}
    BY DEF Init
<1>. QED
    BY <1>1 DEF Init, HistoryInv, StateMatchesAudit, AuditChain, OutboxMirrorsAudit,
                HonestAnswers, LatestVersion

\* A record without events has version 0.
LEMMA NoEventsNoVersion ==
    ASSUME NEW audit \in Seq(Events), NEW r \in Records,
           \A i \in DOMAIN audit : audit[i].rec # r
    PROVE  LastVersion(audit, r) = 0
<1>1. Versions(audit, r) = {0}
    BY DEF Versions
<1>2. 0 \in Versions(audit, r) /\ \A n \in Versions(audit, r) : 0 >= n
    BY <1>1
<1>. QED
    BY <1>2, LastVersionUnique

\* A mutation keeps every record equal to what its latest event wrote.
LEMMA StateStep ==
    ASSUME StoreInv, StateMatchesAudit, NEW q \in Requests, Mutates(q)
    PROVE  StateMatchesAudit'
<1>0. PICK N \in Nat : N = Len(audit_events)
    BY LenProperties DEF StoreInv, TypeOK
<1>1. SUFFICES ASSUME NEW r \in Records
               PROVE  \/ /\ \A i \in DOMAIN audit_events' : audit_events'[i].rec # r
                         /\ kv_entries'[r] = NoValue
                      \/ \E j \in DOMAIN audit_events' :
                           /\ LatestBelow(Len(audit_events) + 1, r, j)'
                           /\ kv_entries'[r] = audit_events'[j].after
    BY DEF StateMatchesAudit
<1>2. /\ Len(audit_events') = N + 1
      /\ DOMAIN audit_events = 1..N
      /\ DOMAIN audit_events' = 1..(N + 1)
      /\ \A i \in 1..N : audit_events'[i] = audit_events[i]
      /\ audit_events'[N + 1] = EventOf(q)
      /\ EventOf(q).rec = mutation[q].rec
      /\ EventOf(q).after = mutation[q].after
      /\ kv_entries' = [kv_entries EXCEPT ![mutation[q].rec] = mutation[q].after]
    BY <1>0, MutatedAudit
<1>3. CASE r = mutation[q].rec
    <2>1. kv_entries'[r] = audit_events'[N + 1].after
        BY <1>2, <1>3 DEF StoreInv, TypeOK
    <2>2. LatestBelow(Len(audit_events) + 1, r, N + 1)'
        BY <1>0, <1>2, <1>3 DEF LatestBelow
    <2>. QED
        BY <1>0, <1>2, <2>1, <2>2
<1>4. CASE r # mutation[q].rec
    <2>1. kv_entries'[r] = kv_entries[r]
        BY <1>2, <1>4 DEF StoreInv, TypeOK
    <2>2. CASE (\A i \in DOMAIN audit_events : audit_events[i].rec # r) /\ kv_entries[r] = NoValue
        BY <1>2, <1>4, <2>1, <2>2
    <2>3. CASE \E j \in DOMAIN audit_events :
                 /\ LatestBelow(Len(audit_events) + 1, r, j)
                 /\ kv_entries[r] = audit_events[j].after
        <3>1. PICK j \in 1..N : /\ LatestBelow(N + 1, r, j)
                                /\ kv_entries[r] = audit_events[j].after
            BY <1>0, <1>2, <2>3
        <3>2. LatestBelow(Len(audit_events) + 1, r, j)'
            BY <1>0, <1>2, <1>4, <3>1, SMTT(30) DEF LatestBelow
        <3>. QED
            BY <1>2, <2>1, <3>1, <3>2
    <2>. QED
        BY <2>2, <2>3 DEF StateMatchesAudit
<1>. QED
    BY <1>3, <1>4

\* A mutation extends the chain of its record and leaves the others alone.
LEMMA ChainStep ==
    ASSUME StoreInv, StateMatchesAudit, AuditChain, LatestVersion,
           NEW q \in Requests, Mutates(q)
    PROVE  AuditChain'
<1> DEFINE N == Len(audit_events)
           ev == EventOf(q)
           Linked(audit, i) ==
               \/ /\ \A j \in 1..(i - 1) : audit[j].rec # audit[i].rec
                  /\ audit[i].version = 1
                  /\ audit[i].before = NoValue
               \/ \E j \in 1..(i - 1) :
                    /\ audit[j].rec = audit[i].rec
                    /\ \A k \in (j + 1)..(i - 1) : audit[k].rec # audit[i].rec
                    /\ audit[i].version = audit[j].version + 1
                    /\ audit[i].before = audit[j].after
           Good(e) == /\ e.action = ActionOf(e.before, e.after)
                      /\ ~ (e.before = NoValue /\ e.after = NoValue)
<1>1. /\ N \in Nat
      /\ Len(audit_events') = N + 1
      /\ DOMAIN audit_events = 1..N
      /\ DOMAIN audit_events' = 1..(N + 1)
      /\ \A i \in 1..N : audit_events'[i] = audit_events[i]
      /\ audit_events'[N + 1] = ev
      /\ ev.rec = mutation[q].rec
      /\ ev.after = mutation[q].after
      /\ ev.before = kv_entries[mutation[q].rec]
      /\ ev.version = LastVersion(audit_events, mutation[q].rec) + 1
      /\ ev.action = ActionOf(ev.before, ev.after)
      /\ mutation[q].rec \in Records
    BY MutatedAudit
<1>2. \A i \in 1..N : Good(audit_events[i]) /\ Linked(audit_events, i)
    BY <1>1, SMTT(30) DEF AuditChain, LatestBelow
<1>3. ASSUME NEW i \in 1..N
      PROVE  Good(audit_events'[i]) /\ Linked(audit_events', i)
    <2>1. \A j \in 1..(i - 1) : audit_events'[j] = audit_events[j]
        BY <1>1
    <2>2. audit_events'[i] = audit_events[i]
        BY <1>1
    <2>. QED
        BY <1>1, <1>2, <2>1, <2>2
<1>4. Good(ev)
    BY <1>1 DEF Mutates, Allowed
<1>5. Linked(audit_events', N + 1)
    <2>1. CASE /\ \A i \in DOMAIN audit_events : audit_events[i].rec # ev.rec
               /\ kv_entries[ev.rec] = NoValue
        <3>1. LastVersion(audit_events, ev.rec) = 0
            BY <1>1, <2>1, NoEventsNoVersion DEF StoreInv, TypeOK
        <3>2. ev.version = 1
            BY <1>1, <3>1
        <3>. QED
            BY <1>1, <2>1, <3>2
    <2>2. CASE \E j \in DOMAIN audit_events :
                 /\ LatestBelow(Len(audit_events) + 1, ev.rec, j)
                 /\ kv_entries[ev.rec] = audit_events[j].after
        <3>1. PICK j \in 1..N : /\ LatestBelow(N + 1, ev.rec, j)
                                /\ kv_entries[ev.rec] = audit_events[j].after
            BY <1>1, <2>2
        <3>2. ev.version = audit_events[j].version + 1
            BY <1>1, <3>1 DEF LatestVersion
        <3>3. /\ audit_events'[j].rec = ev.rec
              /\ \A k \in (j + 1)..N : audit_events'[k].rec # ev.rec
            BY <1>1, <3>1 DEF LatestBelow
        <3>. QED
            BY <1>1, <3>1, <3>2, <3>3
    <2>. QED
        BY <1>1, <2>1, <2>2 DEF StateMatchesAudit
<1>6. \A i \in DOMAIN audit_events' : Good(audit_events'[i]) /\ Linked(audit_events', i)
    <2>. SUFFICES ASSUME NEW i \in 1..(N + 1)
                  PROVE  Good(audit_events'[i]) /\ Linked(audit_events', i)
        BY <1>1
    <2>1. CASE i \in 1..N
        BY <1>3, <2>1
    <2>2. CASE i = N + 1
        BY <1>1, <1>4, <1>5, <2>2
    <2>. QED
        BY <1>1, <2>1, <2>2
<1>. QED
    BY <1>1, <1>6 DEF AuditChain, LatestBelow

\* After a mutation the version of every record is still that of its latest event.
LEMMA LatestStep ==
    ASSUME StoreInv, LatestVersion, NEW q \in Requests, Mutates(q)
    PROVE  LatestVersion'
<1> DEFINE N == Len(audit_events)
<1>1. SUFFICES ASSUME NEW r \in Records, NEW j \in DOMAIN audit_events',
                      LatestBelow(Len(audit_events) + 1, r, j)'
               PROVE  audit_events'[j].version = LastVersion(audit_events', r)
    BY DEF LatestVersion
<1>2. /\ N \in Nat
      /\ Len(audit_events') = N + 1
      /\ DOMAIN audit_events = 1..N
      /\ DOMAIN audit_events' = 1..(N + 1)
      /\ \A i \in 1..N : audit_events'[i] = audit_events[i]
      /\ audit_events'[N + 1] = EventOf(q)
      /\ EventOf(q).rec = mutation[q].rec
      /\ LastVersion(audit_events', r) =
             IF r = mutation[q].rec THEN EventOf(q).version
             ELSE LastVersion(audit_events, r)
    BY MutatedAudit
<1>3. CASE r = mutation[q].rec
    <2>1. j = N + 1
        BY <1>1, <1>2, <1>3 DEF LatestBelow
    <2>. QED
        BY <1>2, <1>3, <2>1
<1>4. CASE r # mutation[q].rec
    <2>1. j \in 1..N /\ LatestBelow(N + 1, r, j)
        BY <1>1, <1>2, <1>4 DEF LatestBelow
    <2>. QED
        BY <1>2, <1>4, <2>1 DEF LatestVersion
<1>. QED
    BY <1>3, <1>4

\* A mutation appends the envelope of its event to the outbox.
LEMMA OutboxStep ==
    ASSUME StoreInv, OutboxMirrorsAudit, NEW q \in Requests, Mutates(q)
    PROVE  OutboxMirrorsAudit'
<1> DEFINE N == Len(audit_events)
<1>1. /\ N \in Nat
      /\ Len(audit_events') = N + 1
      /\ DOMAIN audit_events = 1..N
      /\ DOMAIN audit_events' = 1..(N + 1)
      /\ \A i \in 1..N : audit_events'[i] = audit_events[i]
      /\ audit_events'[N + 1] = EventOf(q)
    BY MutatedAudit
<1>2. /\ outbox_events \in Seq(Envelopes)
      /\ EnvelopeOf(EventOf(q)) \in Envelopes
      /\ outbox_events' = Append(outbox_events, EnvelopeOf(EventOf(q)))
    BY EventOfType DEF StoreInv, TypeOK, Mutates, NewOutbox
<1>3. /\ Len(outbox_events) = N
      /\ Len(outbox_events') = N + 1
      /\ \A i \in 1..N : outbox_events'[i] = outbox_events[i]
      /\ outbox_events'[N + 1] = EnvelopeOf(EventOf(q))
    BY <1>2, AppendProperties DEF OutboxMirrorsAudit
<1>. QED
    BY <1>1, <1>3 DEF OutboxMirrorsAudit

\* A mutation is committed together with the status of its request.
LEMMA AnswersStep ==
    ASSUME StoreInv, HonestAnswers, UNCHANGED mutation, NEW q \in Requests, Mutates(q),
           status[q] = "waiting", status' = [status EXCEPT ![q] = "written"]
    PROVE  HonestAnswers'
<1> DEFINE N == Len(audit_events)
           Logged(audit, p) == {i \in DOMAIN audit : audit[i].event_id = p}
<1>1. /\ N \in Nat
      /\ DOMAIN audit_events = 1..N
      /\ DOMAIN audit_events' = 1..(N + 1)
      /\ \A i \in 1..N : audit_events'[i] = audit_events[i]
      /\ audit_events'[N + 1] = EventOf(q)
      /\ EventOf(q).event_id = q
      /\ EventOf(q).rec = mutation[q].rec
      /\ EventOf(q).after = mutation[q].after
    BY MutatedAudit
<1>2. status'[q] = "written" /\ \A p \in Requests : p # q => status'[p] = status[p]
    BY DEF StoreInv, TypeOK
<1>3. Logged(audit_events, q) = {}
    BY DEF HonestAnswers
<1>4. Logged(audit_events', q) = {N + 1}
    BY <1>1, <1>3
<1>5. ASSUME NEW p \in Requests, p # q
      PROVE  Logged(audit_events', p) = Logged(audit_events, p)
    BY <1>1, <1>5
<1>6. SUFFICES ASSUME NEW p \in Requests
               PROVE  /\ status'[p] \in {"written", "ok"} =>
                            \E i \in DOMAIN audit_events' :
                                /\ Logged(audit_events', p) = {i}
                                /\ audit_events'[i].rec = mutation'[p].rec
                                /\ audit_events'[i].after = mutation'[p].after
                      /\ status'[p] \in {"new", "waiting", "unchanged", "absent", "failed"}
                            => Logged(audit_events', p) = {}
    BY DEF HonestAnswers
<1>7. CASE p = q
    BY <1>1, <1>2, <1>4, <1>7
<1>8. CASE p # q
    <2>1. status[p] \in {"written", "ok"} =>
             \E i \in DOMAIN audit_events :
                 /\ Logged(audit_events, p) = {i}
                 /\ audit_events[i].rec = mutation[p].rec
                 /\ audit_events[i].after = mutation[p].after
        BY DEF HonestAnswers
    <2>2. status[p] \in {"new", "waiting", "unchanged", "absent", "failed"}
            => Logged(audit_events, p) = {}
        BY DEF HonestAnswers
    <2>. QED
        BY <1>1, <1>2, <1>5, <1>8, <2>1, <2>2
<1>. QED
    BY <1>7, <1>8

\* A step that commits nothing only moves requests to a status that agrees with the
\* unchanged trail.
LEMMA QuietAnswersStep ==
    ASSUME HonestAnswers, UNCHANGED mutation, UNCHANGED tables,
           \A q \in Requests : QuietMove(q)
    PROVE  HonestAnswers'
    BY DEF HonestAnswers, QuietMove, tables

\* Every step preserves the invariant of the committed tables.
LEMMA HistoryStep ==
    ASSUME StoreInv, HistoryInv, [Next]_vars
    PROVE  HistoryInv'
<1>1. CASE UNCHANGED tables /\ \A q \in Requests : QuietMove(q)
    <2>1. HonestAnswers'
        BY <1>1, TablesStep, QuietAnswersStep DEF HistoryInv
    <2>2. (StateMatchesAudit /\ AuditChain /\ OutboxMirrorsAudit /\ LatestVersion)'
        BY <1>1 DEF HistoryInv, StateMatchesAudit, AuditChain, OutboxMirrorsAudit,
                    LatestVersion, LatestBelow, tables
    <2>. QED
        BY <2>1, <2>2 DEF HistoryInv
<1>2. ASSUME NEW q \in Requests, Mutates(q), status[q] = "waiting",
             status' = [status EXCEPT ![q] = "written"]
      PROVE  HistoryInv'
    BY <1>2, TablesStep, StateStep, ChainStep, LatestStep, OutboxStep, AnswersStep
       DEF HistoryInv
<1>. QED
    BY <1>1, <1>2, TablesStep

\* In every behaviour of the store, the committed tables agree with each other
\* and with what the callers were told.
THEOREM HistoryInvariant == Spec => []HistoryInv
<1>1. Init => HistoryInv
    BY HistoryInit
<1>2. StoreInv /\ HistoryInv /\ [Next]_vars => HistoryInv'
    BY HistoryStep
<1>. QED
    BY <1>1, <1>2, StoreInvariant, PTL DEF Spec

\* The committed value of a record is what its latest audit event wrote, in
\* every behaviour: no failure or crash separates a row from its event.
THEOREM StateAlwaysMatchesAudit == Spec => []StateMatchesAudit
<1>1. HistoryInv => StateMatchesAudit
    BY DEF HistoryInv
<1>. QED
    BY <1>1, HistoryInvariant, PTL

\* The events of every record form a chain of consecutive versions in which
\* each event replaces what its predecessor wrote: no mutation is lost.
THEOREM AuditAlwaysChained == Spec => []AuditChain
<1>1. HistoryInv => AuditChain
    BY DEF HistoryInv
<1>. QED
    BY <1>1, HistoryInvariant, PTL

\* The outbox always holds the envelopes of the audit trail, in its order.
THEOREM OutboxAlwaysMirrorsAudit == Spec => []OutboxMirrorsAudit
<1>1. HistoryInv => OutboxMirrorsAudit
    BY DEF HistoryInv
<1>. QED
    BY <1>1, HistoryInvariant, PTL

\* The three tables of the store agree in every committed state.
THEOREM TablesAlwaysAgree == Spec => []TablesAgree
<1>1. HistoryInv => TablesAgree
    BY DEF HistoryInv, TablesAgree
<1>. QED
    BY <1>1, HistoryInvariant, PTL

\* What a caller is told of its mutation always agrees with the audit trail.
THEOREM AnswersAlwaysHonest == Spec => []HonestAnswers
<1>1. HistoryInv => HonestAnswers
    BY DEF HistoryInv
<1>. QED
    BY <1>1, HistoryInvariant, PTL

-----------------------------------------------------------------------------
(***************************************************************************)
(* The store implements the record log.                                    *)
(***************************************************************************)

\* The initial state of the store is one of the log.
LEMMA LogInit == Init => Log!Init
<1>. SUFFICES ASSUME Init PROVE Log!Init
    OBVIOUS
<1>1. audit_events = <<>> /\ audit_events \in Seq(Events) /\ DOMAIN audit_events = {}
    BY EmptySeq DEF Init
<1>2. \A r \in Records : LastVersion(audit_events, r) = 0
    BY <1>1, NoEventsNoVersion
<1>. QED
    BY <1>1, <1>2 DEF Init, Log!Init

\* Committing the mutation of a request is the mutation of the log, with the
\* request as the id of the event.
LEMMA LogMutate ==
    ASSUME StoreInv, HistoryInv, NEW q \in Requests, Mutates(q), status[q] = "waiting"
    PROVE  Log!Mutate(q, mutation[q].rec, mutation[q].after)
<1> DEFINE r == mutation[q].rec
           v == [s \in Records |-> LastVersion(audit_events, s)]
<1>1. r \in Records /\ mutation[q].after \in Images
    BY EventOfType DEF StoreInv
<1>2. \A i \in DOMAIN audit_events : audit_events[i].event_id # q
    BY DEF HistoryInv, HonestAnswers
<1>3. EventOf(q) = Log!NewEvent(q, r, v[r] + 1, kv_entries[r], mutation[q].after)
    BY <1>1 DEF EventOf, NewEvent, NextVersion, ActionOf, Log!NewEvent, Log!ActionOf
<1>4. EnvelopeOf(EventOf(q)) = Log!EnvelopeOf(EventOf(q))
    BY DEF EnvelopeOf, Log!EnvelopeOf
<1>5. [s \in Records |-> LastVersion(audit_events', s)] = [v EXCEPT ![r] = @ + 1]
    BY <1>1, MutatedAudit
<1>. QED
    BY <1>1, <1>2, <1>3, <1>4, <1>5
       DEF Log!Mutate, Mutates, Allowed, NewEntries, NewAudit, NewOutbox

\* Every step of the store is a mutation of the log or a stutter.
LEMMA LogStep ==
    ASSUME StoreInv, HistoryInv, [Next]_vars
    PROVE  [Log!Next]_(Log!vars)
<1>1. CASE UNCHANGED tables
    BY <1>1 DEF tables, Log!vars
<1>2. ASSUME NEW q \in Requests, Mutates(q), status[q] = "waiting"
      PROVE  Log!Next
    <2>1. Log!Mutate(q, mutation[q].rec, mutation[q].after)
        BY <1>2, LogMutate
    <2>2. mutation[q].rec \in Records /\ mutation[q].after \in Log!Images
        BY EventOfType DEF StoreInv, Images, Log!Images
    <2>. QED
        BY <2>1, <2>2 DEF Log!Next, Requests
<1>. QED
    BY <1>1, <1>2, TablesStep

\* The store implements the record log: for every set of records, documents and
\* requests, its committed tables change by whole mutations only.
THEOREM StoreImplementsLog == Spec => ImplementsRecordLog
<1>1. Init => Log!Init
    BY LogInit
<1>2. StoreInv /\ HistoryInv /\ [Next]_vars => [Log!Next]_(Log!vars)
    BY LogStep
<1>. QED
    BY <1>1, <1>2, StoreInvariant, HistoryInvariant, PTL
       DEF Spec, ImplementsRecordLog, Log!Spec

-----------------------------------------------------------------------------
(***************************************************************************)
(* Why every call is answered: nobody waits for a call that cannot go on,  *)
(* and no step puts a call back. What EveryRequestAnswered needs besides   *)
(* is that a call that can go on does.                                     *)
(***************************************************************************)

\* The call has a statement, a COMMIT or its answer to do.
CanGoOn(q) ==
    \/ status[q] \in {"written", "unchanged"}
    \/ status[q] = "waiting" /\ writer = NoRequest
    \/ writer = q /\ tx.step = "begun" /\ Allowed(q)
    \/ /\ writer = q /\ tx.step = "begun"
       /\ mutation[q].after = NoValue /\ tx.kv[mutation[q].rec] = NoValue
    \/ writer = q /\ tx.step \in {"row", "audit", "done"}

\* A call that waits for the writer connection waits for one that can go on itself:
\* the connection is never lost, and its holder is never stuck.
NobodyWaitsForever ==
    \A q \in Requests :
        status[q] \in {"waiting", "written", "unchanged"} =>
            \/ CanGoOn(q)
            \/ writer \in Requests /\ status[writer] = "waiting" /\ CanGoOn(writer)

\* The steps a call has left, at most.
CallLeft(q) ==
    CASE status[q] = "new" -> 7
      [] status[q] = "waiting" /\ writer # q -> 6
      [] status[q] = "waiting" /\ writer = q /\ tx.step = "begun" -> 5
      [] status[q] = "waiting" /\ writer = q /\ tx.step = "row" -> 4
      [] status[q] = "waiting" /\ writer = q /\ tx.step = "audit" -> 3
      [] status[q] = "waiting" /\ writer = q /\ tx.step = "done" -> 2
      [] status[q] \in {"written", "unchanged"} -> 1
      [] OTHER -> 0

\* Each step of a call leaves it less to do, and no step of another, no failure and no
\* crash gives it more: a call has the connection at most once.
Advance ==
    \A q \in Requests :
        /\ CallLeft(q)' <= CallLeft(q)
        /\ Step(q) => CallLeft(q)' < CallLeft(q)

CallsOnlyAdvance == [][Advance]_vars

\* The holder of the connection can go on.
LEMMA HolderGoesOn ==
    ASSUME StoreInv, writer # NoRequest
    PROVE  writer \in Requests /\ status[writer] = "waiting" /\ CanGoOn(writer)
<1>1. writer \in Requests /\ status[writer] = "waiting"
    BY DEF StoreInv, TypeOK, TxOK
<1>2. tx.step \in {"begun", "row", "audit", "done"}
    BY DEF StoreInv, TxOK
<1>3. tx.step = "begun" => tx.kv = kv_entries
    BY DEF StoreInv, TxOK
<1>. QED
    BY <1>1, <1>2, <1>3 DEF CanGoOn, Allowed

\* The wait for the only writer connection is never a wait for a call that is stuck,
\* for any number of calls, failures and crashes.
THEOREM ConnectionComesBack == Spec => []NobodyWaitsForever
<1>1. StoreInv => NobodyWaitsForever
    <2>. SUFFICES ASSUME StoreInv, NEW q \in Requests,
                         status[q] \in {"waiting", "written", "unchanged"}, writer # NoRequest
                  PROVE  \/ CanGoOn(q)
                         \/ writer \in Requests /\ status[writer] = "waiting" /\ CanGoOn(writer)
        BY DEF NobodyWaitsForever, CanGoOn
    <2>. QED
        BY HolderGoesOn
<1>. QED
    BY <1>1, StoreInvariant, PTL

\* What a call has left, case by case.
LEMMA CallLeftIs ==
    ASSUME NEW q \in Requests, StoreInv
    PROVE  /\ status[q] = "new" => CallLeft(q) = 7
           /\ status[q] = "waiting" /\ writer # q => CallLeft(q) = 6
           /\ status[q] = "waiting" /\ writer = q /\ tx.step = "begun" => CallLeft(q) = 5
           /\ status[q] = "waiting" /\ writer = q /\ tx.step = "row" => CallLeft(q) = 4
           /\ status[q] = "waiting" /\ writer = q /\ tx.step = "audit" => CallLeft(q) = 3
           /\ status[q] = "waiting" /\ writer = q /\ tx.step = "done" => CallLeft(q) = 2
           /\ status[q] \in {"written", "unchanged"} => CallLeft(q) = 1
           /\ status[q] \in Answers => CallLeft(q) = 0
           /\ CallLeft(q) \in 0..7
<1>1. status[q] \in Statuses
    BY DEF StoreInv, TypeOK
<1>2. writer = q => tx.step \in {"begun", "row", "audit", "done"}
    BY NoRequestAssumption DEF StoreInv, TxOK, Requests
<1>. QED
    BY <1>1, <1>2 DEF CallLeft, Statuses, Answers

\* A step of a call.
LEMMA StepAdvances ==
    ASSUME StoreInv, NEW q \in Requests, Step(q)
    PROVE  CallLeft(q)' < CallLeft(q)
<1>. DEFINE now == CallLeft(q)
            then == CallLeft(q)'
<1>. SUFFICES then < now
    OBVIOUS
<1>0. status[q] \in Statuses /\ tx \in Transactions /\ status \in [Requests -> Statuses]
    BY DEF StoreInv, TypeOK
<1>1. writer = q => q # NoRequest /\ status[q] = "waiting"
    BY NoRequestAssumption DEF StoreInv, TxOK, Requests
<1>2. CASE BeginTx(q)
    <2>1. /\ status[q] = "waiting" /\ writer # q
          /\ status' = status /\ writer' = q /\ tx'.step = "begun"
        BY <1>2, NoRequestAssumption DEF BeginTx, Snapshot, Requests
    <2>2. now = 6 /\ then = 5
        BY <2>1 DEF CallLeft
    <2>. QED
        BY <2>2
<1>3. CASE WriteRow(q)
    <2>1. /\ writer = q /\ tx.step = "begun" /\ tx'.step = "row"
          /\ UNCHANGED <<status, writer>>
        BY <1>0, <1>3 DEF WriteRow, Transactions
    <2>2. now = 5 /\ then = 4
        BY <1>1, <2>1 DEF CallLeft
    <2>. QED
        BY <2>2
<1>4. CASE DeleteAbsent(q)
    <2>1. /\ writer = q /\ tx.step = "begun" /\ tx'.step = "done"
          /\ UNCHANGED <<status, writer>>
        BY <1>0, <1>4 DEF DeleteAbsent, Transactions
    <2>2. now = 5 /\ then = 2
        BY <1>1, <2>1 DEF CallLeft
    <2>. QED
        BY <2>2
<1>5. CASE InsertAudit(q)
    <2>1. /\ writer = q /\ tx.step = "row" /\ tx'.step = "audit"
          /\ UNCHANGED <<status, writer>>
        BY <1>0, <1>5 DEF InsertAudit, Transactions
    <2>2. now = 4 /\ then = 3
        BY <1>1, <2>1 DEF CallLeft
    <2>. QED
        BY <2>2
<1>6. CASE InsertOutbox(q)
    <2>1. /\ writer = q /\ tx.step = "audit" /\ tx'.step = "done"
          /\ UNCHANGED <<status, writer>>
        BY <1>0, <1>6 DEF InsertOutbox, Transactions
    <2>2. now = 3 /\ then = 2
        BY <1>1, <2>1 DEF CallLeft
    <2>. QED
        BY <2>2
<1>7. CASE Commit(q)
    <2>1. writer = q /\ tx.step = "done" /\ status'[q] \in {"written", "unchanged"}
        BY <1>0, <1>7 DEF Commit
    <2>2. now = 2
        BY <1>1, <2>1 DEF CallLeft
    <2>3. then = 1
        BY <2>1 DEF CallLeft
    <2>. QED
        BY <2>2, <2>3
<1>8. CASE Respond(q)
    <2>1. status[q] \in {"written", "unchanged"} /\ status'[q] \in {"ok", "absent"}
        BY <1>0, <1>8 DEF Respond
    <2>2. now = 1
        BY <2>1 DEF CallLeft
    <2>3. then = 0
        BY <2>1 DEF CallLeft
    <2>. QED
        BY <2>2, <2>3
<1>. QED
    BY <1>2, <1>3, <1>4, <1>5, <1>6, <1>7, <1>8 DEF Step

\* What a call can see of another: the connection that comes and goes.
LEMMA NotPutBack ==
    ASSUME StoreInv, NEW q \in Requests, status'[q] = status[q],
           \/ UNCHANGED <<writer, tx>>
           \/ writer # q /\ writer' # q
    PROVE  CallLeft(q)' <= CallLeft(q)
<1>1. CallLeft(q) \in 0..7
    BY CallLeftIs
<1>2. CallLeft(q)' = CallLeft(q)
    BY DEF CallLeft
<1>. DEFINE now == CallLeft(q)
            then == CallLeft(q)'
<1>3. now \in 0..7 /\ then = now => then <= now
    <2>. HIDE DEF now, then
    <2>. QED
        OBVIOUS
<1>. QED
    BY <1>1, <1>2, <1>3

\* The steps of the other calls, failures and crashes.
LEMMA AdvanceStep ==
    ASSUME StoreInv, [Next]_vars, NEW q \in Requests
    PROVE  CallLeft(q)' <= CallLeft(q)
<1>. DEFINE now == CallLeft(q)
            then == CallLeft(q)'
<1>. SUFFICES then <= now
    OBVIOUS
<1>0. status \in [Requests -> Statuses] /\ now \in 0..7 /\ q # NoRequest
    BY CallLeftIs, NoRequestAssumption DEF StoreInv, TypeOK, Requests
<1>1. ASSUME then = 0 PROVE then <= now
    <2>. HIDE DEF now, then
    <2>. QED
        BY <1>0, <1>1
<1>2. ASSUME NEW p \in Requests, p # q, Submit(p) \/ Step(p) \/ Fail(p) \/ LoseResponse(p)
      PROVE  then <= now
    <2>1. status'[q] = status[q]
        BY <1>0, <1>2 DEF Step, Submit, BeginTx, WriteRow, DeleteAbsent, InsertAudit,
                          InsertOutbox, Commit, Respond, Fail, LoseResponse
    <2>2. \/ UNCHANGED <<writer, tx>>
          \/ writer # q /\ writer' # q
        BY <1>0, <1>2 DEF Step, Submit, BeginTx, WriteRow, DeleteAbsent, InsertAudit,
                          InsertOutbox, Commit, Respond, Fail, LoseResponse
    <2>. QED
        BY <2>1, <2>2, NotPutBack
<1>3. CASE Submit(q)
    <2>1. /\ status[q] = "new" /\ status'[q] = "waiting" /\ writer' = writer
          /\ writer # q
        BY <1>0, <1>3 DEF Submit, StoreInv, TxOK
    <2>2. now = 7 /\ then = 6
        BY <2>1 DEF CallLeft
    <2>. QED
        BY <2>2
<1>4. CASE Step(q)
    <2>1. then < now
        BY <1>4, StepAdvances
    <2>2. then < now /\ now \in 0..7 /\ then \in {0, 1, 2, 3, 4, 5, 6, 7} => then <= now
        <3>. HIDE DEF now, then
        <3>. QED
            OBVIOUS
    <2>3. then \in {0, 1, 2, 3, 4, 5, 6, 7}
        BY DEF CallLeft
    <2>. QED
        BY <1>0, <2>1, <2>2, <2>3
<1>5. CASE Fail(q) \/ LoseResponse(q)
    <2>1. status'[q] \in {"failed", "lost"}
        BY <1>0, <1>5 DEF Fail, LoseResponse
    <2>2. then = 0
        BY <2>1 DEF CallLeft
    <2>. QED
        BY <1>1, <2>2
<1>6. CASE Crash
    <2>1. CASE status[q] \in {"waiting", "written", "unchanged"}
        <3>1. status'[q] = "lost"
            BY <1>6, <2>1 DEF Crash
        <3>2. then = 0
            BY <3>1 DEF CallLeft
        <3>. QED
            BY <1>1, <3>2
    <2>2. CASE status[q] \notin {"waiting", "written", "unchanged"}
        <3>1. status'[q] = status[q] /\ writer # q /\ writer' # q
            BY <1>0, <1>6, <2>2 DEF Crash, StoreInv, TxOK
        <3>. QED
            BY <3>1, NotPutBack
    <2>. QED
        BY <2>1, <2>2
<1>7. CASE UNCHANGED vars
    BY <1>7, NotPutBack DEF vars
<1>. QED
    BY <1>2, <1>3, <1>4, <1>5, <1>6, <1>7 DEF Next

\* No step of the store puts a call back, for any number of calls and faults.
THEOREM CallsAlwaysAdvance == Spec => CallsOnlyAdvance
<1>1. StoreInv /\ [Next]_vars => [Advance]_vars
    BY AdvanceStep, StepAdvances DEF Advance
<1>. QED
    BY <1>1, StoreInvariant, PTL DEF Spec, CallsOnlyAdvance

=============================================================================
