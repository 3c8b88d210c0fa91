------------------------ MODULE EventPipelineProofs ------------------------
(***************************************************************************)
(* Proofs about OutboxDispatcher, for every batch size, retry limit,       *)
(* number of rows, stamps of their events, course of the clock and number  *)
(* of faults, and about its composition with the record log and a consumer *)
(* (EventPipeline), for every set of records.                              *)
(***************************************************************************)
EXTENDS EventPipeline, SequenceTheorems, FiniteSetTheorems,
        WellFoundedInduction, TLAPS

-----------------------------------------------------------------------------
(***************************************************************************)
(* Numbers and sequences.                                                  *)
(***************************************************************************)

\* A nonempty set of natural numbers has a least element, and Min is it.
LEMMA MinIsLeast ==
    ASSUME NEW S \in SUBSET Nat, S # {}
    PROVE  Min(S) \in S /\ \A y \in S : Min(S) <= y
<1>. DEFINE Lt == {ss \in Nat \X Nat : ss[1] < ss[2]}
<1>1. IsWellFoundedOn(Lt, Nat)
    BY NatLessThanWellFounded DEF OpToRel
<1>2. \A x, y \in Nat : x <= y \/ <<y, x>> \in Lt
    OBVIOUS
<1>. HIDE DEF Lt
<1>3. PICK x \in S : \A y \in S : ~ (<<y, x>> \in Lt)
    BY <1>1, WFMin
<1>. QED
    BY <1>2, <1>3 DEF Min

\* A failed row waits for at least a second and at most five minutes.
LEMMA BackoffRange == \A a \in Nat : Backoff(a) \in 1..300
<1>1. SUFFICES ASSUME NEW a \in Nat
               PROVE  Backoff(a) \in 1..300
    OBVIOUS
<1>2. CASE a <= 1
    BY <1>2 DEF Backoff
<1>3. CASE a > 1
    <2>1. a * a \in Nat /\ a * a >= 1
        BY <1>3
    <2>2. Min({a * a, 300}) \in {a * a, 300} /\ Min({a * a, 300}) <= 300
        BY <2>1, MinIsLeast
    <2>. QED
        BY <1>3, <2>1, <2>2 DEF Backoff
<1>. QED
    BY <1>2, <1>3

\* A function on 1..n is a sequence of length n.
LEMMA SeqOfLength ==
    ASSUME NEW S, NEW n \in Nat, NEW f \in [1..n -> S]
    PROVE  f \in Seq(S) /\ Len(f) = n
<1>1. f \in Seq(S)
    BY SeqDef
<1>2. Len(f) \in Nat /\ 1..n = 1..Len(f)
    BY <1>1, LenProperties
<1>. QED
    BY <1>1, <1>2

-----------------------------------------------------------------------------
(***************************************************************************)
(* The inductive invariant.                                                *)
(***************************************************************************)

\* The rows of the batch are still pending, and what was read of them when they
\* were fetched is still what the table holds: no one else writes them.
BatchIsFresh ==
    \A i \in DOMAIN batch :
        rows[i].status = "pending" /\ batch[i] = rows[i].attempts

\* A successful call, and a row marked dispatched, are rows that arrived.
SuccessArrived ==
    /\ outcome = "ok" => Current \in Arrived
    /\ \A i \in Ids : rows[i].status = "dispatched" => i \in Arrived

\* A row is never due before its event was stamped, and a row that never failed is
\* due from that moment on. The time markFailure has read is not before it either.
StampsOrdered ==
    /\ \A i \in Ids :
          /\ rows[i].created_at <= clock
          /\ rows[i].created_at <= rows[i].next_attempt_at
          /\ rows[i].attempts = 0 => rows[i].next_attempt_at = rows[i].created_at
    /\ outcome = "error" => rows[Current].created_at <= now

\* Whatever comes before a row of the batch and is not in the batch itself has
\* arrived already, or has failed, or was stamped later.
NothingLeftBehind ==
    \A i \in DOMAIN batch : \A j \in 1..(i - 1) :
        \/ j \in DOMAIN batch \/ j \in Arrived
        \/ rows[j].attempts > 0 \/ rows[j].created_at > rows[i].created_at

IInv ==
    /\ TypeOK
    /\ AttemptsAccounted
    /\ BatchIsFresh
    /\ SuccessArrived
    /\ StampsOrdered
    /\ NothingLeftBehind
    /\ InOrderIfStampedInOrder

-----------------------------------------------------------------------------
(***************************************************************************)
(* What the actions do to the table, the batch and the arrivals.           *)
(***************************************************************************)

\* The table and the histories of its rows have the same domain.
LEMMA IdsAreNumbers ==
    ASSUME TypeOK
    PROVE  /\ Len(rows) \in Nat /\ Ids = 1..Len(rows)
           /\ DOMAIN calls = Ids /\ DOMAIN unrecorded = Ids
           /\ \A i \in Ids : rows[i] \in Row
           /\ \A i \in Ids : calls[i] \in Nat /\ unrecorded[i] \in Nat
<1>1. /\ rows \in Seq(Row) /\ calls \in Seq(Nat) /\ unrecorded \in Seq(Nat)
      /\ Len(calls) = Len(rows) /\ Len(unrecorded) = Len(rows)
    BY DEF TypeOK
<1>2. /\ Len(rows) \in Nat /\ DOMAIN rows = 1..Len(rows)
      /\ DOMAIN calls = 1..Len(rows) /\ DOMAIN unrecorded = 1..Len(rows)
    BY <1>1, LenProperties
<1>3. \A i \in 1..Len(rows) : rows[i] \in Row /\ calls[i] \in Nat /\ unrecorded[i] \in Nat
    BY <1>1, ElementOfSeq
<1>. QED
    BY <1>2, <1>3 DEF Ids

\* A nonempty batch has a first row.
LEMMA CurrentIsFirst ==
    ASSUME TypeOK, DOMAIN batch # {}
    PROVE  /\ Current \in DOMAIN batch /\ Current \in Ids
           /\ \A i \in DOMAIN batch : Current <= i
<1>1. DOMAIN batch \subseteq Ids
    BY DEF TypeOK
<1>2. DOMAIN batch \in SUBSET Nat
    BY <1>1, IdsAreNumbers
<1>. QED
    BY <1>1, <1>2, MinIsLeast DEF Current

\* While a result is recorded there is a first row.
LEMMA MarkHasCurrent ==
    ASSUME TypeOK, pc \in {"publish", "mark"}
    PROVE  Current \in DOMAIN batch /\ Current \in Ids
    BY CurrentIsFirst DEF TypeOK

\* A new row changes none of the others.
LEMMA EnqueueEffect ==
    ASSUME TypeOK, Enqueue
    PROVE  \E stamp \in 0..clock :
           /\ Ids' = Ids \cup {Len(rows) + 1} /\ Len(rows') = Len(rows) + 1
           /\ \A i \in Ids : /\ rows'[i] = rows[i] /\ calls'[i] = calls[i]
                             /\ unrecorded'[i] = unrecorded[i]
           /\ rows'[Len(rows) + 1] = NewRow(stamp)
           /\ calls' = Append(calls, 0)
           /\ calls'[Len(rows) + 1] = 0 /\ unrecorded'[Len(rows) + 1] = 0
           /\ rows' \in Seq(Row)
           /\ calls' \in Seq(Nat) /\ Len(calls') = Len(rows')
           /\ unrecorded' \in Seq(Nat) /\ Len(unrecorded') = Len(rows')
<1>1. /\ rows \in Seq(Row) /\ calls \in Seq(Nat) /\ unrecorded \in Seq(Nat)
      /\ clock \in Nat
    BY DEF TypeOK
<1>2. PICK stamp \in 0..clock : rows' = Append(rows, NewRow(stamp))
    BY DEF Enqueue
<1>3. NewRow(stamp) \in Row
    BY <1>1, ConstantsAssumption DEF NewRow, Row, Statuses
<1>4. /\ calls' = Append(calls, 0) /\ unrecorded' = Append(unrecorded, 0)
      /\ Len(calls) = Len(rows) /\ Len(unrecorded) = Len(rows)
    BY DEF Enqueue, TypeOK
<1>5. /\ rows' \in Seq(Row) /\ calls' \in Seq(Nat) /\ unrecorded' \in Seq(Nat)
      /\ Len(rows') = Len(rows) + 1 /\ Len(calls') = Len(rows) + 1
      /\ Len(unrecorded') = Len(rows) + 1
      /\ \A i \in 1..Len(rows) : /\ rows'[i] = rows[i] /\ calls'[i] = calls[i]
                                /\ unrecorded'[i] = unrecorded[i]
      /\ rows'[Len(rows) + 1] = NewRow(stamp)
      /\ calls'[Len(rows) + 1] = 0 /\ unrecorded'[Len(rows) + 1] = 0
    BY <1>1, <1>2, <1>3, <1>4, AppendProperties
<1>6. /\ Len(rows) \in Nat /\ Ids = 1..Len(rows)
      /\ DOMAIN rows' = 1..Len(rows')
    BY <1>5, IdsAreNumbers, LenProperties
<1>7. Ids' = 1..(Len(rows) + 1) /\ 1..(Len(rows) + 1) = 1..Len(rows) \cup {Len(rows) + 1}
    BY <1>5, <1>6 DEF Ids
<1>8. Ids' = Ids \cup {Len(rows) + 1} /\ Len(calls') = Len(rows') /\ Len(unrecorded') = Len(rows')
    BY <1>5, <1>6, <1>7
<1>. QED
    BY <1>4, <1>5, <1>6, <1>8
\* What a new row says: pending, not tried yet, due since it was stamped.
LEMMA NewRowIsFresh ==
    ASSUME NEW stamp
    PROVE  /\ NewRow(stamp).status = "pending" /\ NewRow(stamp).attempts = 0
           /\ NewRow(stamp).created_at = stamp
           /\ NewRow(stamp).next_attempt_at = stamp
    BY DEF NewRow

\* A delivered row is among those that arrived.
LEMMA PublishEffect ==
    ASSUME TypeOK, NEW result, NEW delivered \in BOOLEAN,
           PublishReturns(result, delivered)
    PROVE  /\ arrivals' \in Seq(Ids)
           /\ Arrived' = IF delivered THEN Arrived \cup {Current} ELSE Arrived
           /\ \A n \in DOMAIN arrivals : /\ n \in DOMAIN arrivals'
                                         /\ arrivals'[n] = arrivals[n]
           /\ \A n \in DOMAIN arrivals' \ DOMAIN arrivals :
                /\ arrivals'[n] = Current /\ Current \notin Arrived
                /\ \A m \in DOMAIN arrivals : m \in 1..n
<1>1. Current \in Ids
    BY MarkHasCurrent DEF PublishReturns
<1>2. arrivals \in Seq(Ids)
    BY DEF TypeOK
<1>3. CASE delivered /\ Current \notin Arrived
    <2>1. arrivals' = Append(arrivals, Current)
        BY <1>3 DEF PublishReturns
    <2>2. /\ arrivals' \in Seq(Ids) /\ Len(arrivals) \in Nat
          /\ DOMAIN arrivals = 1..Len(arrivals)
          /\ DOMAIN arrivals' = 1..(Len(arrivals) + 1)
          /\ arrivals'[Len(arrivals) + 1] = Current
          /\ \A n \in DOMAIN arrivals : arrivals'[n] = arrivals[n]
        BY <1>1, <1>2, <2>1, AppendProperties, LenProperties
    <2>. QED
        BY <1>3, <2>2 DEF Arrived
<1>4. CASE ~ (delivered /\ Current \notin Arrived)
    <2>1. arrivals' = arrivals
        BY <1>4 DEF PublishReturns
    <2>. QED
        BY <1>2, <1>4, <2>1 DEF Arrived
<1>. QED
    BY <1>3, <1>4

\* The row that is marked is the only one that changes ...
LEMMA MarkEffect ==
    ASSUME TypeOK, NEW row \in Row, pc = "mark",
           rows' = [rows EXCEPT ![Current] = row]
    PROVE  /\ rows' \in Seq(Row) /\ Len(rows') = Len(rows) /\ Ids' = Ids
           /\ Current \in Ids
           /\ rows'[Current] = row
           /\ \A i \in Ids \ {Current} : rows'[i] = rows[i]
<1>1. Current \in Ids /\ rows \in Seq(Row)
    BY MarkHasCurrent DEF TypeOK
<1>2. Ids = 1..Len(rows)
    BY IdsAreNumbers
<1>3. /\ rows' \in Seq(Row) /\ Len(rows') = Len(rows)
      /\ \A j \in 1..Len(rows) : rows'[j] = IF j = Current THEN row ELSE rows[j]
    BY <1>1, <1>2, ExceptSeq
<1>4. DOMAIN rows' = 1..Len(rows)
    BY <1>3, LenProperties
<1>. QED
    BY <1>1, <1>2, <1>3, <1>4 DEF Ids

\* ... and leaves the batch; its result is to be counted.
LEMMA RecordedEffect ==
    ASSUME TypeOK, pc = "mark", NEW counters, Recorded(counters)
    PROVE  /\ DOMAIN batch' = DOMAIN batch \ {Current}
           /\ \A i \in DOMAIN batch' : batch'[i] = batch[i]
           /\ pc' = "count" /\ outcome' = "none"
           /\ Arrived' = Arrived
<1>1. Current \in DOMAIN batch
    BY MarkHasCurrent
<1>. QED
    BY <1>1 DEF Recorded, history, Arrived

\* A due row before a fetched one is fetched too.
LEMMA FetchEffect ==
    ASSUME TypeOK, FetchPending
    PROVE  /\ DOMAIN batch' \subseteq Due
           /\ \A i \in DOMAIN batch' : batch'[i] = rows[i].attempts
           /\ \A i \in DOMAIN batch', j \in Due : j < i => j \in DOMAIN batch'
           /\ pc' = IF DOMAIN batch' = {} THEN "idle" ELSE "publish"
           /\ outcome' = "none" /\ UNCHANGED <<rows, arrivals>>
<1>. DEFINE Before(i) == {j \in Due : j < i}
            fetched == {i \in Due : Cardinality(Before(i)) < batchSize}
<1>1. /\ batch' = [i \in fetched |-> rows[i].attempts]
      /\ pc' = IF fetched = {} THEN "idle" ELSE "publish"
      /\ outcome' = "none" /\ UNCHANGED <<rows, arrivals>>
    BY DEF FetchPending, Fetch, TypeOK, history
<1>2. ASSUME NEW i \in fetched, NEW j \in Due, j < i
      PROVE  j \in fetched
    <2>1. i \in Nat /\ j \in Nat /\ Due \subseteq 1..Len(rows) /\ Len(rows) \in Nat
        BY IdsAreNumbers DEF Due
    <2>2. Before(j) \subseteq Before(i)
        <3>1. \A k \in Due : k \in Nat
            BY <2>1
        <3>2. \A k \in Nat : k < j => k < i
            BY <1>2, <2>1
        <3>. QED
            BY <3>1, <3>2
    <2>3. IsFiniteSet(Before(i))
        <3>1. IsFiniteSet(1..Len(rows))
            BY <2>1, FS_Interval
        <3>2. Before(i) \subseteq 1..Len(rows)
            BY <2>1
        <3>. HIDE DEF Before
        <3>. QED
            BY <3>1, <3>2, FS_Subset
    <2>4. /\ Cardinality(Before(j)) <= Cardinality(Before(i))
          /\ Cardinality(Before(j)) \in Nat /\ Cardinality(Before(i)) \in Nat
        BY <2>2, <2>3, FS_Subset, FS_CardinalityType
    <2>5. batchSize \in Nat
        BY ConstantsAssumption DEF TypeOK
    <2>. QED
        BY <1>2, <2>4, <2>5
<1>. QED
    BY <1>1, <1>2

-----------------------------------------------------------------------------
(***************************************************************************)
(* Types.                                                                  *)
(***************************************************************************)

\* A failed row is a row, with at least one attempt, and dead after the last. Its
\* stamp stays, and if it was stamped before now it is due after that.
LEMMA FailedRowIsRow ==
    ASSUME NEW row \in Row, row.status = "pending", NEW attempts \in 1..MaxRetry,
           now \in Nat
    PROVE  /\ FailedRow(row, attempts) \in Row
           /\ FailedRow(row, attempts).attempts = attempts
           /\ FailedRow(row, attempts).created_at = row.created_at
           /\ FailedRow(row, attempts).next_attempt_at \in {row.next_attempt_at} \cup {t \in Nat : now <= t}
           /\ FailedRow(row, attempts).status =
                IF attempts >= MaxRetry THEN "dead" ELSE "pending"
<1>1. Backoff(attempts) \in 1..300
    BY BackoffRange
<1>2. attempts \in 0..MaxRetry /\ attempts \in Nat /\ MaxRetry \in Nat
    BY ConstantsAssumption
<1>3. CASE attempts >= MaxRetry
    <2>1. FailedRow(row, attempts) = [row EXCEPT !.status = "dead", !.attempts = attempts]
        BY <1>3 DEF FailedRow
    <2>. QED
        BY <1>2, <1>3, <2>1, ZenonT(30) DEF Row, Statuses
<1>4. CASE ~ (attempts >= MaxRetry)
    <2>1. PICK next \in Nat :
            /\ now <= next
            /\ FailedRow(row, attempts) =
                 [row EXCEPT !.attempts = attempts, !.next_attempt_at = next]
        <3>1. now + Backoff(attempts) \in Nat /\ now <= now + Backoff(attempts)
            BY <1>1
        <3>2. FailedRow(row, attempts) =
                [row EXCEPT !.attempts = attempts, !.next_attempt_at = now + Backoff(attempts)]
            BY <1>4 DEF FailedRow
        <3>. QED
            BY <3>1, <3>2
    <2>2. FailedRow(row, attempts) \in Row
        <3>1. [row EXCEPT !.attempts = attempts] \in Row
            BY <1>2 DEF Row
        <3>2. \A r \in Row : [r EXCEPT !.next_attempt_at = next] \in Row
            BY DEF Row
        <3>. QED
            BY <2>1, <3>1, <3>2
    <2>3. /\ FailedRow(row, attempts).attempts = attempts
          /\ FailedRow(row, attempts).status = row.status
          /\ FailedRow(row, attempts).created_at = row.created_at
          /\ FailedRow(row, attempts).next_attempt_at = next
        BY <2>1 DEF Row
    <2>. QED
        BY <1>4, <2>1, <2>2, <2>3
<1>. QED
    BY <1>3, <1>4

\* The row MarkFailure writes, and the attempts it counts.
LEMMA MarkFailureEffect ==
    ASSUME IInv, MarkFailure
    PROVE  /\ batch[Current] = rows[Current].attempts
           /\ rows[Current].status = "pending"
           /\ rows[Current].attempts + 1 \in 1..MaxRetry
           /\ rows' = [rows EXCEPT ![Current] =
                         FailedRow(rows[Current], rows[Current].attempts + 1)]
           /\ FailedRow(rows[Current], rows[Current].attempts + 1) \in Row
<1>1. /\ Current \in DOMAIN batch /\ Current \in Ids
      /\ rows[Current] \in Row
    BY MarkHasCurrent, IdsAreNumbers DEF MarkFailure, IInv
<1>2. /\ batch[Current] = rows[Current].attempts
      /\ rows[Current].status = "pending"
    BY <1>1 DEF IInv, BatchIsFresh
<1>3. batch[Current] \in 0..(MaxRetry - 1)
    BY <1>1 DEF IInv, TypeOK
<1>4. rows[Current].attempts + 1 \in 1..MaxRetry
    BY <1>2, <1>3, ConstantsAssumption
<1>5. rows' = [rows EXCEPT ![Current] =
                 FailedRow(rows[Current], rows[Current].attempts + 1)]
    BY <1>2 DEF MarkFailure
<1>6. now \in Nat
    BY DEF IInv, TypeOK
<1>. QED
    BY <1>1, <1>2, <1>4, <1>5, <1>6, FailedRowIsRow

\* Every step keeps the types.
LEMMA TypeStep ==
    ASSUME IInv, [Next]_vars
    PROVE  TypeOK'
<1>. USE DEF TypeOK, process, history
<1>0. /\ TypeOK
      /\ clock \in Nat /\ now \in 0..clock /\ MaxFaults \in Nat
    BY ConstantsAssumption DEF IInv
<1>1. CASE Enqueue
    <2>1. /\ Ids' = Ids \cup {Len(rows) + 1} /\ Len(rows') = Len(rows) + 1
          /\ rows' \in Seq(Row)
          /\ calls' \in Seq(Nat) /\ Len(calls') = Len(rows')
          /\ unrecorded' \in Seq(Nat) /\ Len(unrecorded') = Len(rows')
        BY <1>0, <1>1, EnqueueEffect
    <2>2. arrivals' \in Seq(Ids')
        BY <1>0, <1>1, <2>1, SeqMonotonic DEF Enqueue
    <2>3. Len(rows') <= MaxRows
        BY <1>0, <1>1, <2>1, IdsAreNumbers, ConstantsAssumption DEF Enqueue
    <2>. QED
        BY <1>0, <1>1, <2>1, <2>2, <2>3 DEF Enqueue
<1>2. CASE Tick
    <2>1. Ids' = Ids /\ clock' \in Nat /\ now' \in 0..clock'
        BY <1>0, <1>2 DEF Tick, Ids
    <2>. QED
        BY <1>0, <1>2, <2>1 DEF Tick
<1>3. CASE TakeNow
    <2>1. Ids' = Ids /\ now' \in 0..clock'
        BY <1>0, <1>3 DEF TakeNow, Ids
    <2>. QED
        BY <1>0, <1>3, <2>1 DEF TakeNow
<1>4. CASE FetchPending
    <2>1. /\ DOMAIN batch' \subseteq Ids
          /\ pc' = IF DOMAIN batch' = {} THEN "idle" ELSE "publish"
          /\ \A i \in DOMAIN batch' : /\ rows[i].status = "pending"
                                      /\ batch'[i] = rows[i].attempts
        BY <1>0, <1>4, FetchEffect DEF Due
    <2>2. \A i \in DOMAIN batch' : batch'[i] \in 0..(MaxRetry - 1)
        <3>1. \A i \in Ids : rows[i] \in Row
            BY <1>0, IdsAreNumbers
        <3>2. \A row \in Row : row.attempts \in 0..MaxRetry
            BY DEF Row
        <3>3. \A a \in 0..MaxRetry : a # MaxRetry => a \in 0..(MaxRetry - 1)
            BY ConstantsAssumption
        <3>4. \A i \in Ids : rows[i].status = "pending" => rows[i].attempts # MaxRetry
            BY DEF IInv, AttemptsAccounted
        <3>. QED
            BY <2>1, <3>1, <3>2, <3>3, <3>4
    <2>3. Ids' = Ids /\ now' \in 0..clock'
        BY <1>0, <1>4 DEF FetchPending, Fetch, Ids
    <2>4. /\ outcome = "none" /\ toCount = {} /\ pc' \in {"idle", "publish"}
          /\ UNCHANGED <<batchSize, clock, rows, outcome, toCount, cancelled, metrics,
                         faults, history>>
        BY <1>0, <1>4, <2>1 DEF FetchPending, Fetch
    <2>. QED
        BY <1>0, <2>1, <2>2, <2>3, <2>4
<1>5. ASSUME Fails
      PROVE  faults' \in 0..MaxFaults
    BY <1>0, <1>5 DEF Fails
<1>6. CASE FetchError
    <2>1. Ids' = Ids /\ now' \in 0..clock' /\ faults' \in 0..MaxFaults
        BY <1>0, <1>5, <1>6 DEF FetchError, Ids
    <2>. QED
        BY <1>0, <1>6, <2>1 DEF FetchError
<1>7. ASSUME NEW result \in {"ok", "error"}, NEW delivered \in BOOLEAN,
             PublishReturns(result, delivered)
      PROVE  TypeOK'
    <2>1. arrivals' \in Seq(Ids)
        BY <1>0, <1>7, PublishEffect
    <2>2. calls' \in Seq(Nat) /\ Len(calls') = Len(calls)
        <3>1. Current \in 1..Len(calls)
            BY <1>0, <1>7, MarkHasCurrent, IdsAreNumbers DEF PublishReturns
        <3>2. calls[Current] + 1 \in Nat
            BY <1>0, <3>1, ElementOfSeq
        <3>. QED
            BY <1>0, <1>7, <3>1, <3>2, ExceptSeq DEF PublishReturns
    <2>3. Ids' = Ids /\ now' \in 0..clock'
        BY <1>0, <1>7 DEF PublishReturns, Ids
    <2>. QED
        BY <1>0, <1>7, <2>1, <2>2, <2>3 DEF PublishReturns
<1>8. ASSUME pc = "mark", NEW counters \in SUBSET Counters, counters # {},
             Recorded(counters), UNCHANGED <<calls, unrecorded>>,
             rows' \in Seq(Row), Len(rows') = Len(rows), Ids' = Ids
      PROVE  TypeOK'
    <2>1. DOMAIN batch' = DOMAIN batch \ {Current} /\ \A i \in DOMAIN batch' : batch'[i] = batch[i]
        BY <1>0, <1>8, RecordedEffect
    <2>2. now' \in 0..clock'
        BY <1>0, <1>8 DEF Recorded
    <2>. QED
        BY <1>0, <1>8, <2>1, <2>2 DEF Recorded
<1>9. CASE MarkDispatched
    <2>1. Current \in Ids /\ rows[Current] \in Row
        BY <1>0, <1>9, MarkHasCurrent, IdsAreNumbers DEF MarkDispatched
    <2>2. /\ rows' = [rows EXCEPT ![Current] = [rows[Current] EXCEPT !.status = "dispatched"]]
          /\ [rows[Current] EXCEPT !.status = "dispatched"] \in Row
        BY <1>9, <2>1 DEF MarkDispatched, Statuses, Row
    <2>3. rows' \in Seq(Row) /\ Len(rows') = Len(rows) /\ Ids' = Ids
        BY <1>0, <1>9, <2>2, MarkEffect DEF MarkDispatched
    <2>4. {"success"} \in SUBSET Counters /\ {"success"} # {}
        BY DEF Counters
    <2>. QED
        BY <1>8, <1>9, <2>3, <2>4 DEF MarkDispatched, Recorded
<1>10. CASE MarkFailure
    <2>1. rows' \in Seq(Row) /\ Len(rows') = Len(rows) /\ Ids' = Ids
        BY <1>0, <1>10, MarkFailureEffect, MarkEffect DEF MarkFailure
    <2>2. PICK counters \in {{"dead", "failure"}, {"failure"}} : Recorded(counters)
        BY <1>10 DEF MarkFailure
    <2>3. counters \in SUBSET Counters /\ counters # {}
        BY DEF Counters
    <2>. QED
        BY <1>8, <1>10, <2>1, <2>2, <2>3 DEF MarkFailure, Recorded
<1>11. ASSUME pc = "mark",
              unrecorded' = [unrecorded EXCEPT ![Current] = @ + 1]
       PROVE  unrecorded' \in Seq(Nat) /\ Len(unrecorded') = Len(unrecorded)
    <2>1. Current \in 1..Len(unrecorded)
        BY <1>0, <1>11, MarkHasCurrent, IdsAreNumbers
    <2>2. unrecorded[Current] + 1 \in Nat
        BY <1>0, <2>1, ElementOfSeq
    <2>. QED
        BY <1>0, <1>11, <2>1, <2>2, ExceptSeq
<1>12. CASE MarkError
    <2>1. unrecorded' \in Seq(Nat) /\ Len(unrecorded') = Len(unrecorded)
        BY <1>11, <1>12 DEF MarkError
    <2>2. /\ Ids' = Ids /\ DOMAIN batch' = {} /\ faults' \in 0..MaxFaults
          /\ now' \in 0..clock'
        BY <1>0, <1>5, <1>12 DEF MarkError, Ids
    <2>. QED
        BY <1>0, <1>12, <2>1, <2>2 DEF MarkError
<1>13. CASE Count
    <2>1. PICK c \in toCount : /\ metrics' = [metrics EXCEPT ![c] = @ + 1]
                               /\ toCount' = toCount \ {c}
        BY <1>13 DEF Count
    <2>2. metrics' \in [Counters -> Nat]
        <3>1. metrics \in [Counters -> Nat] /\ c \in Counters
            BY <1>0
        <3>. QED
            BY <2>1, <3>1
    <2>3. Ids' = Ids
        BY <1>13 DEF Count, Ids
    <2>4. pc' = IF toCount' # {} THEN "count"
                ELSE IF DOMAIN batch' = {} THEN "idle" ELSE "publish"
        BY <1>13 DEF Count
    <2>. QED
        BY <1>0, <1>13, <2>1, <2>2, <2>3, <2>4 DEF Count
<1>14. CASE Close
    <2>1. Ids' = Ids /\ faults' \in 0..MaxFaults
        BY <1>0, <1>14 DEF Close, Ids
    <2>. QED
        BY <1>0, <1>14, <2>1 DEF Close
<1>15. CASE Stop
    <2>1. Ids' = Ids
        BY <1>15 DEF Stop, Ids
    <2>. QED
        BY <1>0, <1>15, <2>1 DEF Stop
<1>16. CASE Crash
    <2>1. unrecorded' \in Seq(Nat) /\ Len(unrecorded') = Len(unrecorded)
        BY <1>0, <1>11, <1>16 DEF Crash
    <2>2. /\ Ids' = Ids /\ DOMAIN batch' = {} /\ faults' \in 0..MaxFaults
          /\ now' \in 0..clock' /\ crashes' \in Nat
        BY <1>0, <1>16 DEF Crash, Ids
    <2>. QED
        BY <1>0, <1>16, <2>1, <2>2 DEF Crash
<1>17. CASE Restart
    <2>1. Ids' = Ids
        BY <1>17 DEF Restart, Ids
    <2>2. metrics' \in [Counters -> Nat] /\ earlier' \in [Counters -> Nat]
        BY <1>0, <1>17 DEF Restart, NoMetrics
    <2>. QED
        BY <1>0, <1>17, <2>1, <2>2 DEF Restart
<1>18. CASE UNCHANGED vars
    BY <1>0, <1>18 DEF vars, Ids
<1>. QED
    BY <1>1, <1>2, <1>3, <1>4, <1>6, <1>7, <1>9, <1>10, <1>12, <1>13, <1>14, <1>15, <1>16,
       <1>17, <1>18
    DEF Next, Publish, Mark

-----------------------------------------------------------------------------
(***************************************************************************)
(* The accounts of a row.                                                  *)
(***************************************************************************)

\* The row that is marked dispatched keeps its attempts.
LEMMA MarkDispatchedEffect ==
    ASSUME TypeOK, MarkDispatched
    PROVE  /\ Ids' = Ids /\ Current \in Ids
           /\ rows'[Current].status = "dispatched"
           /\ rows'[Current].attempts = rows[Current].attempts
           /\ rows'[Current].created_at = rows[Current].created_at
           /\ rows'[Current].next_attempt_at = rows[Current].next_attempt_at
           /\ \A i \in Ids \ {Current} : rows'[i] = rows[i]
<1>1. Current \in Ids /\ rows[Current] \in Row
    BY MarkHasCurrent, IdsAreNumbers DEF MarkDispatched
<1>2. \A row \in Row : LET marked == [row EXCEPT !.status = "dispatched"]
                       IN  /\ marked \in Row /\ marked.status = "dispatched"
                           /\ marked.attempts = row.attempts
                           /\ marked.created_at = row.created_at
                           /\ marked.next_attempt_at = row.next_attempt_at
    BY DEF Row, Statuses
<1>3. rows' = [rows EXCEPT ![Current] = [rows[Current] EXCEPT !.status = "dispatched"]]
    BY DEF MarkDispatched
<1>. QED
    BY <1>1, <1>2, <1>3, MarkEffect, ZenonT(30) DEF MarkDispatched

\* The calls of a row are accounted for after every step.
LEMMA AttemptsStep ==
    ASSUME IInv, [Next]_vars
    PROVE  AttemptsAccounted'
<1>. USE DEF process, history
<1>0. TypeOK /\ AttemptsAccounted
    BY DEF IInv
<1>1. /\ \A i \in Ids : calls[i] \in Nat /\ unrecorded[i] \in Nat
      /\ \A i \in Ids : rows[i].attempts \in Nat
      /\ Ids = 1..Len(rows) /\ Len(rows) \in Nat
      /\ DOMAIN calls = Ids /\ DOMAIN unrecorded = Ids
    BY <1>0, IdsAreNumbers, ConstantsAssumption DEF Row
<1>2. ASSUME Ids' = Ids, UNCHANGED <<rows, calls, unrecorded>>,
             \A i \in Ids : InFlight(i)' = InFlight(i)
      PROVE  AttemptsAccounted'
    BY <1>0, <1>2 DEF AttemptsAccounted, Acknowledged
<1>3. CASE Enqueue
    <2>1. \A i \in Ids' : InFlight(i)' = InFlight(i)
        BY <1>3 DEF Enqueue, InFlight, Current
    <2>2. \A i : i = Len(rows) + 1 => InFlight(i) = 0
        BY <1>0, <1>1, MarkHasCurrent DEF InFlight
    <2>4. PICK stamp \in 0..clock :
          /\ Ids' = Ids \cup {Len(rows) + 1}
          /\ \A i \in Ids : /\ rows'[i] = rows[i] /\ calls'[i] = calls[i]
                            /\ unrecorded'[i] = unrecorded[i]
          /\ rows'[Len(rows) + 1] = NewRow(stamp)
          /\ calls'[Len(rows) + 1] = 0 /\ unrecorded'[Len(rows) + 1] = 0
        BY <1>0, <1>3, EnqueueEffect
    <2>3. /\ NewRow(stamp).status = "pending" /\ NewRow(stamp).attempts = 0
        BY NewRowIsFresh
    <2>5. ASSUME NEW i \in Ids
          PROVE  /\ calls'[i] = rows'[i].attempts + unrecorded'[i]
                                  + Acknowledged(i)' + InFlight(i)'
                 /\ rows'[i].status = "dead" <=> rows'[i].attempts = MaxRetry
        BY <1>0, <2>1, <2>4 DEF AttemptsAccounted, Acknowledged
    <2>6. ASSUME NEW i \in Ids', i = Len(rows) + 1
          PROVE  /\ calls'[i] = rows'[i].attempts + unrecorded'[i]
                                  + Acknowledged(i)' + InFlight(i)'
                 /\ rows'[i].status = "dead" <=> rows'[i].attempts = MaxRetry
        <3>1. Acknowledged(i)' = 0 /\ InFlight(i)' = 0
            BY <2>1, <2>2, <2>3, <2>4, <2>6 DEF Acknowledged
        <3>2. rows'[i].attempts = 0 /\ rows'[i].status = "pending"
            BY <2>3, <2>4, <2>6
        <3>. QED
            BY <2>4, <2>6, <3>1, <3>2, ConstantsAssumption
    <2>. QED
        BY <2>4, <2>5, <2>6 DEF AttemptsAccounted
<1>4. ASSUME UNCHANGED <<rows, calls, unrecorded>>, pc # "mark", pc' # "mark"
      PROVE  AttemptsAccounted'
    BY <1>2, <1>4 DEF InFlight, Ids
<1>5. CASE TakeNow \/ FetchPending \/ FetchError \/ Count \/ Stop \/ Restart
    <2>1. UNCHANGED <<rows, calls, unrecorded>>
        BY <1>5 DEF TakeNow, FetchPending, Fetch, FetchError, Count, Stop, Restart
    <2>2. pc # "mark" /\ pc' # "mark"
        BY <1>5 DEF TakeNow, FetchPending, Fetch, FetchError, Count, Stop, Restart
    <2>. QED
        BY <1>4, <2>1, <2>2
<1>6. ASSUME NEW result, NEW delivered, PublishReturns(result, delivered)
      PROVE  AttemptsAccounted'
    <2>1. Current \in Ids
        BY <1>0, <1>6, MarkHasCurrent DEF PublishReturns
    <2>2. /\ \A i \in Ids \ {Current} : calls'[i] = calls[i]
          /\ calls'[Current] = calls[Current] + 1
        BY <1>1, <1>6, <2>1 DEF PublishReturns
    <2>3. \A i \in Ids : /\ InFlight(i)' = IF i = Current THEN 1 ELSE 0
                         /\ InFlight(i) = 0
        BY <1>6 DEF PublishReturns, InFlight, Current
    <2>4. UNCHANGED <<rows, unrecorded>> /\ Ids' = Ids
        BY <1>6 DEF PublishReturns, Ids
    <2>5. ASSUME NEW i \in Ids
          PROVE  /\ calls'[i] = rows'[i].attempts + unrecorded'[i]
                                  + Acknowledged(i)' + InFlight(i)'
                 /\ rows'[i].status = "dead" <=> rows'[i].attempts = MaxRetry
        BY <1>0, <1>1, <2>2, <2>3, <2>4 DEF AttemptsAccounted, Acknowledged
    <2>. QED
        BY <2>4, <2>5 DEF AttemptsAccounted
<1>7. ASSUME pc = "mark", pc' # "mark", Current \in Ids
      PROVE  /\ \A i \in Ids : InFlight(i)' = 0
             /\ \A i \in Ids \ {Current} : InFlight(i) = 0
             /\ InFlight(Current) = 1
    BY <1>7 DEF InFlight
<1>8. CASE MarkDispatched
    <2>1. Current \in Ids /\ rows[Current].status = "pending"
        BY <1>8, <1>0, MarkHasCurrent DEF IInv, BatchIsFresh, MarkDispatched
    <2>2. pc = "mark" /\ pc' # "mark" /\ UNCHANGED <<calls, unrecorded>>
        BY <1>8 DEF MarkDispatched, Recorded
    <2>. QED
        BY <1>0, <1>1, <1>7, <1>8, <2>1, <2>2, MarkDispatchedEffect, SMTT(30)
        DEF AttemptsAccounted, Acknowledged
<1>9. CASE MarkFailure
    <2>1. /\ pc = "mark" /\ pc' # "mark" /\ UNCHANGED <<calls, unrecorded>>
          /\ Current \in Ids
        BY <1>0, <1>9, MarkHasCurrent DEF MarkFailure, Recorded
    <2>2. /\ rows[Current].status = "pending"
          /\ Ids' = Ids
          /\ rows'[Current].attempts = rows[Current].attempts + 1
          /\ rows'[Current].status =
               IF rows[Current].attempts + 1 >= MaxRetry THEN "dead" ELSE "pending"
          /\ rows[Current].attempts + 1 <= MaxRetry
          /\ \A i \in Ids \ {Current} : rows'[i] = rows[i]
        <3>1. now \in Nat
            BY <1>0 DEF TypeOK
        <3>. QED
            BY <1>0, <1>9, <2>1, <3>1, MarkFailureEffect, MarkEffect, FailedRowIsRow,
               IdsAreNumbers, ConstantsAssumption
    <2>3. /\ \A i \in Ids : InFlight(i)' = 0
          /\ \A i \in Ids \ {Current} : InFlight(i) = 0
          /\ InFlight(Current) = 1
        BY <1>7, <2>1
    <2>4. ASSUME NEW i \in Ids
          PROVE  /\ calls'[i] = rows'[i].attempts + unrecorded'[i]
                                  + Acknowledged(i)' + InFlight(i)'
                 /\ rows'[i].status = "dead" <=> rows'[i].attempts = MaxRetry
        <3>1. /\ calls[i] = rows[i].attempts + unrecorded[i]
                             + Acknowledged(i) + InFlight(i)
              /\ rows[i].status = "dead" <=> rows[i].attempts = MaxRetry
              /\ calls[i] \in Nat /\ unrecorded[i] \in Nat /\ rows[i].attempts \in Nat
            BY <1>0, <1>1 DEF AttemptsAccounted
        <3>2. CASE i = Current
            <4>1. Acknowledged(i) = 0 /\ Acknowledged(i)' = 0
                BY <2>2, <3>2 DEF Acknowledged
            <4>2. calls'[i] = rows'[i].attempts + unrecorded'[i] + 0 + 0
                BY <2>1, <2>2, <2>3, <3>1, <3>2, <4>1
            <4>3. rows'[i].status = "dead" <=> rows'[i].attempts = MaxRetry
                BY <2>2, <3>1, <3>2, ConstantsAssumption
            <4>. QED
                BY <2>3, <4>1, <4>2, <4>3
        <3>3. CASE i # Current
            <4>1. Acknowledged(i)' = Acknowledged(i) /\ rows'[i] = rows[i]
                BY <2>2, <3>3 DEF Acknowledged
            <4>. QED
                BY <2>1, <2>3, <3>1, <3>3, <4>1
        <3>. QED
            BY <3>2, <3>3
    <2>. QED
        BY <2>2, <2>4 DEF AttemptsAccounted
<1>10. ASSUME pc = "mark", pc' # "mark", UNCHANGED <<rows, calls>>,
              unrecorded' = [unrecorded EXCEPT ![Current] = @ + 1]
       PROVE  AttemptsAccounted'
    <2>1. Current \in Ids /\ Ids' = Ids
        BY <1>0, <1>10, MarkHasCurrent DEF Ids
    <2>2. /\ unrecorded'[Current] = unrecorded[Current] + 1
          /\ \A i \in Ids \ {Current} : unrecorded'[i] = unrecorded[i]
        BY <1>1, <1>10, <2>1
    <2>3. /\ \A i \in Ids : InFlight(i)' = 0
          /\ \A i \in Ids \ {Current} : InFlight(i) = 0
          /\ InFlight(Current) = 1
        BY <1>7, <1>10, <2>1
    <2>4. \A i \in Ids : Acknowledged(i)' = Acknowledged(i) /\ Acknowledged(i) \in {0, 1}
        BY <1>10 DEF Acknowledged
    <2>5. ASSUME NEW i \in Ids
          PROVE  calls'[i] = rows'[i].attempts + unrecorded'[i]
                               + Acknowledged(i)' + InFlight(i)'
        <3>1. /\ calls[i] = rows[i].attempts + unrecorded[i]
                             + Acknowledged(i) + InFlight(i)
              /\ unrecorded[i] \in Nat /\ rows[i].attempts \in Nat
            BY <1>0, <1>1 DEF AttemptsAccounted
        <3>2. CASE i = Current
            BY <1>10, <2>2, <2>3, <2>4, <3>1, <3>2
        <3>3. CASE i # Current
            BY <1>10, <2>2, <2>3, <2>4, <3>1, <3>3
        <3>. QED
            BY <3>2, <3>3
    <2>6. \A i \in Ids : rows'[i].status = "dead" <=> rows'[i].attempts = MaxRetry
        BY <1>0, <1>10 DEF AttemptsAccounted
    <2>. QED
        BY <2>1, <2>5, <2>6 DEF AttemptsAccounted
<1>11. CASE MarkError
    BY <1>10, <1>11 DEF MarkError
<1>12. CASE Tick \/ Close
    BY <1>2, <1>12 DEF Tick, Close, InFlight, Current, Ids
<1>14. CASE Crash
    <2>1. CASE pc = "mark"
        BY <1>10, <1>14, <2>1 DEF Crash
    <2>2. CASE pc # "mark"
        BY <1>2, <1>14, <2>2 DEF Crash, InFlight, Ids
    <2>. QED
        BY <2>1, <2>2
<1>16. CASE UNCHANGED vars
    BY <1>2, <1>16 DEF vars, InFlight, Current, Ids
<1>. QED
    BY <1>3, <1>5, <1>6, <1>8, <1>9, <1>11, <1>12, <1>14, <1>16
    DEF Next, Publish, Mark

-----------------------------------------------------------------------------
(***************************************************************************)
(* The batch and the order of arrival.                                     *)
(***************************************************************************)

\* What a failed attempt does to the table.
LEMMA MarkFailureTable ==
    ASSUME IInv, MarkFailure
    PROVE  /\ Ids' = Ids /\ Current \in Ids
           /\ rows'[Current].attempts = rows[Current].attempts + 1
           /\ rows[Current].attempts \in Nat
           /\ rows'[Current].status \in {"pending", "dead"}
           /\ rows[Current].status = "pending"
           /\ rows'[Current].status = "dead" <=> rows[Current].attempts + 1 >= MaxRetry
           /\ rows'[Current].created_at = rows[Current].created_at
           /\ rows[Current].created_at <= rows'[Current].next_attempt_at
           /\ \A i \in Ids \ {Current} : rows'[i] = rows[i]
<1>1. TypeOK /\ pc = "mark"
    BY DEF IInv, MarkFailure
<1>2. Current \in Ids /\ rows[Current] \in Row /\ rows[Current].status = "pending"
    BY <1>1, MarkHasCurrent, IdsAreNumbers, MarkFailureEffect
<1>3. rows[Current].attempts \in Nat
    BY <1>2, ConstantsAssumption DEF Row
<1>4. now \in Nat
    BY <1>1 DEF TypeOK
<1>5. /\ rows[Current].created_at <= now
      /\ rows[Current].created_at <= rows[Current].next_attempt_at
      /\ rows[Current].created_at \in Nat
    BY <1>2 DEF MarkFailure, IInv, StampsOrdered, Row
<1>. DEFINE failed == FailedRow(rows[Current], rows[Current].attempts + 1)
<1>6. /\ failed.attempts = rows[Current].attempts + 1
      /\ failed.created_at = rows[Current].created_at
      /\ failed.next_attempt_at \in {rows[Current].next_attempt_at} \cup {t \in Nat : now <= t}
      /\ failed.status = IF rows[Current].attempts + 1 >= MaxRetry THEN "dead" ELSE "pending"
      /\ failed \in Row /\ rows' = [rows EXCEPT ![Current] = failed]
    BY <1>1, <1>2, <1>4, MarkFailureEffect, FailedRowIsRow
<1>. HIDE DEF failed
<1>7. rows[Current].created_at <= failed.next_attempt_at
    BY <1>4, <1>5, <1>6
<1>8. rows'[Current] = failed /\ Ids' = Ids /\ \A i \in Ids \ {Current} : rows'[i] = rows[i]
    BY <1>1, <1>6, MarkEffect
<1>. QED
    BY <1>1, <1>2, <1>3, <1>6, <1>7, <1>8

\* Rows and their stamps stay, attempts are never forgotten, and neither is an
\* arrival.
LEMMA NothingIsForgotten ==
    ASSUME IInv, [Next]_vars
    PROVE  /\ \A i \in Ids : /\ i \in Ids'
                             /\ rows'[i].created_at = rows[i].created_at
                             /\ rows[i].attempts > 0 => rows'[i].attempts > 0
           /\ Arrived \subseteq Arrived'
<1>. USE DEF process, history
<1>0. TypeOK /\ \A i \in Ids : rows[i].attempts \in Nat
    BY IdsAreNumbers, ConstantsAssumption DEF IInv, Row
<1>1. CASE Enqueue
    BY <1>0, <1>1, EnqueueEffect DEF Enqueue, Arrived
<1>2. CASE UNCHANGED <<rows, arrivals>>
    BY <1>2 DEF Ids, Arrived
<1>3. ASSUME NEW result, NEW delivered \in BOOLEAN, PublishReturns(result, delivered)
      PROVE  Ids' = Ids /\ UNCHANGED rows /\ Arrived \subseteq Arrived'
    BY <1>0, <1>3, PublishEffect DEF PublishReturns, Ids
<1>4. CASE MarkDispatched
    BY <1>0, <1>4, MarkDispatchedEffect, RecordedEffect DEF MarkDispatched
<1>5. CASE MarkFailure
    BY <1>0, <1>5, MarkFailureTable, RecordedEffect DEF MarkFailure
<1>. QED
    BY <1>1, <1>2, <1>3, <1>4, <1>5
    DEF Next, vars, Tick, TakeNow, FetchPending, Fetch, FetchError, Publish, Mark,
        MarkError, Count, Close, Stop, Crash, Restart

\* Only the goroutine writes the rows it has fetched.
LEMMA FreshStep ==
    ASSUME IInv, [Next]_vars
    PROVE  BatchIsFresh'
<1>. USE DEF process, history, BatchIsFresh
<1>0. TypeOK /\ BatchIsFresh /\ DOMAIN batch \subseteq Ids
    BY DEF IInv, TypeOK
<1>1. CASE Enqueue
    BY <1>0, <1>1, EnqueueEffect DEF Enqueue
<1>2. CASE FetchPending
    BY <1>0, <1>2, FetchEffect DEF Due
<1>3. CASE UNCHANGED <<rows, batch>>
    BY <1>0, <1>3
<1>4. CASE UNCHANGED rows /\ batch' = <<>>
    BY <1>4
<1>5. CASE MarkDispatched
    BY <1>0, <1>5, MarkDispatchedEffect, RecordedEffect DEF MarkDispatched
<1>6. CASE MarkFailure
    BY <1>0, <1>6, MarkFailureTable, RecordedEffect DEF MarkFailure
<1>. QED
    BY <1>1, <1>2, <1>3, <1>4, <1>5, <1>6
    DEF Next, vars, Tick, TakeNow, FetchError, Publish, PublishReturns, Mark, MarkError,
        Count, Close, Stop, Crash, Restart

\* Only what arrived is marked dispatched.
LEMMA SuccessStep ==
    ASSUME IInv, [Next]_vars
    PROVE  SuccessArrived'
<1>. USE DEF process, history, SuccessArrived
<1>0. TypeOK /\ SuccessArrived
    BY DEF IInv
<1>1. CASE Enqueue
    <2>1. PICK stamp \in 0..clock :
          /\ Ids' = Ids \cup {Len(rows) + 1}
          /\ \A i \in Ids : rows'[i] = rows[i]
          /\ rows'[Len(rows) + 1] = NewRow(stamp)
        BY <1>0, <1>1, EnqueueEffect
    <2>2. outcome' = outcome /\ Current' = Current /\ Arrived' = Arrived
        BY <1>1 DEF Enqueue, Current, Arrived
    <2>. QED
        BY <1>0, <2>1, <2>2, NewRowIsFresh
<1>2. CASE UNCHANGED <<rows, arrivals>> /\ (outcome' = "none" \/ UNCHANGED <<outcome, batch>>)
    BY <1>0, <1>2 DEF Arrived, Current, Ids
<1>3. ASSUME NEW result, NEW delivered \in BOOLEAN, PublishReturns(result, delivered),
             result = "ok" => delivered
      PROVE  SuccessArrived'
    <2>1. UNCHANGED <<rows, batch>> /\ outcome' = result /\ Ids' = Ids /\ Current' = Current
        BY <1>3 DEF PublishReturns, Ids, Current
    <2>. QED
        BY <1>0, <1>3, <2>1, PublishEffect
<1>4. CASE MarkDispatched
    <2>1. outcome' = "none" /\ Arrived' = Arrived /\ Current \in Arrived
        BY <1>0, <1>4, RecordedEffect DEF MarkDispatched
    <2>. QED
        BY <1>0, <1>4, <2>1, MarkDispatchedEffect
<1>5. CASE MarkFailure
    <2>1. outcome' = "none" /\ Arrived' = Arrived
        BY <1>0, <1>5, RecordedEffect DEF MarkFailure
    <2>. QED
        BY <1>0, <1>5, <2>1, MarkFailureTable
<1>6. CASE FetchPending
    BY <1>0, <1>2, <1>6, FetchEffect
<1>7. CASE Count
    <2>1. outcome' = "none"
        BY <1>0, <1>7 DEF Count, TypeOK
    <2>. QED
        BY <1>2, <1>7, <2>1 DEF Count
<1>8. CASE FetchError
    BY <1>2, <1>8 DEF FetchError
<1>. QED
    BY <1>1, <1>2, <1>3, <1>4, <1>5, <1>6, <1>7, <1>8
    DEF Next, vars, Tick, TakeNow, Publish, Mark, MarkError, Close, Stop, Crash, Restart

\* Time only goes on, and a row is put off only after a failure, from the time of
\* that failure on.
LEMMA StampsStep ==
    ASSUME IInv, [Next]_vars
    PROVE  StampsOrdered'
<1>. USE DEF process, history, StampsOrdered
<1>0. /\ TypeOK /\ StampsOrdered /\ clock \in Nat /\ clock' \in Nat /\ clock <= clock'
      /\ \A i \in Ids : rows[i].created_at \in Nat
    <2>1. TypeOK /\ TypeOK' /\ StampsOrdered
        BY TypeStep DEF IInv
    <2>2. clock' \in {clock, clock + 1}
        BY DEF Next, vars, Tick, Enqueue, TakeNow, FetchPending, Fetch, FetchError, Publish,
           PublishReturns, Mark, MarkDispatched, MarkFailure, Recorded, MarkError, Count,
           Close, Stop, Crash, Restart
    <2>3. clock \in Nat /\ clock' \in Nat
        BY <2>1 DEF TypeOK
    <2>4. \A i \in Ids : rows[i].created_at \in Nat
        <3>1. \A row \in Row : row.created_at \in Nat
            BY DEF Row
        <3>. QED
            BY <2>1, <3>1, IdsAreNumbers
    <2>5. clock <= clock'
        BY <2>2, <2>3
    <2>. QED
        BY <2>1, <2>3, <2>4, <2>5
<1>1. CASE Enqueue
    <2>1. PICK stamp \in 0..clock :
          /\ Ids' = Ids \cup {Len(rows) + 1}
          /\ \A i \in Ids : rows'[i] = rows[i]
          /\ rows'[Len(rows) + 1] = NewRow(stamp)
        BY <1>0, <1>1, EnqueueEffect
    <2>2. UNCHANGED <<outcome, now, clock>> /\ Current' = Current
        BY <1>1 DEF Enqueue, Current
    <2>3. outcome = "error" => Current \in Ids
        BY <1>0, MarkHasCurrent DEF TypeOK
    <2>4. stamp <= clock /\ stamp <= stamp
        BY <1>0
    <2>. QED
        BY <1>0, <2>1, <2>2, <2>3, <2>4, NewRowIsFresh
<1>2. ASSUME UNCHANGED rows, outcome' # "error" \/ UNCHANGED <<outcome, now, batch>>
      PROVE  StampsOrdered'
    <2>1. Ids' = Ids /\ (Current' = Current \/ outcome' # "error")
        BY <1>2 DEF Ids, Current
    <2>2. \A i \in Ids : rows[i].created_at <= clock'
        BY <1>0
    <2>. QED
        BY <1>0, <1>2, <2>1, <2>2
<1>3. ASSUME NEW result, NEW delivered \in BOOLEAN, PublishReturns(result, delivered)
      PROVE  StampsOrdered'
    <2>1. UNCHANGED <<rows, batch, clock>> /\ Ids' = Ids /\ Current' = Current
        BY <1>3 DEF PublishReturns, Ids, Current
    <2>2. outcome' = "error" => now' = clock
        BY <1>3 DEF PublishReturns
    <2>3. Current \in Ids
        BY <1>0, <1>3, MarkHasCurrent DEF PublishReturns
    <2>. QED
        BY <1>0, <2>1, <2>2, <2>3
<1>4. CASE MarkDispatched
    <2>1. outcome' = "none" /\ UNCHANGED clock
        BY <1>4 DEF MarkDispatched, Recorded
    <2>. QED
        BY <1>0, <1>4, <2>1, MarkDispatchedEffect
<1>5. CASE MarkFailure
    <2>1. outcome' = "none" /\ UNCHANGED clock
        BY <1>5 DEF MarkFailure, Recorded
    <2>2. rows'[Current].attempts # 0
        BY <1>5, MarkFailureTable
    <2>. QED
        BY <1>0, <1>5, <2>1, <2>2, MarkFailureTable
<1>6. CASE TakeNow \/ FetchPending \/ FetchError \/ Count
    <2>1. outcome' = "none" /\ UNCHANGED rows
        BY <1>0, <1>6 DEF TakeNow, FetchPending, Fetch, FetchError, Count, TypeOK
    <2>. QED
        BY <1>2, <2>1
<1>. QED
    BY <1>1, <1>2, <1>3, <1>4, <1>5, <1>6
    DEF Next, vars, Tick, Publish, Mark, MarkError, Close, Stop, Crash, Restart

\* The batch stays closed: what comes before it has arrived, or has failed, or was
\* not due yet when the time was read.
LEMMA LeftBehindStep ==
    ASSUME IInv, [Next]_vars
    PROVE  NothingLeftBehind'
<1>. USE DEF process, history, NothingLeftBehind
<1>0. /\ TypeOK /\ NothingLeftBehind
      /\ DOMAIN batch \subseteq Ids /\ Ids = 1..Len(rows) /\ Len(rows) \in Nat
    BY IdsAreNumbers DEF IInv, TypeOK
<1>1. \A i \in DOMAIN batch : i \in Ids /\ \A j \in 1..(i - 1) : j \in Ids
    BY <1>0
<1>2. CASE DOMAIN batch' = DOMAIN batch
    BY <1>0, <1>1, <1>2, NothingIsForgotten
<1>3. CASE DOMAIN batch' = {}
    BY <1>3
<1>4. CASE FetchPending
    <2>1. SUFFICES ASSUME NEW i \in DOMAIN batch', NEW j \in 1..(i - 1),
                          j \notin DOMAIN batch'
                   PROVE  \/ j \in Arrived \/ rows[j].attempts > 0
                          \/ rows[j].created_at > rows[i].created_at
        <3>1. UNCHANGED <<rows, arrivals>>
            BY <1>0, <1>4, FetchEffect
        <3>. QED
            BY <2>1, <3>1 DEF Arrived
    <2>2. i \in Ids /\ i \in Nat /\ j < i /\ i \in Due
        BY <1>0, <1>4, FetchEffect DEF Due
    <2>3. j \in Ids /\ j \notin Due
        BY <1>0, <1>4, <2>1, <2>2, FetchEffect
    <2>4. rows[j] \in Row /\ rows[i] \in Row
        BY <1>0, <2>2, <2>3, IdsAreNumbers
    <2>5. CASE rows[j].status = "pending" /\ rows[j].attempts = 0
        <3>1. /\ ~ (rows[j].next_attempt_at <= now)
              /\ rows[j].next_attempt_at = rows[j].created_at
            BY <2>3, <2>5 DEF Due, IInv, StampsOrdered
        <3>2. rows[i].created_at <= rows[i].next_attempt_at /\ rows[i].next_attempt_at <= now
            BY <2>2 DEF Due, IInv, StampsOrdered
        <3>3. /\ now \in Nat /\ rows[j].created_at \in Nat /\ rows[i].created_at \in Nat
              /\ rows[i].next_attempt_at \in Nat
            <4>1. \A row \in Row : row.created_at \in Nat /\ row.next_attempt_at \in Nat
                BY DEF Row
            <4>2. clock \in Nat /\ now \in 0..clock
                BY <1>0 DEF TypeOK
            <4>. QED
                BY <2>4, <4>1, <4>2
        <3>. QED
            BY <3>1, <3>2, <3>3
    <2>6. CASE rows[j].attempts # 0
        <3>1. rows[j].attempts \in Nat
            BY <2>4, ConstantsAssumption DEF Row
        <3>. QED
            BY <2>6, <3>1
    <2>7. CASE rows[j].status = "dispatched"
        BY <2>3, <2>7 DEF IInv, SuccessArrived
    <2>8. CASE rows[j].status = "dead"
        BY <2>3, <2>8, ConstantsAssumption DEF IInv, AttemptsAccounted
    <2>. QED
        BY <2>4, <2>5, <2>6, <2>7, <2>8 DEF Row, Statuses
<1>5. ASSUME DOMAIN batch' = DOMAIN batch \ {Current},
             Current \in Arrived' \/ rows'[Current].attempts > 0
      PROVE  NothingLeftBehind'
    BY <1>0, <1>1, <1>5, NothingIsForgotten
<1>6. CASE MarkDispatched
    <2>1. Current \in Arrived'
        BY <1>0, <1>6, RecordedEffect DEF MarkDispatched, IInv, SuccessArrived
    <2>. QED
        BY <1>0, <1>5, <1>6, <2>1, RecordedEffect DEF MarkDispatched
<1>7. CASE MarkFailure
    <2>1. rows'[Current].attempts > 0
        BY <1>7, MarkFailureTable
    <2>. QED
        BY <1>0, <1>5, <1>7, <2>1, RecordedEffect DEF MarkFailure
<1>. QED
    BY <1>2, <1>3, <1>4, <1>6, <1>7
    DEF Next, vars, Enqueue, Tick, TakeNow, FetchError, Publish, PublishReturns, Mark,
        MarkError, Count, Close, Stop, Crash, Restart

\* A row that arrives now is overtaking only rows that failed or were stamped later:
\* it is the first of its batch, and nothing else was left behind the batch.
LEMMA OvertakenStep ==
    ASSUME IInv, [Next]_vars
    PROVE  InOrderIfStampedInOrder'
<1>. USE DEF process, history
<1>0. /\ TypeOK /\ InOrderIfStampedInOrder
      /\ Ids = 1..Len(rows) /\ Len(rows) \in Nat
      /\ \A n \in DOMAIN arrivals : arrivals[n] \in Ids
      /\ DOMAIN arrivals = 1..Len(arrivals) /\ Len(arrivals) \in Nat
    BY IdsAreNumbers, ElementOfSeq, LenProperties DEF IInv, TypeOK
<1>1. \A n \in DOMAIN arrivals : \A i \in 1..(arrivals[n] - 1) : i \in Ids
    BY <1>0
<1>2. CASE UNCHANGED arrivals
    BY <1>0, <1>1, <1>2, NothingIsForgotten DEF InOrderIfStampedInOrder
<1>3. ASSUME NEW result, NEW delivered \in BOOLEAN, PublishReturns(result, delivered)
      PROVE  InOrderIfStampedInOrder'
    <2>1. SUFFICES ASSUME NEW n \in DOMAIN arrivals',
                          NEW i \in 1..(arrivals'[n] - 1),
                          \A m \in 1..n : arrivals'[m] # i
                   PROVE  \/ rows[i].attempts > 0
                          \/ rows[i].created_at > rows[arrivals'[n]].created_at
        <3>1. UNCHANGED rows
            BY <1>3 DEF PublishReturns
        <3>. QED
            BY <2>1, <3>1 DEF InOrderIfStampedInOrder
    <2>2. CASE n \in DOMAIN arrivals
        <3>1. /\ \A m \in 1..n : m \in DOMAIN arrivals
              /\ arrivals'[n] = arrivals[n]
            BY <1>0, <1>3, <2>2, PublishEffect
        <3>2. \A m \in 1..n : arrivals[m] # i
            BY <1>0, <1>3, <2>1, <3>1, PublishEffect
        <3>. QED
            BY <1>0, <2>2, <3>1, <3>2 DEF InOrderIfStampedInOrder
    <2>3. CASE n \notin DOMAIN arrivals
        <3>1. /\ arrivals'[n] = Current
              /\ \A m \in DOMAIN arrivals : m \in 1..n /\ arrivals'[m] = arrivals[m]
            BY <1>0, <1>3, <2>3, PublishEffect
        <3>2. i \notin Arrived
            BY <2>1, <3>1 DEF Arrived
        <3>3. /\ Current \in DOMAIN batch /\ Current \in Nat
              /\ \A j \in DOMAIN batch : Current <= j
            BY <1>0, <1>3, MarkHasCurrent, CurrentIsFirst DEF PublishReturns
        <3>4. i \notin DOMAIN batch
            BY <3>1, <3>3
        <3>. QED
            BY <3>1, <3>2, <3>3, <3>4 DEF IInv, NothingLeftBehind
    <2>. QED
        BY <2>2, <2>3
<1>. QED
    BY <1>2, <1>3
    DEF Next, vars, Enqueue, Tick, TakeNow, FetchPending, Fetch, FetchError, Publish, Mark,
        MarkDispatched, MarkFailure, Recorded, MarkError, Count, Close, Stop, Crash, Restart

-----------------------------------------------------------------------------
(***************************************************************************)
(* The counters.                                                           *)
(***************************************************************************)

\* What has been counted, or is about to be.
Counted(c) == earlier[c] + metrics[c] + Uncounted(c)

\* Recording a result adds one to each of these counters.
OneFor(counters, c) == IF c \in counters THEN 1 ELSE 0

\* There are finitely many rows in a status and finitely many failed attempts.
LEMMA TableIsFinite ==
    ASSUME TypeOK
    PROVE  /\ \A s : IsFiniteSet(InStatus(rows, s))
           /\ IsFiniteSet(FailedAttempts(rows))
<1>1. IsFiniteSet(Ids)
    BY IdsAreNumbers, FS_Interval
<1>2. \A s : InStatus(rows, s) \subseteq Ids
    BY DEF InStatus, Ids
<1>3. IsFiniteSet(Ids \X (1..MaxRetry))
    <2>1. IsFiniteSet(1..MaxRetry)
        BY FS_Interval, ConstantsAssumption
    <2>. QED
        BY <1>1, <2>1, FS_Product
<1>4. FailedAttempts(rows) \subseteq Ids \X (1..MaxRetry)
    BY DEF FailedAttempts, Ids
<1>. QED
    BY <1>1, <1>2, <1>3, <1>4, FS_Subset

\* The table says a number for every counter, and the same one as long as the rows in
\* the two final states and the failed attempts are the same.
LEMMA TotalsAreNumbers ==
    ASSUME TypeOK
    PROVE  \A c \in Counters : Totals(rows)[c] \in Nat
    BY TableIsFinite, FS_CardinalityType DEF Totals, Counters

LEMMA SameTotals ==
    ASSUME \A s \in {"dispatched", "dead"} : InStatus(rows', s) = InStatus(rows, s),
           FailedAttempts(rows') = FailedAttempts(rows)
    PROVE  \A c \in Counters : Totals(rows')[c] = Totals(rows)[c]
    BY DEF Totals, Counters

\* A new row has no attempts and counts for nothing.
LEMMA EnqueueTotals ==
    ASSUME TypeOK, Enqueue
    PROVE  /\ \A s \in {"dispatched", "dead"} : InStatus(rows', s) = InStatus(rows, s)
           /\ FailedAttempts(rows') = FailedAttempts(rows)
<1>1. PICK stamp \in 0..clock :
      /\ Ids' = Ids \cup {Len(rows) + 1}
      /\ \A i \in Ids : rows'[i] = rows[i]
      /\ rows'[Len(rows) + 1] = NewRow(stamp)
      /\ Ids = 1..Len(rows) /\ Len(rows) \in Nat
    BY EnqueueEffect, IdsAreNumbers
<1>2. NewRow(stamp).status = "pending" /\ NewRow(stamp).attempts = 0
    BY NewRowIsFresh
<1>3. \A s \in {"dispatched", "dead"} : InStatus(rows', s) = InStatus(rows, s)
    BY <1>1, <1>2 DEF InStatus, Ids
<1>4. \A a \in 1..MaxRetry : ~ (a <= rows'[Len(rows) + 1].attempts)
    BY <1>1, <1>2, ConstantsAssumption
<1>5. ASSUME NEW i \in Ids', NEW a \in 1..MaxRetry
      PROVE  a <= rows'[i].attempts <=> i \in Ids /\ a <= rows[i].attempts
    BY <1>1, <1>4, <1>5
<1>6. ASSUME NEW p
      PROVE  p \in FailedAttempts(rows') <=> p \in FailedAttempts(rows)
    BY <1>1, <1>5 DEF FailedAttempts, Ids
<1>. QED
    BY <1>3, <1>6

\* Marking a row adds it to the dispatched ones ...
LEMMA MarkDispatchedTotals ==
    ASSUME IInv, MarkDispatched
    PROVE  /\ InStatus(rows', "dispatched") = InStatus(rows, "dispatched") \cup {Current}
           /\ Current \notin InStatus(rows, "dispatched")
           /\ InStatus(rows', "dead") = InStatus(rows, "dead")
           /\ FailedAttempts(rows') = FailedAttempts(rows)
<1>1. /\ TypeOK /\ Ids' = Ids /\ Current \in Ids
      /\ rows'[Current].status = "dispatched"
      /\ rows'[Current].attempts = rows[Current].attempts
      /\ \A i \in Ids \ {Current} : rows'[i] = rows[i]
    BY MarkDispatchedEffect DEF IInv
<1>2. rows[Current].status = "pending"
    BY <1>1, MarkHasCurrent DEF IInv, BatchIsFresh, MarkDispatched
<1>. QED
    BY <1>1, <1>2 DEF InStatus, FailedAttempts, Ids

\* ... and a failed attempt adds one, and the row to the dead ones if it was the
\* last.
LEMMA MarkFailureTotals ==
    ASSUME IInv, MarkFailure
    PROVE  LET attempt == <<Current, rows[Current].attempts + 1>> IN
           /\ InStatus(rows', "dispatched") = InStatus(rows, "dispatched")
           /\ FailedAttempts(rows') = FailedAttempts(rows) \cup {attempt}
           /\ attempt \notin FailedAttempts(rows)
           /\ Current \notin InStatus(rows, "dead")
           /\ InStatus(rows', "dead") =
                IF rows[Current].attempts + 1 >= MaxRetry
                THEN InStatus(rows, "dead") \cup {Current} ELSE InStatus(rows, "dead")
<1>1. /\ TypeOK /\ Ids' = Ids /\ Current \in Ids
      /\ \A i \in Ids \ {Current} : rows'[i] = rows[i]
    BY MarkFailureTable DEF IInv
<1>2. /\ rows[Current].status = "pending"
      /\ rows[Current].attempts + 1 \in 1..MaxRetry
      /\ rows'[Current] = FailedRow(rows[Current], rows[Current].attempts + 1)
    BY <1>1, MarkFailureEffect DEF Ids
<1>3. rows[Current] \in Row
    BY <1>1, IdsAreNumbers
<1>4. /\ rows'[Current].attempts = rows[Current].attempts + 1
      /\ rows'[Current].status =
           IF rows[Current].attempts + 1 >= MaxRetry THEN "dead" ELSE "pending"
    <2>1. now \in Nat
        BY <1>1 DEF TypeOK
    <2>. QED
        BY <1>2, <1>3, <2>1, FailedRowIsRow
<1>5. rows[Current].attempts \in Nat
    BY <1>3, ConstantsAssumption DEF Row
<1>6. \A a \in 1..MaxRetry :
        a <= rows[Current].attempts + 1 <=>
          a <= rows[Current].attempts \/ a = rows[Current].attempts + 1
    BY <1>5, ConstantsAssumption
<1>7. ASSUME NEW i \in Ids, NEW a \in 1..MaxRetry
      PROVE  a <= rows'[i].attempts <=>
               a <= rows[i].attempts \/ <<i, a>> = <<Current, rows[Current].attempts + 1>>
    BY <1>1, <1>4, <1>6
<1>8. FailedAttempts(rows') =
        FailedAttempts(rows) \cup {<<Current, rows[Current].attempts + 1>>}
    <2>1. ASSUME NEW i \in Ids, NEW a \in 1..MaxRetry
          PROVE  <<i, a>> \in FailedAttempts(rows') <=>
                   \/ <<i, a>> \in FailedAttempts(rows)
                   \/ <<i, a>> = <<Current, rows[Current].attempts + 1>>
        BY <1>1, <1>7 DEF FailedAttempts, Ids
    <2>2. /\ FailedAttempts(rows') \subseteq Ids \X (1..MaxRetry)
          /\ FailedAttempts(rows) \subseteq Ids \X (1..MaxRetry)
          /\ <<Current, rows[Current].attempts + 1>> \in Ids \X (1..MaxRetry)
        BY <1>1, <1>2 DEF FailedAttempts, Ids
    <2>3. \A p \in Ids \X (1..MaxRetry) : p = <<p[1], p[2]>> /\ p[1] \in Ids /\ p[2] \in 1..MaxRetry
        OBVIOUS
    <2>. QED
        BY <2>1, <2>2, <2>3
<1>9. <<Current, rows[Current].attempts + 1>> \notin FailedAttempts(rows)
    BY <1>5 DEF FailedAttempts
<1>10. /\ InStatus(rows', "dispatched") = InStatus(rows, "dispatched")
       /\ Current \notin InStatus(rows, "dead")
       /\ InStatus(rows', "dead") =
            IF rows[Current].attempts + 1 >= MaxRetry
            THEN InStatus(rows, "dead") \cup {Current} ELSE InStatus(rows, "dead")
    BY <1>1, <1>2, <1>4 DEF InStatus, Ids
<1>. QED
    BY <1>8, <1>9, <1>10

\* Recording a result adds what is then counted to what the table says.
LEMMA RecordedTotals ==
    ASSUME IInv, MarkDispatched \/ MarkFailure
    PROVE  /\ toCount = {} /\ UNCHANGED <<metrics, earlier, crashes>>
           /\ \A c \in Counters :
                Totals(rows')[c] = Totals(rows)[c] + OneFor(toCount', c)
<1>0. TypeOK
    BY DEF IInv
<1>1. toCount = {} /\ UNCHANGED <<metrics, earlier, crashes>>
    BY <1>0 DEF MarkDispatched, MarkFailure, Recorded, TypeOK, history
<1>2. /\ Cardinality(InStatus(rows, "dispatched")) \in Nat
      /\ Cardinality(InStatus(rows, "dead")) \in Nat
      /\ Cardinality(FailedAttempts(rows)) \in Nat
    BY <1>0, TableIsFinite, FS_CardinalityType
<1>3. CASE MarkDispatched
    <2>1. toCount' = {"success"}
        BY <1>3 DEF MarkDispatched, Recorded
    <2>2. /\ Cardinality(InStatus(rows', "dispatched")) =
               Cardinality(InStatus(rows, "dispatched")) + 1
          /\ InStatus(rows', "dead") = InStatus(rows, "dead")
          /\ FailedAttempts(rows') = FailedAttempts(rows)
        BY <1>0, <1>3, MarkDispatchedTotals, TableIsFinite, FS_AddElement
    <2>. QED
        BY <1>1, <1>2, <2>1, <2>2 DEF Totals, Counters, OneFor
<1>4. CASE MarkFailure
    <2>. DEFINE last == rows[Current].attempts + 1 >= MaxRetry
    <2>1. toCount' = IF last THEN {"dead", "failure"} ELSE {"failure"}
        <3>1. batch[Current] = rows[Current].attempts
            BY <1>4, MarkFailureEffect
        <3>. QED
            BY <1>4, <3>1 DEF MarkFailure, Recorded
    <2>2. /\ InStatus(rows', "dispatched") = InStatus(rows, "dispatched")
          /\ Current \notin InStatus(rows, "dead")
          /\ InStatus(rows', "dead") =
               IF last THEN InStatus(rows, "dead") \cup {Current} ELSE InStatus(rows, "dead")
        BY <1>4, MarkFailureTotals
    <2>3. Cardinality(FailedAttempts(rows')) = Cardinality(FailedAttempts(rows)) + 1
        BY <1>0, <1>4, MarkFailureTotals, TableIsFinite, FS_AddElement
    <2>4. Cardinality(InStatus(rows', "dead")) =
            IF last THEN Cardinality(InStatus(rows, "dead")) + 1
            ELSE Cardinality(InStatus(rows, "dead"))
        BY <1>0, <2>2, TableIsFinite, FS_AddElement
    <2>. HIDE DEF last
    <2>. QED
        BY <1>1, <1>2, <2>1, <2>2, <2>3, <2>4 DEF Totals, Counters, OneFor
<1>. QED
    BY <1>1, <1>3, <1>4

\* Every step that changes the table changes what is counted, or about to be, as
\* much; only a crash loses one of those, and is counted itself.
LEMMA MetricsStep ==
    ASSUME IInv, MetricsMatchTable, [Next]_vars
    PROVE  MetricsMatchTable'
<1>. USE DEF process, history
<1>0. /\ TypeOK /\ crashes \in Nat
      /\ \A c \in Counters :
            /\ metrics[c] \in Nat /\ earlier[c] \in Nat
            /\ Uncounted(c) \in {0, 1} /\ Counted(c) \in Nat
            /\ Totals(rows)[c] \in Nat
            /\ Counted(c) <= Totals(rows)[c] /\ Totals(rows)[c] <= Counted(c) + crashes
    <2>1. TypeOK /\ crashes \in Nat
        BY DEF IInv, TypeOK
    <2>2. \A c \in Counters : metrics[c] \in Nat /\ earlier[c] \in Nat
        BY <2>1 DEF TypeOK
    <2>3. \A c \in Counters : Uncounted(c) \in {0, 1}
        BY DEF Uncounted
    <2>4. \A c \in Counters : Counted(c) \in Nat
        BY <2>2, <2>3 DEF Counted
    <2>5. \A c \in Counters :
            Counted(c) <= Totals(rows)[c] /\ Totals(rows)[c] <= Counted(c) + crashes
        BY DEF MetricsMatchTable, Counted
    <2>. QED
        BY <2>1, <2>2, <2>3, <2>4, <2>5, TotalsAreNumbers
<1>1. ASSUME \A c \in Counters : /\ Counted(c)' <= Totals(rows')[c]
                                 /\ Totals(rows')[c] <= Counted(c)' + crashes'
      PROVE  MetricsMatchTable'
    BY <1>1 DEF MetricsMatchTable, Counted
<1>2. ASSUME \A c \in Counters : Totals(rows')[c] = Totals(rows)[c],
             UNCHANGED <<metrics, earlier, toCount, crashes>>
      PROVE  MetricsMatchTable'
    <2>1. \A c \in Counters : Counted(c)' = Counted(c)
        BY <1>2 DEF Counted, Uncounted
    <2>. QED
        BY <1>0, <1>1, <1>2, <2>1
<1>3. CASE Enqueue
    BY <1>0, <1>2, <1>3, EnqueueTotals, SameTotals DEF Enqueue
<1>4. CASE UNCHANGED <<rows, metrics, earlier, toCount, crashes>>
    BY <1>2, <1>4
<1>5. CASE MarkDispatched \/ MarkFailure
    <2>1. \A c \in Counters :
            /\ Totals(rows')[c] = Totals(rows)[c] + OneFor(toCount', c)
            /\ Counted(c)' = Counted(c) + OneFor(toCount', c)
        <3>1. \A c \in Counters : Counted(c) = earlier[c] + metrics[c]
            BY <1>0, <1>5, RecordedTotals DEF Counted, Uncounted
        <3>2. \A c \in Counters : Counted(c)' = earlier[c] + metrics[c] + OneFor(toCount', c)
            BY <1>5, RecordedTotals DEF Counted, Uncounted, OneFor
        <3>. QED
            BY <1>5, <3>1, <3>2, RecordedTotals
    <2>2. \A c \in Counters : OneFor(toCount', c) \in {0, 1}
        BY DEF OneFor
    <2>3. crashes' = crashes
        BY <1>5, RecordedTotals
    <2>4. ASSUME NEW c \in Counters
          PROVE  /\ Counted(c)' <= Totals(rows')[c]
                 /\ Totals(rows')[c] <= Counted(c)' + crashes'
        <3>. DEFINE one == OneFor(toCount', c)
                    old == Counted(c)
                    new == Counted(c)'
                    table == Totals(rows)[c]
                    tableNew == Totals(rows')[c]
        <3>1. /\ tableNew = table + one /\ new = old + one /\ one \in {0, 1}
              /\ old \in Nat /\ table \in Nat /\ old <= table /\ table <= old + crashes
            BY <1>0, <2>1, <2>2
        <3>2. crashes \in Nat /\ crashes' = crashes
            BY <1>0, <2>3
        <3>. HIDE DEF one, old, new, table, tableNew
        <3>3. new <= tableNew /\ tableNew <= new + crashes'
            BY <3>1, <3>2
        <3>. QED
            BY <3>3 DEF new, tableNew
    <2>. QED
        BY <1>1, <2>4
<1>6. CASE Count
    <2>1. PICK k \in toCount : /\ metrics' = [metrics EXCEPT ![k] = @ + 1]
                               /\ toCount' = toCount \ {k}
        BY <1>6 DEF Count
    <2>2. k \in Counters /\ metrics \in [Counters -> Nat]
        BY <1>0 DEF TypeOK
    <2>3. ASSUME NEW c \in Counters
          PROVE  Counted(c)' = Counted(c)
        <3>1. earlier' = earlier
            BY <1>6 DEF Count
        <3>2. CASE c = k
            <4>1. metrics'[c] = metrics[c] + 1 /\ Uncounted(c) = 1 /\ Uncounted(c)' = 0
                BY <2>1, <2>2, <3>2 DEF Uncounted
            <4>. QED
                BY <1>0, <3>1, <4>1 DEF Counted
        <3>3. CASE c # k
            <4>1. metrics'[c] = metrics[c] /\ Uncounted(c)' = Uncounted(c)
                BY <2>1, <2>2, <3>3 DEF Uncounted
            <4>. QED
                BY <3>1, <4>1 DEF Counted
        <3>. QED
            BY <3>2, <3>3
    <2>4. UNCHANGED <<rows, crashes>>
        BY <1>6 DEF Count
    <2>. QED
        BY <1>0, <1>1, <2>3, <2>4
<1>7. CASE Crash
    <2>1. UNCHANGED <<rows, metrics, earlier>> /\ crashes' = crashes + 1 /\ toCount' = {}
        BY <1>7 DEF Crash
    <2>2. \A c \in Counters : Counted(c)' + Uncounted(c) = Counted(c)
        BY <1>0, <2>1 DEF Counted, Uncounted
    <2>3. \A c \in Counters : Counted(c)' \in Nat
        BY <1>0, <2>1 DEF Counted, Uncounted
    <2>4. ASSUME NEW c \in Counters
          PROVE  /\ Counted(c)' <= Totals(rows')[c]
                 /\ Totals(rows')[c] <= Counted(c)' + crashes'
        <3>. DEFINE one == Uncounted(c)
                    old == Counted(c)
                    new == Counted(c)'
                    table == Totals(rows)[c]
        <3>1. /\ new + one = old /\ one \in {0, 1} /\ new \in Nat
              /\ old \in Nat /\ table \in Nat /\ old <= table /\ table <= old + crashes
            BY <1>0, <2>2, <2>3
        <3>2. crashes \in Nat /\ crashes' = crashes + 1
            BY <1>0, <2>1
        <3>. HIDE DEF one, old, new, table
        <3>3. new <= table /\ table <= new + crashes'
            BY <3>1, <3>2
        <3>. QED
            BY <2>1, <3>3 DEF new, table
    <2>. QED
        BY <1>1, <2>4
<1>8. CASE Restart
    <2>1. /\ UNCHANGED <<rows, toCount, crashes>> /\ toCount = {}
          /\ \A c \in Counters : /\ earlier'[c] = earlier[c] + metrics[c]
                                 /\ metrics'[c] = 0
        BY <1>0, <1>8 DEF Restart, NoMetrics, TypeOK
    <2>2. \A c \in Counters : Counted(c)' = Counted(c)
        BY <1>0, <2>1 DEF Counted, Uncounted
    <2>. QED
        BY <1>0, <1>1, <2>1, <2>2
<1>. QED
    BY <1>3, <1>4, <1>5, <1>6, <1>7, <1>8
    DEF Next, vars, Tick, TakeNow, FetchPending, Fetch, FetchError, Publish,
        PublishReturns, Mark, MarkError, Close, Stop

\* Nothing is counted of an empty table.
LEMMA InitMetrics == Init => MetricsMatchTable
<1>1. SUFFICES ASSUME Init PROVE MetricsMatchTable
    OBVIOUS
<1>2. DOMAIN rows = {}
    BY <1>1 DEF Init
<1>3. /\ \A s : InStatus(rows, s) = {}
      /\ FailedAttempts(rows) = {}
    BY <1>2 DEF InStatus, FailedAttempts
<1>4. \A c \in Counters : metrics[c] = 0 /\ earlier[c] = 0 /\ Uncounted(c) = 0
    BY <1>1 DEF Init, NoMetrics, Uncounted
<1>5. \A c \in Counters : Totals(rows)[c] = 0
    BY <1>3, FS_EmptySet DEF Totals, Counters
<1>6. crashes = 0
    BY <1>1 DEF Init
<1>. QED
    BY <1>4, <1>5, <1>6 DEF MetricsMatchTable

-----------------------------------------------------------------------------
(***************************************************************************)
(* The theorems.                                                           *)
(***************************************************************************)

\* The invariant holds before anything happens.
LEMMA InitInvariant == Init => IInv
<1>1. SUFFICES ASSUME Init
               PROVE  IInv
    OBVIOUS
<1>2. /\ rows = <<>> /\ calls = <<>> /\ unrecorded = <<>> /\ arrivals = <<>>
      /\ Len(rows) = 0 /\ Ids = {} /\ DOMAIN arrivals = {} /\ DOMAIN batch = {}
    BY <1>1 DEF Init, Ids
<1>3. /\ rows \in Seq(Row)
      /\ calls \in Seq(Nat) /\ unrecorded \in Seq(Nat) /\ arrivals \in Seq(Ids)
    BY <1>2, EmptySeq
<1>4. TypeOK
    <2>1. metrics \in [Counters -> Nat] /\ earlier \in [Counters -> Nat]
        BY <1>1 DEF Init, NoMetrics
    <2>2. /\ faults \in 0..MaxFaults /\ Len(rows) <= MaxRows
          /\ Len(calls) = Len(rows) /\ Len(unrecorded) = Len(rows)
        BY <1>1, <1>2, ConstantsAssumption DEF Init
    <2>3. /\ pc = "idle" /\ outcome = "none" /\ cancelled = FALSE
          /\ batchSize \in BatchSizes /\ toCount = {} /\ crashes = 0
          /\ clock \in Nat /\ now \in 0..clock
        BY <1>1 DEF Init
    <2>. QED
        BY <1>2, <1>3, <2>1, <2>2, <2>3 DEF TypeOK
<1>. QED
    BY <1>1, <1>2, <1>4
    DEF Init, IInv, AttemptsAccounted, BatchIsFresh, SuccessArrived,
        StampsOrdered, NothingLeftBehind, InOrderIfStampedInOrder

\* Every behaviour of the dispatcher keeps the inductive invariant.
THEOREM InvariantHolds == Spec => []IInv
<1>1. IInv /\ [Next]_vars => IInv'
    BY TypeStep, AttemptsStep, FreshStep, SuccessStep, StampsStep, LeftBehindStep,
       OvertakenStep
    DEF IInv
<1>. QED
    BY InitInvariant, <1>1, PTL DEF Spec

\* Every variable keeps its type: in particular no batch entry outlives the
\* batch, and no row is ever charged more than MaxRetry attempts.
THEOREM DispatcherTypes == Spec => []TypeOK
<1>1. IInv => TypeOK
    BY DEF IInv
<1>. QED
    BY InvariantHolds, <1>1, PTL

\* Every Publish call is an attempt of its row, its success, in flight or
\* unrecorded, through any number of batches, failed updates and restarts.
THEOREM CallsAccounted == Spec => []AttemptsAccounted
<1>1. IInv => AttemptsAccounted
    BY DEF IInv
<1>. QED
    BY InvariantHolds, <1>1, PTL

\* The counters of all the processes add up to what the table says, but for at most
\* one result per crash; they never count what was not written.
THEOREM CountersMatchTable == Spec => []MetricsMatchTable
<1>1. IInv /\ MetricsMatchTable /\ [Next]_vars => MetricsMatchTable'
    BY MetricsStep
<1>. QED
    BY InvariantHolds, InitMetrics, <1>1, PTL DEF Spec

\* An event overtakes an earlier one only after a delivery of that one failed, or
\* because that one was stamped later, whatever the batch size.
THEOREM OrderKept == Spec => []InOrderIfStampedInOrder
<1>1. IInv => InOrderIfStampedInOrder
    BY DEF IInv
<1>. QED
    BY InvariantHolds, <1>1, PTL

\* What the queue sees of the table.
States == [i \in Ids |-> rows[i].status]

\* A step of the dispatcher is a step of the queue it implements, or none.
LEMMA QueueStep ==
    ASSUME IInv, [Next]_vars
    PROVE  [Queue!Next]_(Queue!vars)
<1>. USE DEF process, history
<1>0. TypeOK /\ \A i \in Ids : rows[i] \in Row
    BY IdsAreNumbers DEF IInv
<1>1. CASE Enqueue
    <2>1. /\ Len(rows) \in Nat /\ Ids = 1..Len(rows)
          /\ Ids' = Ids \cup {Len(rows) + 1}
          /\ \A i \in Ids : rows'[i] = rows[i]
          /\ rows'[Len(rows) + 1].status = "pending"
        BY <1>0, <1>1, EnqueueEffect, IdsAreNumbers, NewRowIsFresh
    <2>2. States \in Seq(Statuses) /\ Len(States) = Len(rows)
        <3>1. States \in [1..Len(rows) -> Statuses]
            BY <1>0, <2>1 DEF States, Row
        <3>. QED
            BY <2>1, <3>1, SeqOfLength
    <2>3. States' = Append(States, "pending")
        <3>1. States' \in Seq(Statuses) /\ Len(States') = Len(rows) + 1
            <4>1. States' \in [1..(Len(rows) + 1) -> Statuses]
                BY <1>0, <2>1 DEF States, Row, Statuses
            <4>. QED
                BY <2>1, <4>1, SeqOfLength
        <3>2. /\ Append(States, "pending") \in Seq(Statuses)
              /\ Len(Append(States, "pending")) = Len(rows) + 1
              /\ \A i \in 1..Len(rows) : Append(States, "pending")[i] = States[i]
              /\ Append(States, "pending")[Len(rows) + 1] = "pending"
            BY <2>1, <2>2, AppendProperties DEF Statuses
        <3>3. \A i \in 1..(Len(rows) + 1) : States'[i] = Append(States, "pending")[i]
            BY <2>1, <3>2 DEF States
        <3>. QED
            BY <3>1, <3>2, <3>3, SeqEqual
    <2>4. Arrived' = Arrived /\ calls' = Append(calls, 0)
        BY <1>1 DEF Enqueue, Arrived
    <2>. QED
        BY <2>3, <2>4 DEF Queue!Next, Queue!Enqueue, States
<1>2. CASE UNCHANGED <<rows, calls, arrivals>>
    BY <1>2 DEF Queue!vars, Ids, Arrived
<1>3. ASSUME NEW result, NEW delivered \in BOOLEAN, PublishReturns(result, delivered)
      PROVE  [Queue!Next]_(Queue!vars)
    <2>1. /\ Current \in DOMAIN batch /\ Current \in Ids
          /\ rows[Current].status = "pending"
        BY <1>0, <1>3, MarkHasCurrent DEF PublishReturns, IInv, BatchIsFresh
    <2>2. States' = States /\ calls' = [calls EXCEPT ![Current] = @ + 1]
        BY <1>3 DEF PublishReturns, States, Ids
    <2>3. Arrived' \in {Arrived, Arrived \cup {Current}}
        BY <1>0, <1>3, PublishEffect
    <2>4. States[Current] = "pending" /\ Current \in DOMAIN States
        BY <2>1 DEF States
    <2>. QED
        BY <2>2, <2>3, <2>4 DEF Queue!Next, Queue!Publish, States
<1>4. CASE MarkDispatched
    <2>1. /\ Current \in Ids /\ rows[Current].status = "pending"
          /\ Current \in Arrived /\ Arrived' = Arrived /\ calls' = calls
        BY <1>0, <1>4, MarkHasCurrent, RecordedEffect
        DEF MarkDispatched, Recorded, IInv, BatchIsFresh, SuccessArrived
    <2>2. States' = [States EXCEPT ![Current] = "dispatched"]
        BY <1>0, <1>4, <2>1, MarkDispatchedEffect DEF States
    <2>3. States[Current] = "pending" /\ Current \in DOMAIN States
        BY <2>1 DEF States
    <2>. QED
        BY <2>1, <2>2, <2>3 DEF Queue!Next, Queue!Acknowledge, States
<1>5. CASE MarkFailure
    <2>1. /\ Current \in Ids /\ rows[Current].status = "pending" /\ Ids' = Ids
          /\ rows'[Current].status \in {"pending", "dead"}
          /\ \A i \in Ids \ {Current} : rows'[i] = rows[i]
          /\ Arrived' = Arrived /\ calls' = calls
        BY <1>0, <1>5, MarkFailureTable, RecordedEffect DEF MarkFailure, Recorded
    <2>2. States[Current] = "pending" /\ Current \in DOMAIN States
        BY <2>1 DEF States
    <2>3. CASE rows'[Current].status = "dead"
        <3>1. States' = [States EXCEPT ![Current] = "dead"]
            BY <2>1, <2>3 DEF States
        <3>. QED
            BY <2>1, <2>2, <3>1 DEF Queue!Next, Queue!GiveUp, States
    <2>4. CASE rows'[Current].status = "pending"
        <3>1. States' = States
            BY <2>1, <2>4 DEF States
        <3>. QED
            BY <2>1, <3>1 DEF Queue!vars, States
    <2>. QED
        BY <2>1, <2>3, <2>4
<1>. QED
    BY <1>1, <1>2, <1>3, <1>4, <1>5
    DEF Next, vars, Tick, TakeNow, FetchPending, Fetch, FetchError, Publish, Mark,
        MarkError, Count, Close, Stop, Crash, Restart

\* The dispatcher implements at-least-once delivery, for every batch size, retry
\* limit and number of faults: what is dispatched reached the consumer, and a call of
\* the publisher is a step of the queue that only a pending row may take, so that a
\* row that is dispatched or dead is never published again.
THEOREM DispatcherImplementsAtLeastOnce == Spec => ImplementsAtLeastOnce
<1>1. Init => Queue!Init
    BY DEF Init, Queue!Init, Ids, Arrived
<1>2. IInv /\ [Next]_vars => [Queue!Next]_(Queue!vars)
    BY QueueStep
<1>. QED
    BY InvariantHolds, <1>1, <1>2, PTL DEF Spec, ImplementsAtLeastOnce, Queue!Spec

-----------------------------------------------------------------------------
(***************************************************************************)
(* Why every event is settled in the end: while one is pending there is    *)
(* something to do, what is recorded of the rows only settles them, and    *)
(* the oldest due one is in every batch. What EventuallyConsistent needs   *)
(* besides is that time passes, that the goroutine runs on and that the    *)
(* faults come to an end.                                                  *)
(***************************************************************************)

\* The rows that are due at a time, and those of them that a batch has room for.
DueAt(time) == {i \in InStatus(rows, "pending") : rows[i].next_attempt_at <= time}
FetchedAt(time) ==
    {i \in DueAt(time) : Cardinality({j \in DueAt(time) : j < i}) < batchSize}

\* What can happen next without a client.
CanWork ==
    \/ \E i \in InStatus(rows, "pending") : rows[i].next_attempt_at > clock
    \/ pc = "idle" /\ ~ cancelled /\ FetchedAt(clock) # {}
    \/ pc = "idle" /\ cancelled
    \/ pc \in {"publish", "mark"} /\ Current \in Ids /\ rows[Current].status = "pending"
    \/ pc \in {"fetch", "count", "down"}

AllSettled == \A i \in Ids : rows[i].status # "pending"

\* The dispatcher never rests on a backlog: if a row is pending then it waits for its
\* time, or the time read now gives a batch that is not empty, or the goroutine is at
\* work on a pending row or about to go on, or ends, or the process can be started
\* again.
NeverRestsOnBacklog == AllSettled \/ CanWork

\* The attempts that a row has left.
AttemptsLeft(i) == IF rows[i].status = "pending" THEN MaxRetry - rows[i].attempts ELSE 0

\* Whatever happens, no row gets an attempt back, and the table records a result only
\* by taking one; a pending row has one left; and of the due rows the oldest is in
\* every batch, so that a backlog of any length starves none.
Settle ==
    /\ \A i \in Ids : i \in Ids' /\ AttemptsLeft(i)' <= AttemptsLeft(i)
    /\ \A i \in Ids : AttemptsLeft(i) = 0 <=> rows[i].status # "pending"
    /\ MarkDispatched \/ MarkFailure => \E i \in Ids : AttemptsLeft(i)' < AttemptsLeft(i)
    /\ FetchPending =>
          \A i \in Due : (\A j \in Due : i <= j) => i \in DOMAIN batch'

RowsOnlySettle == [][Settle]_vars

\* The oldest of the due rows is in every batch.
LEMMA OldestIsFetched ==
    ASSUME TypeOK, NEW time, NEW i \in DueAt(time), DueAt(time) \subseteq Nat,
           \A j \in DueAt(time) : i <= j
    PROVE  i \in FetchedAt(time)
<1>. DEFINE before == {j \in DueAt(time) : j < i}
<1>1. \A j \in Nat : i <= j => ~ (j < i)
    OBVIOUS
<1>2. before = {}
    BY <1>1
<1>3. Cardinality(before) = 0
    BY <1>2, FS_EmptySet
<1>4. batchSize \in Nat \ {0}
    BY ConstantsAssumption DEF TypeOK
<1>. HIDE DEF before
<1>5. Cardinality(before) < batchSize
    BY <1>3, <1>4
<1>. QED
    BY <1>5 DEF before, FetchedAt

\* A backlog, however long, never leaves the dispatcher at rest.
THEOREM BacklogIsWorkedOff == Spec => []NeverRestsOnBacklog
<1>1. IInv => NeverRestsOnBacklog
    <2>. SUFFICES ASSUME IInv, ~ AllSettled PROVE CanWork
        BY DEF NeverRestsOnBacklog
    <2>1. /\ TypeOK /\ Ids \subseteq Nat /\ clock \in Nat
          /\ \A i \in Ids : rows[i].next_attempt_at \in Nat
        <3>1. TypeOK
            BY DEF IInv
        <3>2. Len(rows) \in Nat /\ Ids = 1..Len(rows) /\ \A i \in Ids : rows[i] \in Row
            BY <3>1, IdsAreNumbers
        <3>3. \A row \in Row : row.next_attempt_at \in Nat
            BY DEF Row
        <3>. QED
            BY <3>1, <3>2, <3>3 DEF TypeOK
    <2>2. PICK i \in InStatus(rows, "pending") : TRUE
        BY DEF AllSettled, InStatus, Ids
    <2>3. CASE rows[i].next_attempt_at > clock
        BY <2>3 DEF CanWork
    <2>4. CASE pc = "idle" /\ ~ cancelled /\ ~ (rows[i].next_attempt_at > clock)
        <3>1. i \in Ids /\ DueAt(clock) \subseteq Ids
            BY DEF InStatus, Ids, DueAt
        <3>2. rows[i].next_attempt_at <= clock
            BY <2>1, <2>4, <3>1
        <3>3. i \in DueAt(clock) /\ DueAt(clock) \subseteq Nat
            BY <2>1, <3>1, <3>2 DEF DueAt
        <3>4. Min(DueAt(clock)) \in DueAt(clock) /\ \A j \in DueAt(clock) : Min(DueAt(clock)) <= j
            BY <3>3, MinIsLeast
        <3>5. PICK k \in DueAt(clock) : \A j \in DueAt(clock) : k <= j
            BY <3>4
        <3>6. k \in FetchedAt(clock)
            BY <2>1, <3>3, <3>5, OldestIsFetched
        <3>. QED
            BY <2>4, <3>6 DEF CanWork
    <2>5. CASE pc \in {"publish", "mark"}
        <3>1. Current \in DOMAIN batch /\ Current \in Ids
            BY <2>1, <2>5, MarkHasCurrent
        <3>. QED
            BY <2>5, <3>1 DEF CanWork, IInv, BatchIsFresh
    <2>6. pc \in {"idle", "fetch", "publish", "mark", "count", "down"} /\ cancelled \in BOOLEAN
        BY <2>1 DEF TypeOK
    <2>. QED
        BY <2>3, <2>4, <2>5, <2>6 DEF CanWork
<1>. QED
    BY InvariantHolds, <1>1, PTL

\* A pending row has an attempt left, and no other has.
LEMMA PendingHasAttempts ==
    ASSUME IInv, NEW i \in Ids
    PROVE  /\ AttemptsLeft(i) \in Nat
           /\ AttemptsLeft(i) = 0 <=> rows[i].status # "pending"
           /\ rows[i].attempts \in 0..MaxRetry
<1>1. rows[i] \in Row
    BY IdsAreNumbers DEF IInv
<1>2. /\ rows[i].attempts \in 0..MaxRetry
      /\ rows[i].status = "dead" <=> rows[i].attempts = MaxRetry
    BY <1>1 DEF Row, IInv, AttemptsAccounted
<1>3. rows[i].status = "pending" => MaxRetry - rows[i].attempts \in Nat \ {0}
    BY <1>2, ConstantsAssumption
<1>. QED
    BY <1>2, <1>3 DEF AttemptsLeft

\* Rows that keep their state and their attempts keep what they have left.
LEMMA SameAttemptsLeft ==
    ASSUME NEW i \in Ids, rows'[i].status = rows[i].status, rows'[i].attempts = rows[i].attempts
    PROVE  AttemptsLeft(i)' = AttemptsLeft(i)
BY DEF AttemptsLeft

LEMMA SettleStep ==
    ASSUME IInv, [Next]_vars
    PROVE  [Settle]_vars
<1>. USE DEF process, history
<1>0. TypeOK /\ \A i \in Ids : AttemptsLeft(i) \in Nat
    BY PendingHasAttempts DEF IInv
<1>1. \A i \in Ids : AttemptsLeft(i) = 0 <=> rows[i].status # "pending"
    BY PendingHasAttempts
<1>. DEFINE NoneGains == \A i \in Ids : i \in Ids' /\ AttemptsLeft(i)' <= AttemptsLeft(i)
            OneSettles == \E i \in Ids : AttemptsLeft(i)' < AttemptsLeft(i)
            OldestFetched == \A i \in Due : (\A j \in Due : i <= j) => i \in DOMAIN batch'
<1>2. ASSUME Ids \subseteq Ids',
             \A i \in Ids : rows'[i].status = rows[i].status /\ rows'[i].attempts = rows[i].attempts
      PROVE  NoneGains
    <2>1. \A i \in Ids : AttemptsLeft(i)' = AttemptsLeft(i)
        BY <1>2, SameAttemptsLeft
    <2>2. \A i \in Ids : AttemptsLeft(i)' <= AttemptsLeft(i)
        <3>. SUFFICES ASSUME NEW i \in Ids PROVE AttemptsLeft(i)' <= AttemptsLeft(i)
            OBVIOUS
        <3>1. AttemptsLeft(i)' = AttemptsLeft(i) /\ AttemptsLeft(i) \in Nat
            BY <1>0, <2>1
        <3>. QED
            BY <3>1
    <2>. QED
        BY <1>2, <2>2
<1>3. CASE Enqueue
    <2>1. NoneGains
        BY <1>0, <1>2, <1>3, EnqueueEffect
    <2>2. ~ MarkDispatched /\ ~ MarkFailure /\ ~ FetchPending
        <3>1. Len(calls') # Len(calls)
            <4>1. Len(calls') = Len(rows) + 1
                BY <1>0, <1>3, EnqueueEffect
            <4>2. Len(calls) = Len(rows) /\ Len(rows) \in Nat
                BY <1>0, IdsAreNumbers DEF TypeOK
            <4>. QED
                BY <4>1, <4>2
        <3>2. MarkDispatched \/ MarkFailure \/ FetchPending => UNCHANGED calls
            BY DEF MarkDispatched, MarkFailure, Recorded, FetchPending, Fetch
        <3>. QED
            BY <3>1, <3>2
    <2>. QED
        BY <1>1, <2>1, <2>2 DEF Settle
<1>4. CASE FetchPending
    <2>1. NoneGains
        BY <1>0, <1>2, <1>4, FetchEffect DEF Ids
    <2>2. ~ MarkDispatched /\ ~ MarkFailure
        BY <1>4 DEF FetchPending, Fetch, MarkDispatched, MarkFailure
    <2>3. OldestFetched
        <3>1. Due = DueAt(now)
            BY DEF Due, DueAt, InStatus, Ids
        <3>2. DOMAIN batch' = FetchedAt(now)
            BY <1>4, <3>1 DEF FetchPending, Fetch, FetchedAt
        <3>3. DueAt(now) \subseteq Nat
            BY <1>0, <3>1, IdsAreNumbers DEF Due
        <3>. QED
            BY <1>0, <3>1, <3>2, <3>3, OldestIsFetched
    <2>. QED
        BY <1>1, <2>1, <2>2, <2>3 DEF Settle
<1>5. CASE MarkDispatched
    <2>1. /\ Ids' = Ids /\ Current \in Ids
          /\ rows'[Current].status = "dispatched"
          /\ \A i \in Ids \ {Current} : rows'[i] = rows[i]
        BY <1>0, <1>5, MarkDispatchedEffect
    <2>2. rows[Current].status = "pending"
        BY <1>0, <1>5, MarkHasCurrent DEF MarkDispatched, IInv, BatchIsFresh
    <2>3. PICK c \in Ids : c = Current
        BY <2>1
    <2>4. AttemptsLeft(c)' = 0 /\ AttemptsLeft(c) \in Nat /\ AttemptsLeft(c) # 0
        BY <1>0, <1>1, <2>1, <2>2, <2>3 DEF AttemptsLeft
    <2>5. AttemptsLeft(c)' < AttemptsLeft(c)
        BY <2>4
    <2>6. \A i \in Ids \ {c} : AttemptsLeft(i)' <= AttemptsLeft(i)
        <3>. SUFFICES ASSUME NEW i \in Ids \ {c} PROVE AttemptsLeft(i)' <= AttemptsLeft(i)
            OBVIOUS
        <3>1. AttemptsLeft(i)' = AttemptsLeft(i) /\ AttemptsLeft(i) \in Nat
            BY <1>0, <2>1, <2>3, SameAttemptsLeft
        <3>. QED
            BY <3>1
    <2>7. AttemptsLeft(c)' <= AttemptsLeft(c)
        BY <2>4
    <2>8. NoneGains
        BY <2>1, <2>6, <2>7
    <2>9. ~ FetchPending
        BY <1>5 DEF FetchPending, Fetch, MarkDispatched
    <2>. QED
        BY <1>1, <2>5, <2>8, <2>9 DEF Settle
<1>6. CASE MarkFailure
    <2>1. /\ Ids' = Ids /\ Current \in Ids
          /\ rows'[Current].attempts = rows[Current].attempts + 1
          /\ rows'[Current].status \in {"pending", "dead"}
          /\ rows[Current].status = "pending"
          /\ \A i \in Ids \ {Current} : rows'[i] = rows[i]
        BY <1>6, MarkFailureTable
    <2>3. PICK c \in Ids : c = Current
        BY <2>1
    <2>4. /\ AttemptsLeft(c) = MaxRetry - rows[c].attempts
          /\ AttemptsLeft(c)' \in {0, MaxRetry - rows'[c].attempts}
          /\ rows'[c].attempts = rows[c].attempts + 1
          /\ rows[c].attempts \in 0..MaxRetry
          /\ AttemptsLeft(c) \in Nat /\ AttemptsLeft(c) # 0
        BY <1>0, <1>1, <2>1, <2>3, PendingHasAttempts DEF AttemptsLeft
    <2>. DEFINE a == AttemptsLeft(c)
                b == AttemptsLeft(c)'
    <2>5. b < a /\ b <= a
        <3>1. a = MaxRetry - rows[c].attempts /\ a \in Nat /\ a # 0
            BY <2>4
        <3>2. b = 0 \/ b = MaxRetry - (rows[c].attempts + 1)
            BY <2>4
        <3>3. rows[c].attempts \in Nat /\ MaxRetry \in Nat
            BY <2>4, ConstantsAssumption
        <3>. HIDE DEF a, b
        <3>. QED
            BY <3>1, <3>2, <3>3
    <2>6. \A i \in Ids \ {c} : AttemptsLeft(i)' <= AttemptsLeft(i)
        <3>. SUFFICES ASSUME NEW i \in Ids \ {c} PROVE AttemptsLeft(i)' <= AttemptsLeft(i)
            OBVIOUS
        <3>1. AttemptsLeft(i)' = AttemptsLeft(i) /\ AttemptsLeft(i) \in Nat
            BY <1>0, <2>1, <2>3, SameAttemptsLeft
        <3>. QED
            BY <3>1
    <2>8. NoneGains
        BY <2>1, <2>5, <2>6
    <2>9. ~ FetchPending
        BY <1>6 DEF FetchPending, Fetch, MarkFailure
    <2>. QED
        BY <1>1, <2>5, <2>8, <2>9 DEF Settle
<1>7. CASE \/ Tick \/ TakeNow \/ FetchError \/ Publish \/ MarkError \/ Count
           \/ Close \/ Stop \/ Crash \/ Restart
    <2>1. UNCHANGED rows
        BY <1>7 DEF Tick, TakeNow, FetchError, Publish, PublishReturns, MarkError, Count,
                    Close, Stop, Crash, Restart
    <2>2. NoneGains
        BY <1>2, <2>1 DEF Ids
    <2>. QED
        BY <1>1, <1>4, <1>5, <1>6, <2>2 DEF Settle
<1>. QED
    BY <1>3, <1>4, <1>5, <1>6, <1>7 DEF Next, Mark

\* The table only comes closer to being settled, for any number of rows, batch size,
\* retry limit and faults.
THEOREM RowsAlwaysSettle == Spec => RowsOnlySettle
<1>1. IInv /\ [Next]_vars => [Settle]_vars
    BY SettleStep
<1>. QED
    BY InvariantHolds, <1>1, PTL DEF Spec, RowsOnlySettle

-----------------------------------------------------------------------------
(***************************************************************************)
(* The pipeline. Its steps are steps of the dispatcher or of the consumer, *)
(* so all that is proved of the dispatcher holds of it; what it adds is    *)
(* the log and the copy of the consumer.                                   *)
(***************************************************************************)

\* Every row of the dispatcher has its event and its envelope.
LogTypes ==
    /\ value \in [Records -> Images]
    /\ version \in [Records -> Nat]
    /\ trail \in Seq(Events) /\ DOMAIN trail = Ids
    /\ outbox \in Seq(Envelopes) /\ DOMAIN outbox = Ids
    /\ \A i \in Ids : outbox[i] = EnvelopeOf(trail[i])

\* The versions of a record grow along the trail, up to the one it has.
VersionsGrow ==
    /\ \A i, j \in Ids :
         i < j /\ trail[i].rec = trail[j].rec => trail[i].version < trail[j].version
    /\ \A i \in Ids : 1 <= trail[i].version /\ trail[i].version <= version[trail[i].rec]

\* A record has the value that the event with its version left.
ValueInTrail ==
    \A r \in Records :
        \/ version[r] = 0 /\ value[r] = NoValue
        \/ \E i \in Ids : /\ trail[i].rec = r
                          /\ trail[i].version = version[r]
                          /\ trail[i].after = value[r]

LogInv == LogTypes /\ VersionsGrow /\ ValueInTrail

\* The copy is at least as new as every event that arrived.
ArrivedApplied ==
    \A i \in Arrived : trail[i].version <= applied[trail[i].rec]

CopyInv ==
    /\ replica \in [Records -> Images]
    /\ applied \in [Records -> Nat]
    /\ wire \subseteq Ids
    /\ ReplicaWasTrue
    /\ ArrivedApplied

\* The inductive invariant of the pipeline.
PipelineInv == IInv /\ LogInv /\ CopyInv

\* The trail has an event for every row of the dispatcher.
LEMMA TrailIsTyped ==
    ASSUME TypeOK, LogTypes
    PROVE  /\ Len(rows) \in Nat /\ Ids = 1..Len(rows)
           /\ Len(trail) = Len(rows) /\ Len(outbox) = Len(rows)
           /\ \A i \in Ids : trail[i] \in Events
<1>1. Len(rows) \in Nat /\ Ids = 1..Len(rows)
    BY IdsAreNumbers
<1>2. /\ Len(trail) \in Nat /\ Ids = 1..Len(trail)
      /\ Len(outbox) \in Nat /\ Ids = 1..Len(outbox)
    BY LenProperties DEF LogTypes
<1>3. \A m, n \in Nat : 1..m = 1..n => m = n
    <2>1. SUFFICES ASSUME NEW m \in Nat, NEW n \in Nat, 1..m = 1..n
                   PROVE  m <= n /\ n <= m
        OBVIOUS
    <2>2. m >= 1 => m \in 1..n
        BY <2>1
    <2>3. n >= 1 => n \in 1..m
        BY <2>1
    <2>. QED
        BY <2>2, <2>3
<1>4. \A i \in 1..Len(trail) : trail[i] \in Events
    BY ElementOfSeq DEF LogTypes
<1>. QED
    BY <1>1, <1>2, <1>3, <1>4

\* What an event says, typed.
LEMMA EventFields ==
    ASSUME NEW ev \in Events
    PROVE  /\ ev.rec \in Records /\ ev.version \in Nat /\ ev.after \in Images
           /\ EnvelopeOf(ev).rec = ev.rec /\ EnvelopeOf(ev).version = ev.version
           /\ EnvelopeOf(ev).payload = ev.after
    BY DEF Events, EnvelopeOf

\* A mutation appends one event, the next one of its record, and its envelope.
LEMMA MutateEffect ==
    ASSUME TypeOK, LogTypes, MutateRecord
    PROVE  \E r \in Records, after \in Images, ev \in Events :
             /\ ev.rec = r /\ ev.version = version[r] + 1 /\ ev.after = after
             /\ value' = [value EXCEPT ![r] = after]
             /\ version' = [version EXCEPT ![r] = @ + 1]
             /\ trail' = Append(trail, ev)
             /\ outbox' = Append(outbox, EnvelopeOf(ev))
             /\ EnvelopeOf(ev) \in Envelopes
<1>1. PICK r \in Records, after \in Images : Store!Mutate(FreshId, r, after)
    BY DEF MutateRecord
<1>2. FreshId \in EventIds
    BY DEF MutateRecord, FreshId, UnusedIds
<1>. DEFINE ev == Store!NewEvent(FreshId, r, version[r] + 1, value[r], after)
<1>3. ev \in Events
    <2>1. version[r] + 1 \in Nat /\ value[r] \in Images
        BY DEF LogTypes
    <2>2. Store!ActionOf(value[r], after) \in Actions
        BY DEF Store!ActionOf, Actions
    <2>. QED
        BY <1>2, <2>1, <2>2 DEF Store!NewEvent, Events
<1>4. ev.rec = r /\ ev.version = version[r] + 1 /\ ev.after = after
    BY DEF Store!NewEvent
<1>5. \A e \in Events : Store!EnvelopeOf(e) = EnvelopeOf(e) /\ EnvelopeOf(e) \in Envelopes
    BY DEF Store!EnvelopeOf, EnvelopeOf, Envelopes, Events
<1>6. /\ value' = [value EXCEPT ![r] = after]
      /\ version' = [version EXCEPT ![r] = @ + 1]
      /\ trail' = Append(trail, ev)
      /\ outbox' = Append(outbox, Store!EnvelopeOf(ev))
    BY <1>1 DEF Store!Mutate
<1>. HIDE DEF ev
<1>. QED
    BY <1>3, <1>4, <1>5, <1>6

\* A mutation keeps the log in order; the old events stay where they are.
LEMMA MutateKeepsLog ==
    ASSUME TypeOK, LogInv, MutateRecord
    PROVE  /\ LogInv'
           /\ Ids' = Ids \cup {Len(rows) + 1}
           /\ \A i \in Ids : trail'[i] = trail[i]
<1>1. PICK r \in Records, after \in Images, ev \in Events :
        /\ ev.rec = r /\ ev.version = version[r] + 1 /\ ev.after = after
        /\ value' = [value EXCEPT ![r] = after]
        /\ version' = [version EXCEPT ![r] = @ + 1]
        /\ trail' = Append(trail, ev)
        /\ outbox' = Append(outbox, EnvelopeOf(ev))
        /\ EnvelopeOf(ev) \in Envelopes
    BY MutateEffect DEF LogInv
<1>. DEFINE n == Len(rows) + 1
<1>2. /\ Ids = 1..Len(rows) /\ Len(rows) \in Nat
      /\ Len(trail) = Len(rows) /\ Len(outbox) = Len(rows)
      /\ Ids' = Ids \cup {n} /\ Ids' = 1..n
    <2>1. /\ Ids = 1..Len(rows) /\ Len(rows) \in Nat
          /\ Len(trail) = Len(rows) /\ Len(outbox) = Len(rows)
        BY TrailIsTyped DEF LogInv
    <2>2. Ids' = Ids \cup {Len(rows) + 1}
        BY EnqueueEffect DEF MutateRecord
    <2>3. \A k \in Nat : 1..(k + 1) = 1..k \cup {k + 1}
        OBVIOUS
    <2>. QED
        BY <2>1, <2>2, <2>3
<1>3. /\ trail' \in Seq(Events) /\ DOMAIN trail' = 1..n
      /\ outbox' \in Seq(Envelopes) /\ DOMAIN outbox' = 1..n
      /\ \A i \in Ids : trail'[i] = trail[i] /\ outbox'[i] = outbox[i]
      /\ trail'[n] = ev /\ outbox'[n] = EnvelopeOf(ev)
    BY <1>1, <1>2, AppendProperties, LenProperties DEF LogInv, LogTypes
<1>4. /\ value' \in [Records -> Images] /\ version' \in [Records -> Nat]
      /\ value'[r] = after /\ version'[r] = version[r] + 1
      /\ \A s \in Records \ {r} : value'[s] = value[s] /\ version'[s] = version[s]
      /\ \A s \in Records : version[s] \in Nat /\ version'[s] \in Nat
    BY <1>1 DEF LogInv, LogTypes
<1>5. /\ \A i \in Ids : trail[i].rec \in Records /\ trail[i].version \in Nat
      /\ trail'[n].rec = r /\ trail'[n].version = version[r] + 1
      /\ trail'[n].after = after
    BY <1>1, <1>3, TrailIsTyped, EventFields DEF LogInv
<1>. HIDE DEF n
<1>6. LogTypes'
    <2>1. \A i \in Ids' : outbox'[i] = EnvelopeOf(trail'[i])
        BY <1>2, <1>3 DEF LogInv, LogTypes
    <2>. QED
        BY <1>2, <1>3, <1>4, <2>1 DEF LogTypes
<1>7. \A i \in Ids : i < n /\ i # n
    BY <1>2 DEF n
<1>8. \A i \in Ids : trail[i].version <= version[trail[i].rec] /\ 1 <= trail[i].version
    BY DEF LogInv, VersionsGrow
<1>9. VersionsGrow'
    <2>1. ASSUME NEW i \in Ids', NEW j \in Ids', i < j, trail'[i].rec = trail'[j].rec
          PROVE  trail'[i].version < trail'[j].version
        <3>1. CASE j \in Ids
            <4>1. i \in Ids
                BY <1>2, <2>1, <3>1 DEF n
            <4>. QED
                BY <1>3, <2>1, <3>1, <4>1 DEF LogInv, VersionsGrow
        <3>2. CASE j = n
            <4>1. i \in Ids
                BY <1>2, <2>1, <3>2 DEF n
            <4>2. trail[i].rec = r /\ trail[i].version <= version[r]
                BY <1>3, <1>5, <1>8, <2>1, <3>2, <4>1
            <4>. QED
                BY <1>3, <1>4, <1>5, <3>2, <4>1, <4>2
        <3>. QED
            BY <1>2, <3>1, <3>2
    <2>2. ASSUME NEW i \in Ids'
          PROVE  1 <= trail'[i].version /\ trail'[i].version <= version'[trail'[i].rec]
        <3>1. CASE i \in Ids
            <4>1. \A s \in Records : version[s] <= version'[s]
                BY <1>4
            <4>2. trail'[i] = trail[i] /\ trail[i].rec \in Records
                BY <1>3, <1>5, <3>1
            <4>. QED
                BY <1>4, <1>5, <1>8, <3>1, <4>1, <4>2
        <3>2. CASE i = n
            BY <1>4, <1>5, <3>2
        <3>. QED
            BY <1>2, <3>1, <3>2
    <2>. QED
        BY <2>1, <2>2 DEF VersionsGrow
<1>10. ValueInTrail'
    <2>1. SUFFICES ASSUME NEW s \in Records
                   PROVE  (\/ version[s] = 0 /\ value[s] = NoValue
                           \/ \E i \in Ids : /\ trail[i].rec = s
                                             /\ trail[i].version = version[s]
                                             /\ trail[i].after = value[s])'
        BY DEF ValueInTrail
    <2>2. CASE s = r
        BY <1>2, <1>4, <1>5, <2>2
    <2>3. CASE s # r
        <3>1. value'[s] = value[s] /\ version'[s] = version[s]
            BY <1>4, <2>3
        <3>2. CASE version[s] = 0 /\ value[s] = NoValue
            BY <3>1, <3>2
        <3>3. ASSUME NEW i \in Ids, trail[i].rec = s, trail[i].version = version[s],
                     trail[i].after = value[s]
              PROVE  /\ i \in Ids' /\ trail'[i].rec = s
                     /\ trail'[i].version = version'[s] /\ trail'[i].after = value'[s]
            BY <1>2, <1>3, <3>1, <3>3
        <3>. QED
            BY <3>2, <3>3 DEF LogInv, ValueInTrail
    <2>. QED
        BY <2>2, <2>3
<1>. QED
    BY <1>2, <1>3, <1>6, <1>9, <1>10 DEF LogInv, n

\* The consumer takes an event only if it is newer than its copy; then the copy
\* is what the event says.
LEMMA ApplyEffect ==
    ASSUME TypeOK, LogInv, CopyInv, NEW i \in Ids, Apply(i), UNCHANGED trail
    PROVE  /\ replica' \in [Records -> Images]
           /\ applied' \in [Records -> Nat]
           /\ ReplicaWasTrue'
           /\ \A r \in Records : applied[r] <= applied'[r]
           /\ trail[i].version <= applied'[trail[i].rec]
<1>. DEFINE r == trail[i].rec
<1>1. /\ DOMAIN trail = Ids /\ trail[i] \in Events /\ outbox[i] = EnvelopeOf(trail[i])
    BY TrailIsTyped DEF LogInv, LogTypes
<1>2. /\ r \in Records /\ trail[i].version \in Nat /\ trail[i].after \in Images
      /\ outbox[i].rec = r /\ outbox[i].version = trail[i].version
      /\ outbox[i].payload = trail[i].after
    BY <1>1, EventFields
<1>3. /\ replica \in [Records -> Images] /\ applied \in [Records -> Nat]
      /\ ReplicaWasTrue
      /\ \A s \in Records : applied[s] \in Nat
    BY DEF CopyInv
<1>. HIDE DEF r
<1>4. CASE trail[i].version > applied[r]
    <2>1. /\ replica' = [replica EXCEPT ![r] = trail[i].after]
          /\ applied' = [applied EXCEPT ![r] = trail[i].version]
        BY <1>2, <1>4 DEF Apply
    <2>2. /\ replica' \in [Records -> Images] /\ applied' \in [Records -> Nat]
          /\ replica'[r] = trail[i].after /\ applied'[r] = trail[i].version
          /\ \A s \in Records \ {r} : replica'[s] = replica[s] /\ applied'[s] = applied[s]
        BY <1>2, <1>3, <2>1
    <2>3. \A s \in Records : applied[s] <= applied'[s]
        BY <1>2, <1>3, <1>4, <2>2
    <2>4. ReplicaWasTrue'
        <3>1. SUFFICES ASSUME NEW s \in Records
                       PROVE  \/ applied'[s] = 0 /\ replica'[s] = NoValue
                              \/ \E k \in DOMAIN trail :
                                   /\ trail[k].rec = s
                                   /\ trail[k].version = applied'[s]
                                   /\ trail[k].after = replica'[s]
            BY DEF ReplicaWasTrue
        <3>2. CASE s = r
            BY <1>1, <2>2, <3>2 DEF r
        <3>3. CASE s # r
            BY <1>3, <2>2, <3>3 DEF ReplicaWasTrue
        <3>. QED
            BY <3>2, <3>3
    <2>. QED
        BY <1>2, <2>2, <2>3, <2>4 DEF r
<1>5. CASE ~ (trail[i].version > applied[r])
    <2>1. UNCHANGED <<replica, applied>>
        BY <1>2, <1>5 DEF Apply
    <2>. QED
        BY <1>2, <1>3, <1>5, <2>1 DEF ReplicaWasTrue, r
<1>. QED
    BY <1>4, <1>5

\* Only rows of the table arrive.
LEMMA ArrivedAreRows ==
    ASSUME TypeOK
    PROVE  Arrived \subseteq Ids
    BY ElementOfSeq, LenProperties DEF Arrived, TypeOK

\* A mutation leaves the copy as true as it was.
LEMMA MutateKeepsCopy ==
    ASSUME TypeOK, LogInv, CopyInv, MutateRecord
    PROVE  CopyInv'
<1>1. /\ Ids' = Ids \cup {Len(rows) + 1}
      /\ \A i \in Ids : trail'[i] = trail[i]
      /\ LogInv'
    BY MutateKeepsLog
<1>2. UNCHANGED <<replica, applied, wire, arrivals>>
    BY DEF MutateRecord, Enqueue, consumer
<1>3. DOMAIN trail = Ids /\ DOMAIN trail' = Ids'
    BY <1>1 DEF LogInv, LogTypes
<1>4. Arrived' = Arrived /\ Arrived \subseteq Ids
    BY <1>2, ArrivedAreRows DEF Arrived
<1>5. ReplicaWasTrue'
    BY <1>1, <1>2, <1>3 DEF CopyInv, ReplicaWasTrue
<1>6. ArrivedApplied'
    BY <1>1, <1>2, <1>4 DEF CopyInv, ArrivedApplied
<1>. QED
    BY <1>1, <1>2, <1>5, <1>6 DEF CopyInv

\* So does a delivery that fails for good.
LEMMA CopySame ==
    ASSUME LogInv, CopyInv, Ids' = Ids, Arrived' = Arrived,
           UNCHANGED <<trail, replica, applied>>, wire' \subseteq Ids
    PROVE  CopyInv'
    BY DEF CopyInv, ReplicaWasTrue, ArrivedApplied

\* A delivery brings the copy up to the event that is delivered.
LEMMA DeliveryKeepsCopy ==
    ASSUME TypeOK, LogInv, CopyInv, NEW i \in Ids, Apply(i), Ids' = Ids,
           Arrived' \subseteq Arrived \cup {i}, UNCHANGED trail, wire' \subseteq Ids
    PROVE  CopyInv'
<1>1. /\ replica' \in [Records -> Images] /\ applied' \in [Records -> Nat]
      /\ ReplicaWasTrue'
      /\ \A r \in Records : applied[r] <= applied'[r]
      /\ trail[i].version <= applied'[trail[i].rec]
    BY ApplyEffect
<1>2. ASSUME NEW k \in Arrived'
      PROVE  trail'[k].version <= applied'[trail'[k].rec]
    <2>1. CASE k = i
        BY <1>1, <2>1
    <2>2. CASE k # i
        <3>1. k \in Arrived /\ k \in Ids
            BY <1>2, <2>2, ArrivedAreRows
        <3>2. trail[k].rec \in Records /\ trail[k].version \in Nat
            BY <3>1, TrailIsTyped, EventFields DEF LogInv
        <3>3. trail[k].version <= applied[trail[k].rec]
            BY <3>1 DEF CopyInv, ArrivedApplied
        <3>4. applied[trail[k].rec] \in Nat /\ applied'[trail[k].rec] \in Nat
            BY <1>1, <3>2 DEF CopyInv
        <3>. QED
            BY <1>1, <3>2, <3>3, <3>4
    <2>. QED
        BY <2>1, <2>2
<1>. QED
    BY <1>1, <1>2 DEF CopyInv, ArrivedApplied

\* Every step of the pipeline is one of the dispatcher, or none.
LEMMA PipelineStepIsDispatchers ==
    ASSUME [NextAll]_allVars
    PROVE  [Next]_vars
<1>1. CASE PublishToConsumer
    BY <1>1 DEF PublishToConsumer, Publish, Next
<1>. QED
    BY <1>1 DEF NextAll, allVars, MutateRecord, ArriveLate, DispatcherStep, Goroutine, Next

\* The invariant of the pipeline is inductive.
LEMMA PipelineStep ==
    ASSUME PipelineInv, [NextAll]_allVars
    PROVE  (LogInv /\ CopyInv)'
<1>0. IInv /\ TypeOK /\ LogInv /\ CopyInv
    BY DEF PipelineInv, IInv
<1>1. CASE MutateRecord
    BY <1>0, <1>1, MutateKeepsLog, MutateKeepsCopy
<1>2. ASSUME UNCHANGED store, Ids' = Ids
      PROVE  LogInv'
    BY <1>0, <1>2 DEF store, LogInv, LogTypes, VersionsGrow, ValueInTrail
<1>3. CASE PublishToConsumer
    <2>1. UNCHANGED store /\ UNCHANGED trail
        BY <1>3 DEF PublishToConsumer, store
    <2>2. PICK result \in {"ok", "error"}, delivered \in BOOLEAN :
            PublishReturns(result, delivered) /\
            \/ delivered /\ Apply(Current) /\ UNCHANGED wire
            \/ /\ ~ delivered /\ wire' \in {wire, wire \cup {Current}}
               /\ UNCHANGED <<replica, applied>>
        BY <1>3, Zenon DEF PublishToConsumer
    <2>3. Ids' = Ids /\ UNCHANGED rows /\ Current \in Ids
        BY <1>0, <2>2, MarkHasCurrent DEF PublishReturns, Ids
    <2>4. Arrived' = IF delivered THEN Arrived \cup {Current} ELSE Arrived
        BY <1>0, <2>2, PublishEffect
    <2>5. wire \subseteq Ids
        BY <1>0 DEF CopyInv
    <2>6. CASE delivered
        BY <1>0, <2>1, <2>2, <2>3, <2>4, <2>5, <2>6, DeliveryKeepsCopy, <1>2
    <2>7. CASE ~ delivered
        BY <1>0, <2>1, <2>2, <2>3, <2>4, <2>5, <2>7, CopySame, <1>2
    <2>. QED
        BY <2>6, <2>7
<1>4. CASE ArriveLate
    <2>1. PICK i \in wire : Apply(i) /\ wire' = wire \ {i} /\ UNCHANGED <<vars, store>>
        BY <1>4 DEF ArriveLate
    <2>2. /\ i \in Ids /\ Ids' = Ids /\ Arrived' = Arrived /\ wire' \subseteq Ids
          /\ UNCHANGED rows /\ UNCHANGED trail
        BY <1>0, <2>1 DEF CopyInv, Ids, Arrived, vars, store, history
    <2>. QED
        BY <1>0, <1>2, <2>1, <2>2, DeliveryKeepsCopy
<1>5. ASSUME UNCHANGED <<store, consumer>>, Ids' = Ids, UNCHANGED arrivals
      PROVE  (LogInv /\ CopyInv)'
    <2>1. UNCHANGED <<trail, replica, applied, wire>> /\ Arrived' = Arrived
        BY <1>5 DEF store, consumer, Arrived
    <2>2. wire' \subseteq Ids
        BY <1>0, <2>1 DEF CopyInv
    <2>. QED
        BY <1>0, <1>2, <1>5, <2>1, <2>2, CopySame
<1>6. CASE DispatcherStep
    <2>. USE DEF process, history
    <2>1. UNCHANGED <<store, consumer>>
        BY <1>6 DEF DispatcherStep
    <2>2. CASE UNCHANGED <<rows, arrivals>>
        BY <1>5, <2>1, <2>2 DEF Ids
    <2>3. CASE MarkDispatched
        BY <1>0, <1>5, <2>1, <2>3, MarkDispatchedEffect DEF MarkDispatched, Recorded
    <2>4. CASE MarkFailure
        BY <1>0, <1>5, <2>1, <2>4, MarkFailureTable DEF MarkFailure, Recorded
    <2>. QED
        BY <1>6, <2>2, <2>3, <2>4
        DEF DispatcherStep, Goroutine, Tick, TakeNow, FetchPending, Fetch, FetchError, Mark,
            MarkError, Count, Close, Stop, Crash, Restart
<1>7. CASE UNCHANGED allVars
    BY <1>5, <1>7 DEF allVars, vars, history, Ids
<1>. QED
    BY <1>1, <1>3, <1>4, <1>6, <1>7 DEF NextAll

LEMMA InitPipeline == InitAll => PipelineInv
<1>1. SUFFICES ASSUME InitAll PROVE PipelineInv
    OBVIOUS
<1>2. IInv
    BY <1>1, InitInvariant DEF InitAll
<1>3. /\ value = [r \in Records |-> NoValue] /\ version = [r \in Records |-> 0]
      /\ replica = [r \in Records |-> NoValue] /\ applied = [r \in Records |-> 0]
      /\ trail = <<>> /\ outbox = <<>> /\ wire = {} /\ rows = <<>> /\ arrivals = <<>>
    BY <1>1 DEF InitAll, Store!Init, Init
<1>4. Ids = {} /\ Arrived = {} /\ DOMAIN trail = {} /\ DOMAIN outbox = {}
    BY <1>3 DEF Ids, Arrived
<1>5. LogInv
    BY <1>3, <1>4, EmptySeq DEF LogInv, LogTypes, VersionsGrow, ValueInTrail, Images
<1>6. CopyInv
    BY <1>3, <1>4 DEF CopyInv, ReplicaWasTrue, ArrivedApplied, Images
<1>. QED
    BY <1>2, <1>5, <1>6 DEF PipelineInv

\* The pipeline runs the dispatcher as it is specified alone: what is proved of
\* the dispatcher holds in the composition.
THEOREM PipelineRunsDispatcher == SpecAll => Spec
<1>1. InitAll => Init
    BY DEF InitAll
<1>2. [NextAll]_allVars => [Next]_vars
    BY PipelineStepIsDispatchers
<1>. QED
    BY <1>1, <1>2, PTL DEF SpecAll, Spec

\* The inductive invariant of the pipeline.
THEOREM PipelineInvariant == SpecAll => []PipelineInv
<1>1. PipelineInv /\ [NextAll]_allVars => (LogInv /\ CopyInv)'
    BY PipelineStep
<1>2. IInv /\ LogInv /\ CopyInv => PipelineInv
    BY DEF PipelineInv
<1>. QED
    BY InitPipeline, PipelineRunsDispatcher, InvariantHolds, <1>1, <1>2, PTL
    DEF SpecAll, PipelineInv

\* The pipeline appends to the log only whole mutations, as the record store does.
THEOREM PipelineWritesLog == SpecAll => Store!Spec
<1>1. InitAll => Store!Init
    BY DEF InitAll
<1>2. [NextAll]_allVars => [Store!Next]_(Store!vars)
    <2>1. SUFFICES ASSUME [NextAll]_allVars PROVE [Store!Next]_(Store!vars)
        OBVIOUS
    <2>2. CASE MutateRecord
        <3>1. PICK r \in Records, after \in Images : Store!Mutate(FreshId, r, after)
            BY <2>2 DEF MutateRecord
        <3>2. FreshId \in EventIds
            BY <2>2 DEF MutateRecord, FreshId, UnusedIds
        <3>. QED
            BY <3>1, <3>2 DEF Store!Next, Store!Images, Images
    <2>3. CASE UNCHANGED store
        BY <2>3 DEF store, Store!vars
    <2>. QED
        BY <2>1, <2>2, <2>3 DEF NextAll, PublishToConsumer, ArriveLate, DispatcherStep, allVars
<1>. QED
    BY <1>1, <1>2, PTL DEF SpecAll, Store!Spec

\* The copy of the consumer is always one that the record really had, for any
\* number of records, mutations, retries, restarts and late deliveries.
THEOREM ReplicaAlwaysWasTrue == SpecAll => []ReplicaWasTrue
<1>1. PipelineInv => ReplicaWasTrue
    BY DEF PipelineInv, CopyInv
<1>. QED
    BY PipelineInvariant, <1>1, PTL

\* Two events of a record that have the same version are the same event.
LEMMA VersionTellsEvent ==
    ASSUME TypeOK, LogInv, NEW i \in Ids, NEW j \in Ids,
           trail[i].rec = trail[j].rec, trail[i].version = trail[j].version
    PROVE  i = j
<1>1. i \in Nat /\ j \in Nat
    BY IdsAreNumbers
<1>2. trail[i].version \in Nat
    BY TrailIsTyped, EventFields DEF LogInv
<1>3. ~ (i < j) /\ ~ (j < i)
    BY <1>2 DEF LogInv, VersionsGrow
<1>. QED
    BY <1>1, <1>3

\* The latest event of a record has the version that the record has.
LEMMA LatestHasVersion ==
    ASSUME TypeOK, LogInv, NEW i \in Ids, LatestRow(outbox[i].rec, i)
    PROVE  /\ trail[i].rec \in Records /\ outbox[i].rec = trail[i].rec
           /\ trail[i].version = version[trail[i].rec] /\ trail[i].version >= 1
           /\ trail[i].after = value[trail[i].rec]
<1>. DEFINE r == trail[i].rec
<1>1. \A k \in Ids : /\ trail[k].rec \in Records /\ trail[k].version \in Nat
                     /\ outbox[k].rec = trail[k].rec
    BY TrailIsTyped, EventFields DEF LogInv, LogTypes
<1>2. \A k \in Ids : /\ 1 <= trail[k].version
                     /\ trail[k].version <= version[trail[k].rec]
    BY DEF LogInv, VersionsGrow
<1>3. version[r] \in Nat /\ r \in Records
    BY <1>1 DEF LogInv, LogTypes
<1>4. PICK k \in Ids : /\ trail[k].rec = r
                       /\ trail[k].version = version[r]
                       /\ trail[k].after = value[r]
    BY <1>1, <1>2, <1>3 DEF LogInv, ValueInTrail
<1>5. k = i
    <2>1. /\ i \in Nat /\ k \in Nat /\ k <= Len(outbox)
          /\ Len(outbox) \in Nat
        BY TrailIsTyped DEF LogInv
    <2>2. ~ (i < k)
        BY <1>1, <1>4, <2>1 DEF LatestRow
    <2>3. ~ (k < i)
        BY <1>1, <1>2, <1>3, <1>4, <2>1 DEF LogInv, VersionsGrow
    <2>. QED
        BY <2>1, <2>2, <2>3
<1>. QED
    BY <1>1, <1>2, <1>4, <1>5

\* Once the latest event of a record is marked dispatched its copy is current:
\* it arrived, so the copy is at least as new, and there is nothing newer.
THEOREM CurrentWhenDispatched == SpecAll => []CurrentOnceDispatched
<1>1. ASSUME PipelineInv
      PROVE  CurrentOnceDispatched
    <2>1. SUFFICES ASSUME NEW i \in Ids, LatestRow(outbox[i].rec, i),
                          rows[i].status = "dispatched"
                   PROVE  replica[outbox[i].rec] = value[outbox[i].rec]
        BY DEF CurrentOnceDispatched
    <2>. DEFINE r == trail[i].rec
    <2>2. IInv /\ TypeOK /\ LogInv /\ CopyInv
        BY <1>1 DEF PipelineInv, IInv
    <2>3. /\ r \in Records /\ outbox[i].rec = r
          /\ trail[i].version = version[r] /\ trail[i].version >= 1
          /\ trail[i].after = value[r]
        BY <2>1, <2>2, LatestHasVersion
    <2>4. trail[i].version <= applied[r] /\ applied[r] \in Nat
        BY <2>1, <2>2, <2>3 DEF IInv, SuccessArrived, CopyInv, ArrivedApplied
    <2>5. PICK k \in Ids : /\ trail[k].rec = r
                           /\ trail[k].version = applied[r]
                           /\ trail[k].after = replica[r]
        <3>1. DOMAIN trail = Ids /\ version[r] \in Nat
            BY <2>2, <2>3 DEF LogInv, LogTypes
        <3>. QED
            BY <2>2, <2>3, <2>4, <3>1 DEF CopyInv, ReplicaWasTrue
    <2>6. trail[k].version <= version[r] /\ version[r] \in Nat
        BY <2>2, <2>3, <2>5 DEF LogInv, LogTypes, VersionsGrow
    <2>7. trail[k].version = trail[i].version
        BY <2>3, <2>4, <2>5, <2>6
    <2>8. k = i
        BY <2>2, <2>3, <2>5, <2>7, VersionTellsEvent
    <2>. QED
        BY <2>3, <2>5, <2>8
<1>. QED
    BY PipelineInvariant, <1>1, PTL

-----------------------------------------------------------------------------
(***************************************************************************)
(* What it means that every event is settled.                              *)
(***************************************************************************)

\* Whenever nothing is pending, the copy of every record is current, but for those
\* whose latest event was given up.
ConsistentOnceSettled ==
    AllSettled =>
        \A r \in Records :
            \/ replica[r] = value[r]
            \/ \E i \in Ids : LatestRow(r, i) /\ rows[i].status = "dead"

\* A record that has events has a latest one.
LEMMA LatestExists ==
    ASSUME TypeOK, LogTypes, NEW k \in Ids
    PROVE  \E i \in Ids : LatestRow(outbox[k].rec, i)
<1>. DEFINE r == outbox[k].rec
            Upper == {n \in Nat : \A i \in Ids : outbox[i].rec = r => i <= n}
<1>1. /\ Len(rows) \in Nat /\ Ids = 1..Len(rows) /\ Len(outbox) = Len(rows)
    BY TrailIsTyped
<1>2. Len(rows) \in Upper /\ Upper \in SUBSET Nat
    BY <1>1
<1>3. PICK n \in Upper : \A m \in Upper : n <= m
    <2>1. Min(Upper) \in Upper /\ \A m \in Upper : Min(Upper) <= m
        BY <1>2, MinIsLeast
    <2>. QED
        BY <2>1
<1>4. \A i \in Ids : outbox[i].rec = r => i <= n
    BY <1>3
<1>5. n \in Nat /\ n >= 1 /\ n <= Len(rows)
    <2>1. n \in Nat /\ k <= n /\ n <= Len(rows)
        BY <1>2, <1>3, <1>4
    <2>. QED
        BY <1>1, <2>1
<1>6. outbox[n].rec = r
    <2>. SUFFICES ASSUME outbox[n].rec # r PROVE FALSE
        OBVIOUS
    <2>1. \A i \in Ids : outbox[i].rec = r => i <= n /\ i # n
        BY <1>4
    <2>2. \A i \in Ids : outbox[i].rec = r => i <= n - 1
        BY <1>1, <1>5, <2>1
    <2>3. n - 1 \in Nat
        BY <1>5
    <2>4. n - 1 \in Upper
        BY <2>2, <2>3
    <2>5. n <= n - 1
        BY <1>3, <2>4
    <2>. QED
        BY <1>5, <2>5
<1>7. \A j \in (n + 1)..Len(outbox) : outbox[j].rec # r
    <2>. SUFFICES ASSUME NEW j \in (n + 1)..Len(outbox), outbox[j].rec = r PROVE FALSE
        OBVIOUS
    <2>1. j \in Ids /\ j > n
        BY <1>1, <1>5
    <2>2. j <= n
        BY <1>4, <2>1
    <2>. QED
        BY <1>1, <1>5, <2>1, <2>2
<1>8. n \in Ids
    BY <1>1, <1>5
<1>. QED
    BY <1>6, <1>7, <1>8 DEF LatestRow

\* When every event is settled the copies agree with the records, for any number of
\* records, mutations, retries, restarts and late deliveries.
THEOREM SettledMeansConsistent == SpecAll => []ConsistentOnceSettled
<1>1. PipelineInv /\ CurrentOnceDispatched => ConsistentOnceSettled
    <2>. SUFFICES ASSUME PipelineInv, CurrentOnceDispatched, AllSettled, NEW r \in Records
                  PROVE  \/ replica[r] = value[r]
                         \/ \E i \in Ids : LatestRow(r, i) /\ rows[i].status = "dead"
        BY DEF ConsistentOnceSettled
    <2>1. /\ IInv /\ TypeOK /\ LogInv /\ LogTypes /\ CopyInv
          /\ DOMAIN trail = Ids
          /\ \A k \in Ids : outbox[k].rec = trail[k].rec /\ rows[k] \in Row
        BY TrailIsTyped, EventFields, IdsAreNumbers DEF PipelineInv, IInv, LogInv, LogTypes
    <2>2. CASE \E k \in Ids : trail[k].rec = r
        <3>1. PICK i \in Ids : LatestRow(r, i)
            BY <2>1, <2>2, LatestExists
        <3>2. outbox[i].rec = r
            BY <3>1 DEF LatestRow
        <3>3. rows[i].status \in {"dispatched", "dead"}
            BY <2>1 DEF AllSettled, Row, Statuses
        <3>. QED
            BY <3>1, <3>2, <3>3 DEF CurrentOnceDispatched
    <2>3. CASE \A k \in Ids : trail[k].rec # r
        <3>1. value[r] = NoValue
            BY <2>1, <2>3 DEF LogInv, ValueInTrail
        <3>2. replica[r] = NoValue
            BY <2>1, <2>3 DEF CopyInv, ReplicaWasTrue
        <3>. QED
            BY <3>1, <3>2
    <2>. QED
        BY <2>2, <2>3
<1>. QED
    BY <1>1, PipelineInvariant, CurrentWhenDispatched, PTL

=============================================================================
