---------------------------- MODULE KVStoreProofs ----------------------------
(***************************************************************************)
(* Proofs about KVStore, for every set of keys and contents, any number of *)
(* calls and faults: the endpoints implement AtomicKV, their answers are   *)
(* those of the serial order, and rows are as old as they say.             *)
(***************************************************************************)
EXTENDS KVStore, SequenceTheorems, WellFoundedInduction, TLAPS

-----------------------------------------------------------------------------
(***************************************************************************)
(* First and last positions.                                               *)
(***************************************************************************)

\* A nonempty set of numbers has a first element, and FirstOf is it.
LEMMA FirstOfIsLeast ==
    ASSUME NEW S \in SUBSET Nat, S # {}
    PROVE  FirstOf(S) \in S /\ \A j \in S : FirstOf(S) <= j
<1> DEFINE Less == {p \in Nat \X Nat : p[1] < p[2]}
<1>1. IsWellFoundedOn(Less, Nat)
    BY NatLessThanWellFounded DEF OpToRel
<1>2. \A x, y \in Nat : x <= y \/ <<y, x>> \in Less
    OBVIOUS
<1> HIDE DEF Less
<1>3. PICK x \in S : \A y \in S : ~ (<<y, x>> \in Less)
    BY <1>1, WFMin
<1>. QED
    BY <1>2, <1>3 DEF FirstOf

\* A nonempty set of positions up to n has a last one, and LastOf is it.
LEMMA LastOfIsGreatest ==
    ASSUME NEW n \in Nat, NEW S \in SUBSET (1..n), S # {}
    PROVE  LastOf(S) \in S /\ \A j \in S : j <= LastOf(S)
<1> DEFINE Mirrored == {m \in Nat : n - m \in S}
<1>1. Mirrored # {} /\ Mirrored \in SUBSET Nat
    <2>1. PICK i \in S : TRUE
        OBVIOUS
    <2>2. n - i \in Nat /\ n - (n - i) = i
        OBVIOUS
    <2>. QED
        BY <2>1, <2>2
<1>2. FirstOf(Mirrored) \in Mirrored /\ \A j \in Mirrored : FirstOf(Mirrored) <= j
    BY <1>1, FirstOfIsLeast
<1>3. PICK first \in Nat : n - first \in S /\ \A j \in Mirrored : first <= j
    BY <1>2
<1>4. ASSUME NEW j \in S
      PROVE  j <= n - first
    <2>1. n - j \in Nat /\ n - (n - j) = j
        OBVIOUS
    <2>2. first <= n - j
        BY <1>3, <2>1
    <2>. QED
        BY <2>1, <2>2
<1>. QED
    BY <1>3, <1>4 DEF LastOf

\* There is only one first and one last position.
LEMMA FirstOfUnique ==
    ASSUME NEW S \in SUBSET Nat, NEW i \in S, \A j \in S : i <= j
    PROVE  FirstOf(S) = i
<1>1. \A x \in S : (\A j \in S : x <= j) => x = i
    OBVIOUS
<1>. QED
    BY <1>1 DEF FirstOf

LEMMA LastOfUnique ==
    ASSUME NEW S \in SUBSET Nat, NEW i \in S, \A j \in S : j <= i
    PROVE  LastOf(S) = i
<1>1. \A x \in S : (\A j \in S : j <= x) => x = i
    OBVIOUS
<1>. QED
    BY <1>1 DEF LastOf

-----------------------------------------------------------------------------
(***************************************************************************)
(* The row that a sequence of operations leaves, told from the operations  *)
(* and their times as RowAfter tells it, is what they leave when they are  *)
(* done one after the other.                                               *)
(***************************************************************************)

Writes(ops, n, k) == {i \in 1..n : IsWrite(ops[i]) /\ ops[i].key = k}
Deletes(ops, n, k) == {i \in Writes(ops, n, k) : ops[i].kind = "delete"}
Life(ops, n, k) == {i \in Writes(ops, n, k) : \A d \in Deletes(ops, n, k) : i > d}

RowOf(ops, times, n, k) ==
    IF Writes(ops, n, k) = {} \/ ops[LastOf(Writes(ops, n, k))].kind = "delete"
    THEN NoRow
    ELSE [content |-> ops[LastOf(Writes(ops, n, k))].content,
          created |-> times[FirstOf(Life(ops, n, k))],
          updated |-> times[LastOf(Writes(ops, n, k))]]

TableOf(ops, times, n) == [k \in Keys |-> RowOf(ops, times, n, k)]

\* What an operation consists of.
LEMMA OpFields ==
    ASSUME NEW o \in Ops
    PROVE  /\ o.kind \in {"put", "get", "delete", "scan"}
           /\ o.kind # "scan" => o.key \in Keys
           /\ o.kind = "put" => o.content \in Contents
           /\ IsWrite(o) <=> o.kind \in {"put", "delete"}
    BY DEF Ops, IsWrite

\* A row exists exactly when there is a write after the last delete.
LEMMA LifeIffRow ==
    ASSUME NEW n \in Nat, NEW ops, NEW k, \A i \in 1..n : ops[i] \in Ops
    PROVE  Life(ops, n, k) = {} <=>
             Writes(ops, n, k) = {} \/ ops[LastOf(Writes(ops, n, k))].kind = "delete"
<1> DEFINE W == Writes(ops, n, k)
           D == Deletes(ops, n, k)
<1>1. W \in SUBSET (1..n) /\ D \subseteq W
    BY DEF Writes, Deletes
<1>2. CASE W = {}
    BY <1>2 DEF Life
<1>3. CASE W # {}
    <2>1. LastOf(W) \in W /\ \A j \in W : j <= LastOf(W)
        BY <1>1, <1>3, LastOfIsGreatest
    <2>2. CASE ops[LastOf(W)].kind = "delete"
        <3>1. LastOf(W) \in D
            BY <2>1, <2>2 DEF Deletes
        <3>2. \A i \in W : ~ (i > LastOf(W))
            BY <1>1, <2>1
        <3>. QED
            BY <2>2, <3>1, <3>2 DEF Life
    <2>3. CASE ops[LastOf(W)].kind # "delete"
        <3>1. \A d \in D : d # LastOf(W) /\ d <= LastOf(W)
            BY <1>1, <2>1, <2>3 DEF Deletes
        <3>2. \A d \in D : LastOf(W) > d
            BY <1>1, <2>1, <3>1
        <3>. QED
            BY <1>3, <2>1, <2>3, <3>2 DEF Life
    <2>. QED
        BY <2>2, <2>3
<1>. QED
    BY <1>2, <1>3

\* A row that exists is a row, of the last write and of the first one since the
\* last delete.
LEMMA RowOfType ==
    ASSUME NEW n \in Nat, NEW ops, NEW times, NEW k,
           \A i \in 1..n : ops[i] \in Ops /\ times[i] \in Nat,
           Life(ops, n, k) # {}
    PROVE  LET first == FirstOf(Life(ops, n, k))
               last == LastOf(Writes(ops, n, k))
           IN  /\ first \in Writes(ops, n, k) /\ last \in Writes(ops, n, k)
               /\ first \in Life(ops, n, k)
               /\ \A j \in Life(ops, n, k) : first <= j
               /\ first <= last /\ first \in 1..n /\ last \in 1..n
               /\ RowOf(ops, times, n, k) =
                    [content |-> ops[last].content, created |-> times[first],
                     updated |-> times[last]]
               /\ RowOf(ops, times, n, k) \in Rows /\ RowOf(ops, times, n, k) # NoRow
<1> DEFINE W == Writes(ops, n, k)
           L == Life(ops, n, k)
           first == FirstOf(L)
           last == LastOf(W)
<1>1. W \in SUBSET (1..n) /\ L \subseteq W /\ L \in SUBSET Nat
    BY DEF Writes, Life
<1>2. W # {} /\ ops[last].kind # "delete"
    BY LifeIffRow
<1>3. first \in L /\ \A j \in L : first <= j
    BY <1>1, FirstOfIsLeast
<1>4. last \in W /\ \A j \in W : j <= last
    BY <1>1, <1>2, LastOfIsGreatest
<1>5. RowOf(ops, times, n, k) =
        [content |-> ops[last].content, created |-> times[first], updated |-> times[last]]
    BY <1>2 DEF RowOf
<1>6. ops[last].content \in Contents
    <2>1. ops[last] \in Ops /\ IsWrite(ops[last])
        BY <1>1, <1>4 DEF Writes
    <2>. QED
        BY <1>2, <2>1, OpFields
<1>7. times[first] \in Nat /\ times[last] \in Nat
    BY <1>1, <1>3, <1>4
<1>8. RowOf(ops, times, n, k) \in Rows
    BY <1>5, <1>6, <1>7 DEF Rows, Times
<1>. QED
    BY <1>1, <1>3, <1>4, <1>5, <1>8, NoRowAssumption

\* Only the first n operations count.
LEMMA RowOfPrefix ==
    ASSUME NEW n \in Nat, NEW ops, NEW times, NEW ops2, NEW times2, NEW k,
           \A i \in 1..n : /\ ops[i] \in Ops /\ times[i] \in Nat
                           /\ ops2[i] = ops[i] /\ times2[i] = times[i]
    PROVE  RowOf(ops2, times2, n, k) = RowOf(ops, times, n, k)
<1>1. Writes(ops2, n, k) = Writes(ops, n, k)
    BY DEF Writes
<1>2. Writes(ops, n, k) \in SUBSET (1..n)
    BY DEF Writes
<1>3. Deletes(ops2, n, k) = Deletes(ops, n, k)
    BY <1>1, <1>2 DEF Deletes
<1>4. Life(ops2, n, k) = Life(ops, n, k)
    BY <1>1, <1>3 DEF Life
<1>5. CASE Life(ops, n, k) = {}
    <2>1. RowOf(ops, times, n, k) = NoRow
        BY <1>5, LifeIffRow DEF RowOf
    <2>2. RowOf(ops2, times2, n, k) = NoRow
        BY <1>4, <1>5, LifeIffRow DEF RowOf
    <2>. QED
        BY <2>1, <2>2
<1>6. CASE Life(ops, n, k) # {}
    <2>1. /\ FirstOf(Life(ops, n, k)) \in 1..n /\ LastOf(Writes(ops, n, k)) \in 1..n
          /\ RowOf(ops, times, n, k) =
               [content |-> ops[LastOf(Writes(ops, n, k))].content,
                created |-> times[FirstOf(Life(ops, n, k))],
                updated |-> times[LastOf(Writes(ops, n, k))]]
        BY <1>6, RowOfType
    <2>2. RowOf(ops2, times2, n, k) =
            [content |-> ops2[LastOf(Writes(ops, n, k))].content,
             created |-> times2[FirstOf(Life(ops, n, k))],
             updated |-> times2[LastOf(Writes(ops, n, k))]]
        BY <1>1, <1>4, <1>6, RowOfType
    <2>. QED
        BY <2>1, <2>2
<1>. QED
    BY <1>5, <1>6

\* An operation that does not write the key leaves its row ...
LEMMA RowOfOther ==
    ASSUME NEW n \in Nat, NEW ops, NEW times, NEW k,
           ~ (IsWrite(ops[n + 1]) /\ ops[n + 1].key = k)
    PROVE  RowOf(ops, times, n + 1, k) = RowOf(ops, times, n, k)
<1>1. \A i : i \in 1..(n + 1) <=> i \in 1..n \/ i = n + 1
    OBVIOUS
<1>2. Writes(ops, n + 1, k) = Writes(ops, n, k)
    BY <1>1 DEF Writes
<1>3. Deletes(ops, n + 1, k) = Deletes(ops, n, k) /\ Life(ops, n + 1, k) = Life(ops, n, k)
    BY <1>2 DEF Deletes, Life
<1>. QED
    BY <1>2, <1>3 DEF RowOf

\* ... a delete removes it ...
LEMMA RowOfDelete ==
    ASSUME NEW n \in Nat, NEW ops, NEW times, NEW k,
           ops[n + 1].kind = "delete", ops[n + 1].key = k
    PROVE  RowOf(ops, times, n + 1, k) = NoRow
<1>1. Writes(ops, n + 1, k) \in SUBSET Nat /\ \A j \in Writes(ops, n + 1, k) : j <= n + 1
    BY DEF Writes
<1>2. n + 1 \in Writes(ops, n + 1, k)
    BY DEF Writes, IsWrite
<1>3. LastOf(Writes(ops, n + 1, k)) = n + 1
    BY <1>1, <1>2, LastOfUnique
<1>. QED
    BY <1>3 DEF RowOf

\* ... and a put writes it, with the time of the row's creation if there is one.
LEMMA RowOfPut ==
    ASSUME NEW n \in Nat, NEW ops, NEW times, NEW k,
           \A i \in 1..(n + 1) : ops[i] \in Ops /\ times[i] \in Nat,
           ops[n + 1].kind = "put", ops[n + 1].key = k
    PROVE  RowOf(ops, times, n + 1, k) =
             Written(RowOf(ops, times, n, k), ops[n + 1].content, times[n + 1])
<1> DEFINE W == Writes(ops, n, k)
           L == Life(ops, n, k)
           W1 == Writes(ops, n + 1, k)
           L1 == Life(ops, n + 1, k)
<1>1. \A i : i \in 1..(n + 1) <=> i \in 1..n \/ i = n + 1
    OBVIOUS
<1>2. W1 = W \cup {n + 1} /\ W \in SUBSET (1..n)
    BY <1>1 DEF Writes, IsWrite
<1>3. Deletes(ops, n + 1, k) = Deletes(ops, n, k) /\ Deletes(ops, n, k) \subseteq W
    BY <1>2 DEF Deletes
<1>4. L1 = L \cup {n + 1} /\ L \subseteq W
    <2>1. \A d \in W : n + 1 > d
        BY <1>2
    <2>. QED
        BY <1>2, <1>3, <2>1 DEF Life
<1>5. LastOf(W1) = n + 1
    <2>1. W1 \in SUBSET Nat /\ \A j \in W1 : j <= n + 1
        BY <1>2
    <2>. QED
        BY <1>2, <2>1, LastOfUnique
<1>6. \A i \in 1..n : ops[i] \in Ops /\ times[i] \in Nat
    BY <1>1
<1>7. RowOf(ops, times, n + 1, k) =
        [content |-> ops[n + 1].content, created |-> times[FirstOf(L1)],
         updated |-> times[n + 1]]
    BY <1>2, <1>5 DEF RowOf
<1>8. L1 \in SUBSET Nat
    BY <1>2, <1>4
<1>9. CASE L = {}
    <2>1. FirstOf(L1) = n + 1
        BY <1>4, <1>8, <1>9, FirstOfUnique
    <2>2. RowOf(ops, times, n, k) = NoRow
        BY <1>6, <1>9, LifeIffRow DEF RowOf
    <2>. QED
        BY <1>7, <2>1, <2>2 DEF Written
<1>10. CASE L # {}
    <2>1. /\ FirstOf(L) \in L /\ \A j \in L : FirstOf(L) <= j
          /\ FirstOf(L) \in 1..n
          /\ RowOf(ops, times, n, k) # NoRow
          /\ RowOf(ops, times, n, k).created = times[FirstOf(L)]
        BY <1>6, <1>10, RowOfType
    <2>2. FirstOf(L1) = FirstOf(L)
        <3>1. \A j \in L1 : FirstOf(L) <= j
            BY <1>4, <2>1
        <3>. QED
            BY <1>4, <1>8, <2>1, <3>1, FirstOfUnique
    <2>. QED
        BY <1>7, <2>1, <2>2 DEF Written
<1>. QED
    BY <1>9, <1>10

\* So the table after n + 1 operations is the table after n with the effect of
\* the last one.
LEMMA TableOfNext ==
    ASSUME NEW n \in Nat, NEW ops, NEW times,
           \A i \in 1..(n + 1) : ops[i] \in Ops /\ times[i] \in Nat
    PROVE  TableOf(ops, times, n + 1) =
             Effect(TableOf(ops, times, n), ops[n + 1], times[n + 1])
<1> DEFINE o == ops[n + 1]
           T == TableOf(ops, times, n)
<1>1. o \in Ops
    OBVIOUS
<1>2. /\ o.kind \in {"put", "get", "delete", "scan"}
      /\ o.kind # "scan" => o.key \in Keys
      /\ IsWrite(o) <=> o.kind \in {"put", "delete"}
    BY <1>1, OpFields
<1>3. \A k \in Keys : T[k] = RowOf(ops, times, n, k)
    BY DEF TableOf
<1>4. DOMAIN T = Keys
    BY DEF TableOf
<1>5. CASE o.kind = "put"
    <2>1. Effect(T, o, times[n + 1]) =
            [T EXCEPT ![o.key] = Written(T[o.key], o.content, times[n + 1])]
        BY <1>5 DEF Effect
    <2>2. ASSUME NEW k \in Keys
          PROVE  RowOf(ops, times, n + 1, k) = Effect(T, o, times[n + 1])[k]
        <3>1. CASE k = o.key
            <4>1. RowOf(ops, times, n + 1, k) =
                    Written(RowOf(ops, times, n, k), o.content, times[n + 1])
                BY <1>5, <3>1, RowOfPut
            <4>. QED
                BY <1>3, <1>4, <2>1, <3>1, <4>1
        <3>2. CASE k # o.key
            <4>1. RowOf(ops, times, n + 1, k) = RowOf(ops, times, n, k)
                BY <3>2, RowOfOther
            <4>. QED
                BY <1>3, <1>4, <2>1, <3>2, <4>1
        <3>. QED
            BY <3>1, <3>2
    <2>3. Effect(T, o, times[n + 1]) = [k \in Keys |-> Effect(T, o, times[n + 1])[k]]
        BY <1>4, <2>1
    <2>. QED
        BY <2>2, <2>3 DEF TableOf
<1>6. CASE o.kind = "delete"
    <2>1. Effect(T, o, times[n + 1]) = [T EXCEPT ![o.key] = NoRow]
        BY <1>6 DEF Effect
    <2>2. ASSUME NEW k \in Keys
          PROVE  RowOf(ops, times, n + 1, k) = Effect(T, o, times[n + 1])[k]
        <3>1. CASE k = o.key
            BY <1>4, <1>6, <2>1, <3>1, RowOfDelete
        <3>2. CASE k # o.key
            <4>1. RowOf(ops, times, n + 1, k) = RowOf(ops, times, n, k)
                BY <3>2, RowOfOther
            <4>. QED
                BY <1>3, <1>4, <2>1, <3>2, <4>1
        <3>. QED
            BY <3>1, <3>2
    <2>3. Effect(T, o, times[n + 1]) = [k \in Keys |-> Effect(T, o, times[n + 1])[k]]
        BY <1>4, <2>1
    <2>. QED
        BY <2>2, <2>3 DEF TableOf
<1>7. CASE o.kind \in {"get", "scan"}
    <2>1. Effect(T, o, times[n + 1]) = T /\ ~ IsWrite(o)
        BY <1>2, <1>7 DEF Effect
    <2>2. \A k \in Keys : RowOf(ops, times, n + 1, k) = RowOf(ops, times, n, k)
        BY <2>1, RowOfOther
    <2>. QED
        BY <2>1, <2>2 DEF TableOf
<1>. QED
    BY <1>2, <1>5, <1>6, <1>7

-----------------------------------------------------------------------------
(***************************************************************************)
(* The inductive invariant.                                                *)
(***************************************************************************)

Places == {"new", "begin", "execute", "commit", "read", "respond", "ok", "unheard",
           "error", "cut"}

KVTypes ==
    /\ table \in Tables
    /\ tx \in Tables
    /\ clock \in Nat
    /\ op \in [Calls -> Ops \cup {NoOp}]
    /\ stamp \in [Calls -> Nat]
    /\ pc \in [Calls -> Places]
    /\ writer \in Calls \cup {NoCall}
    /\ DOMAIN outcome = Calls
    /\ log \in Seq(Calls)
    /\ earlier \in [Calls -> SUBSET Calls]

\* A request that was not rejected asks for something; only writes are on their
\* way to a COMMIT, and no write is answered from a snapshot.
CallInv ==
    \A c \in Calls :
        /\ pc[c] \notin {"new", "error"} => op[c] \in Ops
        /\ pc[c] \in Waiting => IsWrite(op[c])
        /\ pc[c] = "read" => ~ IsWrite(op[c])

\* One transaction at a time, on the committed rows; before the COMMIT it has
\* made its change, and knows its answer.
TxInv ==
    \A c \in Calls :
        /\ pc[c] \in {"execute", "commit"} <=> writer = c
        /\ pc[c] = "execute" => tx = table
        /\ pc[c] = "commit" => /\ tx = Effect(table, op[c], stamp[c])
                               /\ outcome[c] = Outcome(table, op[c], stamp[c])

LogOps == [i \in DOMAIN log |-> op[log[i]]]
LogTimes == [i \in DOMAIN log |-> stamp[log[i]]]

\* The committed rows are those that the log leaves, and every entry of the log
\* is a request that took effect with the outcome it has at its place.
LogInv ==
    /\ table = TableOf(LogOps, LogTimes, Len(log))
    /\ \A n \in DOMAIN log :
        /\ TookEffect(log[n])
        /\ outcome[log[n]] =
             Outcome(TableOf(LogOps, LogTimes, n - 1), LogOps[n], LogTimes[n])

\* No request is stamped later than the clock, and every request is stamped
\* after those that were answered when it arrived.
StampInv ==
    /\ \A c \in Calls : stamp[c] <= clock
    /\ \A c \in Calls : \A d \in earlier[c] : pc[d] = "ok" /\ stamp[d] < stamp[c]

IInv == KVTypes /\ CallInv /\ TxInv /\ LogInv /\ StampInv

-----------------------------------------------------------------------------

\* An operation takes a table to a table.
LEMMA EffectType ==
    ASSUME NEW t \in Tables, NEW o \in Ops, NEW now \in Nat
    PROVE  Effect(t, o, now) \in Tables
<1>1. /\ o.kind \in {"put", "get", "delete", "scan"}
      /\ o.kind # "scan" => o.key \in Keys
      /\ o.kind = "put" => o.content \in Contents
    BY OpFields
<1>2. CASE o.kind = "put"
    <2>1. t[o.key] \in Rows \cup {NoRow}
        BY <1>1, <1>2 DEF Tables
    <2>2. Written(t[o.key], o.content, now) \in Rows
        BY <1>1, <1>2, <2>1 DEF Written, Rows, Times
    <2>3. Effect(t, o, now) = [t EXCEPT ![o.key] = Written(t[o.key], o.content, now)]
        BY <1>2 DEF Effect
    <2>. QED
        BY <2>2, <2>3 DEF Tables
<1>3. CASE o.kind = "delete"
    BY <1>3 DEF Effect, Tables
<1>4. CASE o.kind \in {"get", "scan"}
    BY <1>4 DEF Effect
<1>. QED
    BY <1>1, <1>2, <1>3, <1>4

LEMMA InitInv == Init => IInv
<1> SUFFICES ASSUME Init PROVE IInv
    OBVIOUS
<1> USE DEF Init
<1>1. KVTypes
    <2>1. [k \in Keys |-> NoRow] \in Tables
        BY DEF Tables
    <2>2. [c \in Calls |-> {}] \in [Calls -> SUBSET Calls]
        OBVIOUS
    <2>. QED
        BY <2>1, <2>2 DEF KVTypes, Places
<1>2. CallInv
    BY DEF CallInv, Waiting
<1>3. TxInv
    BY KVStoreAssumption DEF TxInv, Calls
<1>4. LogInv
    <2>1. Len(log) = 0 /\ DOMAIN log = {}
        OBVIOUS
    <2>2. \A k \in Keys : Writes(LogOps, 0, k) = {}
        <3>1. 1..0 = {}
            OBVIOUS
        <3>. QED
            BY <3>1 DEF Writes
    <2>3. TableOf(LogOps, LogTimes, 0) = [k \in Keys |-> NoRow]
        BY <2>2 DEF TableOf, RowOf
    <2>. QED
        BY <2>1, <2>3 DEF LogInv
<1>5. StampInv
    BY DEF StampInv
<1>. QED
    BY <1>1, <1>2, <1>3, <1>4, <1>5 DEF IInv

\* Every step keeps the types.
LEMMA TypesStep == IInv /\ [Next]_vars => KVTypes'
<1> SUFFICES ASSUME IInv, [Next]_vars PROVE KVTypes'
    OBVIOUS
<1> USE DEF IInv, KVTypes
<1>1. ASSUME NEW c \in Calls, NEW o \in Ops, Call(c, o)
      PROVE  KVTypes'
    <2>1. pc' \in [Calls -> Places]
        BY <1>1 DEF Call, Places
    <2>2. earlier' \in [Calls -> SUBSET Calls]
        BY <1>1 DEF Call
    <2>3. op' \in [Calls -> Ops \cup {NoOp}] /\ stamp' \in [Calls -> Nat] /\ clock' \in Nat
        BY <1>1 DEF Call
    <2>. QED
        BY <1>1, <2>1, <2>2, <2>3 DEF Call
<1>2. ASSUME NEW c \in Calls, Reject(c)
      PROVE  KVTypes'
    <2>1. pc' \in [Calls -> Places]
        BY <1>2 DEF Reject, Places
    <2>. QED
        BY <1>2, <2>1 DEF Reject, history
<1>3. ASSUME NEW c \in Calls, Read(c)
      PROVE  KVTypes'
    <2>1. pc' \in [Calls -> Places]
        BY <1>3 DEF Read, Places
    <2>2. log' \in Seq(Calls)
        BY <1>3, AppendProperties DEF Read
    <2>. QED
        BY <1>3, <2>1, <2>2 DEF Read
<1>4. ASSUME NEW c \in Calls, Begin(c)
      PROVE  KVTypes'
    <2>1. pc' \in [Calls -> Places]
        BY <1>4 DEF Begin, Places
    <2>. QED
        BY <1>4, <2>1 DEF Begin, history
<1>5. ASSUME NEW c \in Calls, Execute(c)
      PROVE  KVTypes'
    <2>1. pc' \in [Calls -> Places]
        BY <1>5 DEF Execute, Places
    <2>2. op[c] \in Ops
        BY <1>5 DEF Execute, CallInv
    <2>3. tx' \in Tables
        BY <1>5, <2>2, EffectType DEF Execute
    <2>. QED
        BY <1>5, <2>1, <2>3 DEF Execute, history
<1>6. ASSUME NEW c \in Calls, Commit(c)
      PROVE  KVTypes'
    <2>1. pc' \in [Calls -> Places]
        BY <1>6 DEF Commit, Places
    <2>2. log' \in Seq(Calls)
        BY <1>6, AppendProperties DEF Commit
    <2>. QED
        BY <1>6, <2>1, <2>2 DEF Commit
<1>7. ASSUME NEW c \in Calls, Respond(c)
      PROVE  KVTypes'
    <2>1. pc' \in [Calls -> Places]
        BY <1>7 DEF Respond, Places
    <2>. QED
        BY <1>7, <2>1 DEF Respond, history
<1>8. ASSUME NEW c \in Calls, Fail(c)
      PROVE  KVTypes'
    <2>1. pc' \in [Calls -> Places]
        BY <1>8 DEF Fail, Places
    <2>. QED
        BY <1>8, <2>1 DEF Fail, history
<1>9. ASSUME NEW c \in Calls, LoseResponse(c)
      PROVE  KVTypes'
    <2>1. pc' \in [Calls -> Places]
        BY <1>9 DEF LoseResponse, Places
    <2>. QED
        BY <1>9, <2>1 DEF LoseResponse, history
<1>10. ASSUME Crash
       PROVE  KVTypes'
    <2>1. pc' \in [Calls -> Places]
        <3>1. ASSUME NEW c \in Calls
              PROVE  (CASE pc[c] \in Waiting \cup {"read"} -> "cut"
                        [] pc[c] = "respond" -> "unheard"
                        [] OTHER -> pc[c]) \in Places
            BY DEF Places
        <3>. QED
            BY <1>10, <3>1 DEF Crash
    <2>2. DOMAIN outcome' = Calls
        BY <1>10 DEF Crash
    <2>. QED
        BY <1>10, <2>1, <2>2 DEF Crash, history
<1>11. ASSUME UNCHANGED vars
       PROVE  KVTypes'
    BY <1>11 DEF vars, history
<1>. QED
    BY <1>1, <1>2, <1>3, <1>4, <1>5, <1>6, <1>7, <1>8, <1>9, <1>10, <1>11 DEF Next, Step

\* Every step keeps the operations in their places.
LEMMA CallStep == IInv /\ [Next]_vars => CallInv'
<1> SUFFICES ASSUME IInv, [Next]_vars, NEW d \in Calls
             PROVE  /\ pc'[d] \notin {"new", "error"} => op'[d] \in Ops
                    /\ pc'[d] \in Waiting => IsWrite(op'[d])
                    /\ pc'[d] = "read" => ~ IsWrite(op'[d])
    BY DEF CallInv
<1> DEFINE Goal == /\ pc'[d] \notin {"new", "error"} => op'[d] \in Ops
                   /\ pc'[d] \in Waiting => IsWrite(op'[d])
                   /\ pc'[d] = "read" => ~ IsWrite(op'[d])
<1>0. /\ pc[d] \notin {"new", "error"} => op[d] \in Ops
      /\ pc[d] \in Waiting => IsWrite(op[d])
      /\ pc[d] = "read" => ~ IsWrite(op[d])
      /\ DOMAIN pc = Calls /\ DOMAIN op = Calls
    BY DEF IInv, CallInv, KVTypes
<1>1. ASSUME NEW c \in Calls, NEW o \in Ops, Call(c, o)
      PROVE  Goal
    <2>1. CASE d = c
        BY <1>0, <1>1, <2>1 DEF Call, Waiting
    <2>2. CASE d # c
        BY <1>0, <1>1, <2>2 DEF Call
    <2>. QED
        BY <2>1, <2>2
<1>2. ASSUME NEW c \in Calls, Reject(c)
      PROVE  Goal
    BY <1>0, <1>2 DEF Reject, Waiting
<1>3. ASSUME NEW c \in Calls, Read(c)
      PROVE  Goal
    BY <1>0, <1>3 DEF Read, Waiting
<1>4. ASSUME NEW c \in Calls, Begin(c)
      PROVE  Goal
    BY <1>0, <1>4 DEF Begin, Waiting
<1>5. ASSUME NEW c \in Calls, Execute(c)
      PROVE  Goal
    BY <1>0, <1>5 DEF Execute, Waiting
<1>6. ASSUME NEW c \in Calls, Commit(c)
      PROVE  Goal
    BY <1>0, <1>6 DEF Commit, Waiting
<1>7. ASSUME NEW c \in Calls, Respond(c)
      PROVE  Goal
    BY <1>0, <1>7 DEF Respond, Waiting
<1>8. ASSUME NEW c \in Calls, Fail(c)
      PROVE  Goal
    BY <1>0, <1>8 DEF Fail, Waiting
<1>9. ASSUME NEW c \in Calls, LoseResponse(c)
      PROVE  Goal
    BY <1>0, <1>9 DEF LoseResponse, Waiting
<1>10. ASSUME Crash
       PROVE  Goal
    <2>1. pc'[d] = CASE pc[d] \in Waiting \cup {"read"} -> "cut"
                     [] pc[d] = "respond" -> "unheard"
                     [] OTHER -> pc[d]
        BY <1>10 DEF Crash
    <2>2. op' = op
        BY <1>10 DEF Crash
    <2>. QED
        BY <1>0, <2>1, <2>2 DEF Waiting
<1>11. ASSUME UNCHANGED vars
       PROVE  Goal
    BY <1>0, <1>11 DEF vars
<1>. QED
    BY <1>1, <1>2, <1>3, <1>4, <1>5, <1>6, <1>7, <1>8, <1>9, <1>10, <1>11 DEF Next, Step

\* Every step keeps the transactions apart.
LEMMA TxStep == IInv /\ [Next]_vars => TxInv'
<1> SUFFICES ASSUME IInv, [Next]_vars, NEW d \in Calls
             PROVE  /\ pc'[d] \in {"execute", "commit"} <=> writer' = d
                    /\ pc'[d] = "execute" => tx' = table'
                    /\ pc'[d] = "commit" =>
                         /\ tx' = Effect(table', op'[d], stamp'[d])
                         /\ outcome'[d] = Outcome(table', op'[d], stamp'[d])
    BY DEF TxInv
<1> DEFINE Goal == /\ pc'[d] \in {"execute", "commit"} <=> writer' = d
                   /\ pc'[d] = "execute" => tx' = table'
                   /\ pc'[d] = "commit" =>
                        /\ tx' = Effect(table', op'[d], stamp'[d])
                        /\ outcome'[d] = Outcome(table', op'[d], stamp'[d])
<1>0. /\ pc[d] \in {"execute", "commit"} <=> writer = d
      /\ pc[d] = "execute" => tx = table
      /\ pc[d] = "commit" => /\ tx = Effect(table, op[d], stamp[d])
                             /\ outcome[d] = Outcome(table, op[d], stamp[d])
      /\ DOMAIN pc = Calls /\ DOMAIN op = Calls /\ DOMAIN stamp = Calls
      /\ DOMAIN outcome = Calls /\ d # NoCall
    BY KVStoreAssumption DEF IInv, TxInv, KVTypes, Calls
<1>00. \A c \in Calls : pc[c] \in {"execute", "commit"} => writer = c
    BY DEF IInv, TxInv
<1>1. ASSUME NEW c \in Calls, NEW o \in Ops, Call(c, o)
      PROVE  Goal
    <2>1. CASE d = c
        BY <1>0, <1>1, <2>1 DEF Call
    <2>2. CASE d # c
        BY <1>0, <1>1, <2>2 DEF Call
    <2>. QED
        BY <2>1, <2>2
<1>2. ASSUME NEW c \in Calls, Reject(c)
      PROVE  Goal
    BY <1>0, <1>2 DEF Reject
<1>3. ASSUME NEW c \in Calls, Read(c)
      PROVE  Goal
    BY <1>0, <1>3 DEF Read
<1>4. ASSUME NEW c \in Calls, Begin(c)
      PROVE  Goal
    BY <1>0, <1>4 DEF Begin
<1>5. ASSUME NEW c \in Calls, Execute(c)
      PROVE  Goal
    <2>1. writer = c /\ tx = table
        BY <1>5 DEF Execute, IInv, TxInv
    <2>. QED
        BY <1>0, <1>5, <2>1 DEF Execute
<1>6. ASSUME NEW c \in Calls, Commit(c)
      PROVE  Goal
    <2>1. writer = c
        BY <1>6 DEF Commit, IInv, TxInv
    <2>. QED
        BY <1>0, <1>6, <2>1 DEF Commit
<1>7. ASSUME NEW c \in Calls, Respond(c)
      PROVE  Goal
    BY <1>0, <1>7 DEF Respond
<1>8. ASSUME NEW c \in Calls, Fail(c)
      PROVE  Goal
    <2>1. CASE d = c
        BY <1>0, <1>8, <2>1 DEF Fail
    <2>2. CASE d # c
        BY <1>0, <1>8, <2>2 DEF Fail
    <2>. QED
        BY <2>1, <2>2
<1>9. ASSUME NEW c \in Calls, LoseResponse(c)
      PROVE  Goal
    BY <1>0, <1>9 DEF LoseResponse
<1>10. ASSUME Crash
       PROVE  Goal
    <2>1. pc'[d] = CASE pc[d] \in Waiting \cup {"read"} -> "cut"
                     [] pc[d] = "respond" -> "unheard"
                     [] OTHER -> pc[d]
        BY <1>10 DEF Crash
    <2>2. pc'[d] \notin {"execute", "commit"}
        BY <2>1 DEF Waiting
    <2>3. writer' = NoCall
        BY <1>10 DEF Crash
    <2>. QED
        BY <1>0, <2>2, <2>3
<1>11. ASSUME UNCHANGED vars
       PROVE  Goal
    BY <1>0, <1>11 DEF vars
<1>. QED
    BY <1>1, <1>2, <1>3, <1>4, <1>5, <1>6, <1>7, <1>8, <1>9, <1>10, <1>11 DEF Next, Step

\* The entries of the log are operations with their times.
LEMMA LogOpsType ==
    IInv => /\ Len(log) \in Nat /\ DOMAIN log = 1..Len(log)
            /\ \A i \in 1..Len(log) : log[i] \in Calls /\ TookEffect(log[i])
            /\ \A i \in 1..Len(log) : LogOps[i] \in Ops /\ LogTimes[i] \in Nat
            /\ \A i \in 1..Len(log) : LogOps[i] = op[log[i]] /\ LogTimes[i] = stamp[log[i]]
<1> SUFFICES ASSUME IInv
             PROVE  /\ Len(log) \in Nat /\ DOMAIN log = 1..Len(log)
                    /\ \A i \in 1..Len(log) : log[i] \in Calls /\ TookEffect(log[i])
                    /\ \A i \in 1..Len(log) : LogOps[i] \in Ops /\ LogTimes[i] \in Nat
                    /\ \A i \in 1..Len(log) :
                         LogOps[i] = op[log[i]] /\ LogTimes[i] = stamp[log[i]]
    OBVIOUS
<1>1. Len(log) \in Nat /\ DOMAIN log = 1..Len(log)
    BY DEF IInv, KVTypes
<1>2. \A i \in 1..Len(log) : log[i] \in Calls
    BY DEF IInv, KVTypes
<1>3. \A i \in 1..Len(log) : TookEffect(log[i])
    BY <1>1 DEF IInv, LogInv
<1>4. \A i \in 1..Len(log) : LogOps[i] = op[log[i]] /\ LogTimes[i] = stamp[log[i]]
    BY <1>1 DEF LogOps, LogTimes
<1>5. \A i \in 1..Len(log) : op[log[i]] \in Ops /\ stamp[log[i]] \in Nat
    BY <1>2, <1>3 DEF IInv, KVTypes, CallInv, TookEffect
<1>. QED
    BY <1>1, <1>2, <1>3, <1>4, <1>5

\* A step that does not write the log leaves what it tells, if it leaves the rows
\* and what was answered.
LEMMA LogKept ==
    ASSUME IInv, log' = log, table' = table,
           \A c \in Calls : TookEffect(c) =>
               /\ op'[c] = op[c] /\ stamp'[c] = stamp[c] /\ outcome'[c] = outcome[c]
               /\ TookEffect(c)'
    PROVE  LogInv'
<1>1. /\ Len(log) \in Nat /\ DOMAIN log = 1..Len(log)
      /\ \A i \in 1..Len(log) : log[i] \in Calls /\ TookEffect(log[i])
    BY LogOpsType
<1>2. LogOps' = LogOps
    <2>1. \A i \in DOMAIN log : op'[log'[i]] = op[log[i]]
        BY <1>1
    <2>. QED
        BY <2>1 DEF LogOps
<1>3. LogTimes' = LogTimes
    <2>1. \A i \in DOMAIN log : stamp'[log'[i]] = stamp[log[i]]
        BY <1>1
    <2>. QED
        BY <2>1 DEF LogTimes
<1>4. /\ table = TableOf(LogOps, LogTimes, Len(log))
      /\ \A n \in DOMAIN log :
            /\ TookEffect(log[n])
            /\ outcome[log[n]] =
                 Outcome(TableOf(LogOps, LogTimes, n - 1), LogOps[n], LogTimes[n])
    BY DEF IInv, LogInv
<1>5. table' = TableOf(LogOps', LogTimes', Len(log'))
    BY <1>2, <1>3, <1>4
<1>6. ASSUME NEW n \in DOMAIN log'
      PROVE  /\ TookEffect(log[n])'
             /\ outcome'[log'[n]] =
                  Outcome(TableOf(LogOps', LogTimes', n - 1), LogOps'[n], LogTimes'[n])
    <2>1. n \in DOMAIN log /\ log'[n] = log[n] /\ log[n] \in Calls
        BY <1>1
    <2>2. outcome'[log[n]] = outcome[log[n]]
        BY <1>4, <2>1
    <2>3. TookEffect(log[n])'
        BY <1>4, <2>1 DEF TookEffect
    <2>. QED
        BY <1>2, <1>3, <1>4, <2>1, <2>2, <2>3
<1>. QED
    BY <1>5, <1>6 DEF LogInv

\* A request that takes effect at the end of the log, with the outcome it has
\* there, keeps what the log tells.
LEMMA LogGrows ==
    ASSUME IInv, NEW c \in Calls, ~ TookEffect(c), op[c] \in Ops,
           log' = Append(log, c), op' = op, stamp' = stamp,
           table' = Effect(table, op[c], stamp[c]),
           outcome'[c] = Outcome(table, op[c], stamp[c]),
           pc'[c] = "respond",
           \A d \in Calls \ {c} : outcome'[d] = outcome[d] /\ pc'[d] = pc[d]
    PROVE  LogInv'
<1> DEFINE N == Len(log)
<1>1. /\ N \in Nat /\ DOMAIN log = 1..N
      /\ \A i \in 1..N : log[i] \in Calls /\ TookEffect(log[i])
      /\ \A i \in 1..N : LogOps[i] \in Ops /\ LogTimes[i] \in Nat
    BY LogOpsType
<1>2. /\ Len(log') = N + 1 /\ DOMAIN log' = 1..(N + 1)
      /\ \A i \in 1..N : log'[i] = log[i]
      /\ log'[N + 1] = c
    <2>1. log \in Seq(Calls)
        BY DEF IInv, KVTypes
    <2>. QED
        BY <2>1, AppendProperties
<1>3. \A i : i \in 1..(N + 1) <=> i \in 1..N \/ i = N + 1
    BY <1>1
<1>4. /\ \A i \in 1..N : LogOps'[i] = LogOps[i] /\ LogTimes'[i] = LogTimes[i]
      /\ LogOps'[N + 1] = op[c] /\ LogTimes'[N + 1] = stamp[c]
    <2>1. \A i \in 1..(N + 1) : LogOps'[i] = op'[log'[i]] /\ LogTimes'[i] = stamp'[log'[i]]
        BY <1>2 DEF LogOps, LogTimes
    <2>2. \A i \in 1..N : LogOps[i] = op[log[i]] /\ LogTimes[i] = stamp[log[i]]
        BY LogOpsType
    <2>. QED
        BY <1>2, <1>3, <2>1, <2>2
<1>5. stamp[c] \in Nat
    BY DEF IInv, KVTypes
<1>6. \A i \in 1..(N + 1) : LogOps'[i] \in Ops /\ LogTimes'[i] \in Nat
    BY <1>1, <1>3, <1>4, <1>5
<1>7. ASSUME NEW n \in 0..N
      PROVE  TableOf(LogOps', LogTimes', n) = TableOf(LogOps, LogTimes, n)
    <2>1. n \in Nat /\ \A i \in 1..n : i \in 1..N
        BY <1>1
    <2>2. \A k \in Keys : RowOf(LogOps', LogTimes', n, k) = RowOf(LogOps, LogTimes, n, k)
        BY <1>1, <1>4, <2>1, RowOfPrefix
    <2>. QED
        BY <2>2 DEF TableOf
<1>8. TableOf(LogOps', LogTimes', N) = table
    <2>1. N \in 0..N
        BY <1>1
    <2>. QED
        BY <1>7, <2>1 DEF IInv, LogInv
<1>9. table' = TableOf(LogOps', LogTimes', Len(log'))
    BY <1>1, <1>2, <1>4, <1>6, <1>8, TableOfNext
<1>10. ASSUME NEW n \in 1..N
       PROVE  /\ TookEffect(log[n])'
              /\ outcome'[log'[n]] =
                   Outcome(TableOf(LogOps', LogTimes', n - 1), LogOps'[n], LogTimes'[n])
    <2>1. log'[n] = log[n] /\ log[n] \in Calls \ {c}
        BY <1>1, <1>2
    <2>2. /\ TookEffect(log[n])
          /\ outcome[log[n]] =
               Outcome(TableOf(LogOps, LogTimes, n - 1), LogOps[n], LogTimes[n])
        BY <1>1 DEF IInv, LogInv
    <2>3. n - 1 \in 0..N
        BY <1>1
    <2>4. TableOf(LogOps', LogTimes', n - 1) = TableOf(LogOps, LogTimes, n - 1)
        BY <1>7, <2>3
    <2>5. TookEffect(log[n])'
        BY <2>1, <2>2 DEF TookEffect
    <2>. QED
        BY <1>4, <2>1, <2>2, <2>4, <2>5
<1>11. /\ pc'[log'[N + 1]] = "respond"
       /\ outcome'[log'[N + 1]] =
            Outcome(TableOf(LogOps', LogTimes', N), LogOps'[N + 1], LogTimes'[N + 1])
    BY <1>2, <1>4, <1>8
<1>12. ASSUME NEW n \in DOMAIN log'
       PROVE  /\ TookEffect(log[n])'
              /\ outcome'[log'[n]] =
                   Outcome(TableOf(LogOps', LogTimes', n - 1), LogOps'[n], LogTimes'[n])
    <2>1. CASE n \in 1..N
        BY <1>10, <2>1
    <2>2. CASE n = N + 1
        <3>1. n - 1 = N
            BY <1>1, <2>2
        <3>2. TookEffect(log[n])'
            BY <1>11, <2>2 DEF TookEffect
        <3>. QED
            BY <1>11, <2>2, <3>1, <3>2
    <2>. QED
        BY <1>2, <1>3, <2>1, <2>2
<1>. QED
    BY <1>9, <1>12 DEF LogInv

\* Every step keeps what the log tells.
LEMMA LogStep == IInv /\ [Next]_vars => LogInv'
<1> SUFFICES ASSUME IInv, [Next]_vars PROVE LogInv'
    OBVIOUS
<1>0. DOMAIN pc = Calls /\ DOMAIN op = Calls /\ DOMAIN stamp = Calls /\ DOMAIN outcome = Calls
    BY DEF IInv, KVTypes
<1>1. ASSUME NEW c \in Calls, NEW o \in Ops, Call(c, o)
      PROVE  LogInv'
    <2>1. log' = log /\ table' = table
        BY <1>1 DEF Call
    <2>2. ASSUME NEW d \in Calls, TookEffect(d)
          PROVE  /\ op'[d] = op[d] /\ stamp'[d] = stamp[d] /\ outcome'[d] = outcome[d]
                 /\ TookEffect(d)'
        <3>1. d # c
            BY <1>1, <2>2 DEF Call, TookEffect
        <3>. QED
            BY <1>0, <1>1, <2>2, <3>1 DEF Call, TookEffect
    <2>. QED
        BY <2>1, <2>2, LogKept
<1>2. ASSUME NEW c \in Calls, Reject(c)
      PROVE  LogInv'
    <2>1. \A d \in Calls : TookEffect(d) => TookEffect(d)'
        BY <1>0, <1>2 DEF Reject, TookEffect
    <2>2. log' = log /\ table' = table /\ op' = op /\ stamp' = stamp /\ outcome' = outcome
        BY <1>2 DEF Reject, history
    <2>. QED
        BY <2>1, <2>2, LogKept
<1>3. ASSUME NEW c \in Calls, Read(c)
      PROVE  LogInv'
    <2>1. op[c] \in Ops /\ ~ IsWrite(op[c]) /\ ~ TookEffect(c)
        BY <1>3 DEF Read, TookEffect, IInv, CallInv
    <2>2. Effect(table, op[c], stamp[c]) = table
        BY <2>1 DEF Effect, IsWrite
    <2>3. /\ log' = Append(log, c) /\ op' = op /\ stamp' = stamp /\ table' = table
          /\ outcome' = [outcome EXCEPT ![c] = Outcome(table, op[c], stamp[c])]
          /\ pc' = [pc EXCEPT ![c] = "respond"]
        BY <1>3 DEF Read
    <2>4. /\ outcome'[c] = Outcome(table, op[c], stamp[c]) /\ pc'[c] = "respond"
          /\ \A d \in Calls \ {c} : outcome'[d] = outcome[d] /\ pc'[d] = pc[d]
        BY <1>0, <2>3
    <2>. QED
        BY <2>1, <2>2, <2>3, <2>4, LogGrows
<1>4. ASSUME NEW c \in Calls, Begin(c)
      PROVE  LogInv'
    <2>1. \A d \in Calls : TookEffect(d) => TookEffect(d)'
        BY <1>0, <1>4 DEF Begin, TookEffect
    <2>2. log' = log /\ table' = table /\ op' = op /\ stamp' = stamp /\ outcome' = outcome
        BY <1>4 DEF Begin, history
    <2>. QED
        BY <2>1, <2>2, LogKept
<1>5. ASSUME NEW c \in Calls, Execute(c)
      PROVE  LogInv'
    <2>1. \A d \in Calls : TookEffect(d) => TookEffect(d)' /\ outcome'[d] = outcome[d]
        BY <1>0, <1>5 DEF Execute, TookEffect
    <2>2. log' = log /\ table' = table /\ op' = op /\ stamp' = stamp
        BY <1>5 DEF Execute, history
    <2>. QED
        BY <2>1, <2>2, LogKept
<1>6. ASSUME NEW c \in Calls, Commit(c)
      PROVE  LogInv'
    <2>1. /\ op[c] \in Ops /\ ~ TookEffect(c)
          /\ tx = Effect(table, op[c], stamp[c])
          /\ outcome[c] = Outcome(table, op[c], stamp[c])
        BY <1>6 DEF Commit, TookEffect, IInv, CallInv, TxInv
    <2>2. /\ log' = Append(log, c) /\ op' = op /\ stamp' = stamp /\ table' = tx
          /\ outcome' = outcome
          /\ pc' = [pc EXCEPT ![c] = "respond"]
        BY <1>6 DEF Commit
    <2>3. /\ pc'[c] = "respond"
          /\ \A d \in Calls \ {c} : pc'[d] = pc[d]
        BY <1>0, <2>2
    <2>. QED
        BY <2>1, <2>2, <2>3, LogGrows
<1>7. ASSUME NEW c \in Calls, Respond(c)
      PROVE  LogInv'
    <2>1. \A d \in Calls : TookEffect(d) => TookEffect(d)'
        BY <1>0, <1>7 DEF Respond, TookEffect
    <2>2. log' = log /\ table' = table /\ op' = op /\ stamp' = stamp /\ outcome' = outcome
        BY <1>7 DEF Respond, history
    <2>. QED
        BY <2>1, <2>2, LogKept
<1>8. ASSUME NEW c \in Calls, Fail(c)
      PROVE  LogInv'
    <2>1. \A d \in Calls : TookEffect(d) => TookEffect(d)' /\ outcome'[d] = outcome[d]
        BY <1>0, <1>8 DEF Fail, TookEffect, Waiting
    <2>2. log' = log /\ table' = table /\ op' = op /\ stamp' = stamp
        BY <1>8 DEF Fail, history
    <2>. QED
        BY <2>1, <2>2, LogKept
<1>9. ASSUME NEW c \in Calls, LoseResponse(c)
      PROVE  LogInv'
    <2>1. \A d \in Calls : TookEffect(d) => TookEffect(d)'
        BY <1>0, <1>9 DEF LoseResponse, TookEffect
    <2>2. log' = log /\ table' = table /\ op' = op /\ stamp' = stamp /\ outcome' = outcome
        BY <1>9 DEF LoseResponse, history
    <2>. QED
        BY <2>1, <2>2, LogKept
<1>10. ASSUME Crash
       PROVE  LogInv'
    <2>1. ASSUME NEW d \in Calls, TookEffect(d)
          PROVE  TookEffect(d)' /\ outcome'[d] = outcome[d]
        <3>1. pc[d] \notin Waiting \cup {"read"}
            BY <2>1 DEF TookEffect, Waiting
        <3>2. pc'[d] = IF pc[d] = "respond" THEN "unheard" ELSE pc[d]
            BY <1>10, <3>1 DEF Crash
        <3>3. outcome'[d] = outcome[d]
            BY <1>10, <3>1 DEF Crash
        <3>. QED
            BY <2>1, <3>2, <3>3 DEF TookEffect
    <2>2. log' = log /\ table' = table /\ op' = op /\ stamp' = stamp
        BY <1>10 DEF Crash, history
    <2>. QED
        BY <2>1, <2>2, LogKept
<1>11. ASSUME UNCHANGED vars
       PROVE  LogInv'
    <2>1. /\ log' = log /\ table' = table /\ op' = op /\ stamp' = stamp
          /\ outcome' = outcome /\ pc' = pc
        BY <1>11 DEF vars, history
    <2>. QED
        BY <2>1, LogKept DEF TookEffect
<1>. QED
    BY <1>1, <1>2, <1>3, <1>4, <1>5, <1>6, <1>7, <1>8, <1>9, <1>10, <1>11 DEF Next, Step

\* A step that stamps nobody keeps the order of the stamps.
LEMMA StampsKept ==
    ASSUME StampInv, clock' = clock, stamp' = stamp, earlier' = earlier,
           \A c \in Calls : pc[c] = "ok" => pc'[c] = "ok",
           earlier \in [Calls -> SUBSET Calls]
    PROVE  StampInv'
    BY DEF StampInv

LEMMA StampStep == IInv /\ [Next]_vars => StampInv'
<1> SUFFICES ASSUME IInv, [Next]_vars PROVE StampInv'
    OBVIOUS
<1>0. /\ StampInv /\ earlier \in [Calls -> SUBSET Calls] /\ DOMAIN pc = Calls
      /\ stamp \in [Calls -> Nat] /\ clock \in Nat
    BY DEF IInv, KVTypes
<1>1. ASSUME NEW c \in Calls, NEW o \in Ops, Call(c, o)
      PROVE  StampInv'
    <2>1. /\ clock' = clock + 1 /\ stamp'[c] = clock + 1
          /\ pc[c] = "new"
          /\ earlier'[c] = {d \in Calls : pc[d] = "ok"}
          /\ \A d \in Calls \ {c} : /\ stamp'[d] = stamp[d] /\ pc'[d] = pc[d]
                                    /\ earlier'[d] = earlier[d]
        BY <1>0, <1>1 DEF Call
    <2>2. \A d \in Calls : stamp[d] <= clock /\ stamp[d] \in Nat
        BY <1>0 DEF StampInv
    <2>3. ASSUME NEW d \in Calls
          PROVE  stamp'[d] <= clock'
        BY <1>0, <2>1, <2>2
    <2>4. ASSUME NEW e \in Calls, NEW d \in earlier'[e]
          PROVE  pc'[d] = "ok" /\ stamp'[d] < stamp'[e]
        <3>1. CASE e = c
            <4>1. d \in Calls /\ pc[d] = "ok" /\ d # c
                BY <2>1, <3>1
            <4>2. stamp[d] < clock + 1
                BY <1>0, <2>2, <4>1
            <4>. QED
                BY <2>1, <3>1, <4>1, <4>2
        <3>2. CASE e # c
            <4>1. d \in earlier[e] /\ d \in Calls
                BY <1>0, <2>1, <3>2
            <4>2. pc[d] = "ok" /\ stamp[d] < stamp[e]
                BY <1>0, <4>1 DEF StampInv
            <4>3. d # c
                BY <2>1, <4>2
            <4>. QED
                BY <2>1, <3>2, <4>1, <4>2, <4>3
        <3>. QED
            BY <3>1, <3>2
    <2>. QED
        BY <2>3, <2>4 DEF StampInv
<1>2. ASSUME NEW c \in Calls, Reject(c) \/ Step(c) \/ Fail(c) \/ LoseResponse(c)
      PROVE  StampInv'
    <2>1. clock' = clock /\ stamp' = stamp /\ earlier' = earlier
        BY <1>2 DEF Reject, Step, Read, Begin, Execute, Commit, Respond, Fail, LoseResponse,
                    history
    <2>2. pc[c] # "ok" /\ \E p \in Places : pc' = [pc EXCEPT ![c] = p]
        BY <1>2 DEF Reject, Step, Read, Begin, Execute, Commit, Respond, Fail, LoseResponse,
                    Waiting, Places
    <2>3. \A d \in Calls : pc[d] = "ok" => pc'[d] = "ok"
        BY <1>0, <2>2
    <2>. QED
        BY <1>0, <2>1, <2>3, StampsKept
<1>3. ASSUME Crash
      PROVE  StampInv'
    <2>1. clock' = clock /\ stamp' = stamp /\ earlier' = earlier
        BY <1>3 DEF Crash, history
    <2>2. \A d \in Calls : pc[d] = "ok" => pc'[d] = "ok"
        BY <1>3 DEF Crash, Waiting
    <2>. QED
        BY <1>0, <2>1, <2>2, StampsKept
<1>4. ASSUME UNCHANGED vars
      PROVE  StampInv'
    BY <1>0, <1>4, StampsKept DEF vars, history
<1>. QED
    BY <1>1, <1>2, <1>3, <1>4 DEF Next

\* KVStore keeps its inductive invariant.
THEOREM StoreInvariant == Spec => []IInv
<1>1. IInv /\ [Next]_vars => IInv'
    BY TypesStep, CallStep, TxStep, LogStep, StampStep DEF IInv
<1>. QED
    BY <1>1, InitInv, PTL DEF Spec

-----------------------------------------------------------------------------
(***************************************************************************)
(* What the log tells of a key.                                            *)
(***************************************************************************)

LEMMA RowAfterIsRowOf ==
    ASSUME IInv, NEW n \in 0..Len(log), NEW k
    PROVE  /\ WritesBefore(n, k) = Writes(LogOps, n, k)
           /\ RowAfter(n, k) = RowOf(LogOps, LogTimes, n, k)
<1>1. /\ Len(log) \in Nat /\ n \in Nat
      /\ \A i \in 1..Len(log) : LogOps[i] \in Ops /\ LogTimes[i] \in Nat
      /\ \A i \in 1..Len(log) : LogOps[i] = op[log[i]] /\ LogTimes[i] = stamp[log[i]]
    BY LogOpsType
<1>2. \A i \in 1..n : i \in 1..Len(log)
    BY <1>1
<1>3. WritesBefore(n, k) = Writes(LogOps, n, k)
    BY <1>1, <1>2 DEF WritesBefore, Writes, Touches
<1> DEFINE W == Writes(LogOps, n, k)
<1>4. W \in SUBSET (1..n)
    BY DEF Writes
<1>5. {i \in W : op[log[i]].kind = "delete"} = Deletes(LogOps, n, k)
    BY <1>1, <1>2, <1>4 DEF Deletes
<1>6. {i \in W : \A d \in Deletes(LogOps, n, k) : i > d} = Life(LogOps, n, k)
    BY DEF Life
<1>7. RowAfter(n, k) =
        IF W = {} \/ op[log[LastOf(W)]].kind = "delete"
        THEN NoRow
        ELSE [content |-> op[log[LastOf(W)]].content,
              created |-> stamp[log[FirstOf(Life(LogOps, n, k))]],
              updated |-> stamp[log[LastOf(W)]]]
    BY <1>3, <1>5, <1>6 DEF RowAfter
<1>8. \A i \in 1..n : LogOps[i] \in Ops /\ LogTimes[i] \in Nat
    BY <1>1, <1>2
<1>9. CASE W = {}
    BY <1>3, <1>7, <1>9 DEF RowOf
<1>10. CASE W # {}
    <2>1. LastOf(W) \in W
        BY <1>1, <1>4, <1>10, LastOfIsGreatest
    <2>2. LogOps[LastOf(W)] = op[log[LastOf(W)]] /\ LogTimes[LastOf(W)] = stamp[log[LastOf(W)]]
        BY <1>1, <1>2, <1>4, <2>1
    <2>3. CASE LogOps[LastOf(W)].kind = "delete"
        BY <1>3, <1>7, <2>2, <2>3 DEF RowOf
    <2>4. CASE LogOps[LastOf(W)].kind # "delete"
        <3>1. Life(LogOps, n, k) # {}
            BY <1>1, <1>8, <1>10, <2>4, LifeIffRow
        <3>2. FirstOf(Life(LogOps, n, k)) \in 1..n
            BY <1>1, <1>8, <3>1, RowOfType
        <3>3. LogTimes[FirstOf(Life(LogOps, n, k))] = stamp[log[FirstOf(Life(LogOps, n, k))]]
            BY <1>1, <1>2, <3>2
        <3>. QED
            BY <1>3, <1>7, <1>10, <2>2, <2>4, <3>3 DEF RowOf
    <2>. QED
        BY <2>3, <2>4
<1>. QED
    BY <1>3, <1>9, <1>10

\* Every answer is the one that the serial order of the log gives, and the rows
\* are those that the log leaves (property ResultsMatchLog).
THEOREM AnswersAreSerial == Spec => []ResultsMatchLog
<1>1. IInv => ResultsMatchLog
    <2> SUFFICES ASSUME IInv PROVE ResultsMatchLog
        OBVIOUS
    <2>1. /\ Len(log) \in Nat /\ DOMAIN log = 1..Len(log)
          /\ \A i \in 1..Len(log) : LogOps[i] \in Ops /\ LogTimes[i] \in Nat
          /\ \A i \in 1..Len(log) : LogOps[i] = op[log[i]] /\ LogTimes[i] = stamp[log[i]]
        BY LogOpsType
    <2>2. ASSUME NEW n \in 0..Len(log), NEW k \in Keys
          PROVE  TableOf(LogOps, LogTimes, n)[k] = RowAfter(n, k)
        BY RowAfterIsRowOf DEF TableOf
    <2>3. ASSUME NEW k \in Keys
          PROVE  table[k] = RowAfter(Len(log), k)
        <3>1. Len(log) \in 0..Len(log)
            BY <2>1
        <3>. QED
            BY <2>2, <3>1 DEF IInv, LogInv
    <2>4. ASSUME NEW n \in DOMAIN log
          PROVE  LET c == log[n]
                     o == op[c]
                 IN  outcome[c] = CASE o.kind = "put" -> RowAfter(n, o.key)
                                    [] o.kind = "get" -> RowAfter(n - 1, o.key)
                                    [] o.kind = "delete" -> RowAfter(n - 1, o.key) # NoRow
                                    [] o.kind = "scan" -> [k \in Keys |-> RowAfter(n - 1, k)]
        <3> DEFINE c == log[n]
                   o == op[c]
                   now == stamp[c]
                   T == TableOf(LogOps, LogTimes, n - 1)
        <3>1. n \in 1..Len(log) /\ n \in 0..Len(log) /\ n - 1 \in 0..Len(log) /\ n - 1 \in Nat
              /\ (n - 1) + 1 = n
            BY <2>1
        <3>2. o \in Ops /\ LogOps[n] = o /\ LogTimes[n] = now
            BY <2>1, <3>1
        <3>3. outcome[c] = Outcome(T, o, now)
            BY <3>2 DEF IInv, LogInv
        <3>4. /\ o.kind \in {"put", "get", "delete", "scan"}
              /\ o.kind # "scan" => o.key \in Keys
            BY <3>2, OpFields
        <3>5. \A k \in Keys : T[k] = RowAfter(n - 1, k)
            BY <2>2, <3>1
        <3>6. CASE o.kind = "put"
            <4>1. outcome[c] = Written(T[o.key], o.content, now)
                BY <3>3, <3>6 DEF Outcome
            <4>2. TableOf(LogOps, LogTimes, n) = Effect(T, o, now)
                <5>1. \A i \in 1..((n - 1) + 1) : i \in 1..Len(log)
                    BY <2>1, <3>1
                <5>2. TableOf(LogOps, LogTimes, (n - 1) + 1) =
                        Effect(T, LogOps[(n - 1) + 1], LogTimes[(n - 1) + 1])
                    BY <2>1, <3>1, <5>1, TableOfNext
                <5>. QED
                    BY <3>1, <3>2, <5>2
            <4>3. Effect(T, o, now) = [T EXCEPT ![o.key] = Written(T[o.key], o.content, now)]
                BY <3>6 DEF Effect
            <4>4. DOMAIN T = Keys
                BY DEF TableOf
            <4>5. TableOf(LogOps, LogTimes, n)[o.key] = Written(T[o.key], o.content, now)
                BY <3>4, <3>6, <4>2, <4>3, <4>4
            <4>6. outcome[c] = RowAfter(n, o.key)
                BY <2>2, <3>1, <3>4, <3>6, <4>1, <4>5
            <4>. QED
                BY <3>6, <4>6
        <3>7. CASE o.kind = "get"
            <4>1. outcome[c] = T[o.key]
                BY <3>3, <3>7 DEF Outcome
            <4>. QED
                BY <3>4, <3>5, <3>7, <4>1
        <3>8. CASE o.kind = "delete"
            <4>1. outcome[c] = (T[o.key] # NoRow)
                BY <3>3, <3>8 DEF Outcome
            <4>. QED
                BY <3>4, <3>5, <3>8, <4>1
        <3>9. CASE o.kind = "scan"
            <4>1. outcome[c] = T
                BY <3>3, <3>9 DEF Outcome
            <4>2. T = [k \in Keys |-> RowAfter(n - 1, k)]
                BY <3>5 DEF TableOf
            <4>. QED
                BY <3>9, <4>1, <4>2
        <3>. QED
            BY <3>4, <3>6, <3>7, <3>8, <3>9
    <2>. QED
        BY <2>3, <2>4 DEF ResultsMatchLog
<1>. QED
    BY <1>1, StoreInvariant, PTL

\* A row that is older than its creation was written by a put that overlapped
\* the one that created it (property AgesInOrder).
THEOREM AgesOutOfOrderOverlap == Spec => []AgesInOrder
<1>1. IInv => AgesInOrder
    <2> SUFFICES ASSUME IInv, NEW k \in Keys, table[k] # NoRow,
                        table[k].updated < table[k].created
                 PROVE  \E m, n \in WritesBefore(Len(log), k) :
                            /\ m < n
                            /\ stamp[log[m]] = table[k].created
                            /\ stamp[log[n]] = table[k].updated
                            /\ log[m] \notin earlier[log[n]]
        BY DEF AgesInOrder
    <2> DEFINE N == Len(log)
               first == FirstOf(Life(LogOps, N, k))
               last == LastOf(Writes(LogOps, N, k))
    <2>1. /\ N \in Nat
          /\ \A i \in 1..N : log[i] \in Calls
          /\ \A i \in 1..N : LogOps[i] \in Ops /\ LogTimes[i] \in Nat
          /\ \A i \in 1..N : LogOps[i] = op[log[i]] /\ LogTimes[i] = stamp[log[i]]
        BY LogOpsType
    <2>2. table[k] = RowOf(LogOps, LogTimes, N, k)
        BY DEF IInv, LogInv, TableOf
    <2>3. Life(LogOps, N, k) # {}
        BY <2>1, <2>2, LifeIffRow DEF RowOf
    <2>4. /\ first \in Writes(LogOps, N, k) /\ last \in Writes(LogOps, N, k)
          /\ first <= last /\ first \in 1..N /\ last \in 1..N
          /\ table[k] = [content |-> LogOps[last].content, created |-> LogTimes[first],
                         updated |-> LogTimes[last]]
        BY <2>1, <2>2, <2>3, RowOfType
    <2> HIDE DEF first, last
    <2>5. stamp[log[first]] = table[k].created /\ stamp[log[last]] = table[k].updated
        BY <2>1, <2>4
    <2>6. stamp[log[first]] \in Nat /\ stamp[log[last]] \in Nat
        BY <2>1, <2>4
    <2>7. first < last
        BY <2>1, <2>4, <2>5, <2>6
    <2>8. log[first] \notin earlier[log[last]]
        <3>1. log[last] \in Calls
            BY <2>1, <2>4
        <3>2. log[first] \in earlier[log[last]] => stamp[log[first]] < stamp[log[last]]
            BY <3>1 DEF IInv, StampInv
        <3>. QED
            BY <2>5, <2>6, <3>2
    <2>9. WritesBefore(N, k) = Writes(LogOps, N, k)
        <3>1. N \in 0..N
            BY <2>1
        <3>. QED
            BY <3>1, RowAfterIsRowOf
    <2>. QED
        BY <2>4, <2>5, <2>7, <2>8, <2>9
<1>. QED
    BY <1>1, StoreInvariant, PTL

-----------------------------------------------------------------------------
(***************************************************************************)
(* The endpoints implement AtomicKV.                                       *)
(***************************************************************************)

\* How far a request is, as AtomicKV sees it.
StageOf(p) ==
    CASE p = "new" -> "new"
      [] p \in Waiting \cup {"read"} -> "called"
      [] p \in {"respond", "unheard"} -> "done"
      [] p = "ok" -> "returned"
      [] p \in {"error", "cut"} -> "dropped"

Stage == [c \in Calls |-> StageOf(pc[c])]

Answered == [c \in Calls |-> IF TookEffect(c) THEN outcome[c] ELSE NoOutcome]

\* The stage of every place of a request.
LEMMA StageOfPlace ==
    /\ StageOf("new") = "new"
    /\ StageOf("begin") = "called"
    /\ StageOf("execute") = "called"
    /\ StageOf("commit") = "called"
    /\ StageOf("read") = "called"
    /\ StageOf("respond") = "done"
    /\ StageOf("unheard") = "done"
    /\ StageOf("ok") = "returned"
    /\ StageOf("error") = "dropped"
    /\ StageOf("cut") = "dropped"
<1>1. StageOf("new") = "new"
    BY DEF StageOf, Waiting
<1>2. \A p \in {"begin", "execute", "commit", "read"} : StageOf(p) = "called"
    BY DEF StageOf, Waiting
<1>3. \A p \in {"respond", "unheard"} : StageOf(p) = "done"
    BY DEF StageOf, Waiting
<1>4. StageOf("ok") = "returned"
    BY DEF StageOf, Waiting
<1>5. \A p \in {"error", "cut"} : StageOf(p) = "dropped"
    BY DEF StageOf, Waiting
<1>. QED
    BY <1>1, <1>2, <1>3, <1>4, <1>5

\* The mapped variables, and the operators on rows on both sides of the mapping.
LEMMA MappedState ==
    /\ Stage = [c \in Calls |->
                  CASE pc[c] = "new" -> "new"
                    [] pc[c] \in Waiting \cup {"read"} -> "called"
                    [] pc[c] \in {"respond", "unheard"} -> "done"
                    [] pc[c] = "ok" -> "returned"
                    [] pc[c] \in {"error", "cut"} -> "dropped"]
    /\ \A t, o, now : Atomic!Effect(t, o, now) = Effect(t, o, now)
    /\ \A t, o, now : Atomic!Outcome(t, o, now) = Outcome(t, o, now)
    /\ Atomic!Ops = Ops
<1>1. \A row, content, now : Atomic!Written(row, content, now) = Written(row, content, now)
    BY DEF Atomic!Written, Written
<1>2. \A t, o, now : Atomic!Effect(t, o, now) = Effect(t, o, now)
    BY <1>1 DEF Atomic!Effect, Effect
<1>3. \A t, o, now : Atomic!Outcome(t, o, now) = Outcome(t, o, now)
    BY <1>1 DEF Atomic!Outcome, Outcome
<1>4. Atomic!Ops = Ops
    BY DEF Atomic!Ops, Ops
<1>. QED
    BY <1>2, <1>3, <1>4 DEF Stage, StageOf

\* Requests that took no effect have nothing to answer.
LEMMA AnsweredKept ==
    ASSUME IInv,
           \A c \in Calls : TookEffect(c)' <=> TookEffect(c),
           \A c \in Calls : TookEffect(c) => outcome'[c] = outcome[c]
    PROVE  Answered' = Answered
<1>1. \A c \in Calls : Answered'[c] = Answered[c]
    BY DEF Answered
<1>2. Answered' = [c \in Calls |-> Answered'[c]] /\ Answered = [c \in Calls |-> Answered[c]]
    BY DEF Answered
<1>. QED
    BY <1>1, <1>2

\* A request that goes from one place to another takes its stage with it.
LEMMA StageMoves ==
    ASSUME NEW c \in Calls, NEW p \in Places, DOMAIN pc = Calls, pc' = [pc EXCEPT ![c] = p]
    PROVE  Stage' = [Stage EXCEPT ![c] = StageOf(p)]
<1>1. \A d \in Calls : Stage'[d] = IF d = c THEN StageOf(p) ELSE Stage[d]
    BY DEF Stage
<1>2. Stage' = [d \in Calls |-> Stage'[d]] /\ DOMAIN Stage = Calls
    BY DEF Stage
<1>. QED
    BY <1>1, <1>2

LEMMA CallIsAtomic ==
    ASSUME IInv, NEW c \in Calls, NEW o \in Ops, Call(c, o)
    PROVE  Atomic!Call(c, o)
<1>0. DOMAIN pc = Calls /\ DOMAIN outcome = Calls
    BY DEF IInv, KVTypes
<1>1. PICK p \in {"begin", "read"} : pc' = [pc EXCEPT ![c] = p]
    BY DEF Call
<1>2. StageOf(p) = "called" /\ p \in Places
    BY StageOfPlace DEF Places
<1>3. Stage' = [Stage EXCEPT ![c] = "called"]
    BY <1>0, <1>1, <1>2, StageMoves
<1>4. Stage[c] = "new"
    BY StageOfPlace DEF Call, Stage
<1>5. Answered' = Answered
    <2>1. \A d \in Calls : TookEffect(d)' <=> TookEffect(d)
        BY <1>0, <1>1 DEF Call, TookEffect
    <2>2. outcome' = outcome
        BY DEF Call
    <2>. QED
        BY <2>1, <2>2, AnsweredKept
<1>6. /\ clock' = clock + 1 /\ op' = [op EXCEPT ![c] = o]
      /\ stamp' = [stamp EXCEPT ![c] = clock'] /\ table' = table
    BY DEF Call
<1>. QED
    BY <1>3, <1>4, <1>5, <1>6 DEF Atomic!Call, Stage, StageOf, Answered

\* Read and Commit are the instants at which a request takes effect.
LEMMA EffectIsAtomic ==
    ASSUME IInv, NEW c \in Calls, pc[c] \in {"read", "commit"},
           pc' = [pc EXCEPT ![c] = "respond"],
           table' = Effect(table, op[c], stamp[c]),
           outcome'[c] = Outcome(table, op[c], stamp[c]),
           \A d \in Calls \ {c} : outcome'[d] = outcome[d],
           clock' = clock, op' = op, stamp' = stamp
    PROVE  Atomic!TakeEffect(c)
<1>0. DOMAIN pc = Calls /\ DOMAIN outcome = Calls
    BY DEF IInv, KVTypes
<1>1. Stage' = [Stage EXCEPT ![c] = "done"]
    <2>1. StageOf("respond") = "done" /\ "respond" \in Places
        BY StageOfPlace DEF Places
    <2>. QED
        BY <1>0, <2>1, StageMoves
<1>2. Stage[c] = "called"
    BY StageOfPlace DEF Stage
<1>3. Answered' = [Answered EXCEPT ![c] = Outcome(table, op[c], stamp[c])]
    <2>1. \A d \in Calls :
            Answered'[d] = IF d = c THEN Outcome(table, op[c], stamp[c]) ELSE Answered[d]
        BY <1>0 DEF Answered, TookEffect
    <2>2. Answered' = [d \in Calls |-> Answered'[d]] /\ DOMAIN Answered = Calls
        BY DEF Answered
    <2>. QED
        BY <2>1, <2>2
<1>4. table' = Atomic!Effect(table, op[c], stamp[c])
    BY MappedState
<1>5. Answered' = [Answered EXCEPT ![c] = Atomic!Outcome(table, op[c], stamp[c])]
    BY <1>3, MappedState
<1>. QED
    BY <1>1, <1>2, <1>4, <1>5 DEF Atomic!TakeEffect, Stage, StageOf, Answered

LEMMA ReturnIsAtomic ==
    ASSUME IInv, NEW c \in Calls, Respond(c)
    PROVE  Atomic!Return(c)
<1>0. DOMAIN pc = Calls
    BY DEF IInv, KVTypes
<1>1. /\ pc[c] = "respond" /\ pc' = [pc EXCEPT ![c] = "ok"]
      /\ table' = table /\ clock' = clock /\ op' = op /\ stamp' = stamp /\ outcome' = outcome
    BY DEF Respond
<1>2. Stage' = [Stage EXCEPT ![c] = "returned"]
    <2>1. StageOf("ok") = "returned" /\ "ok" \in Places
        BY StageOfPlace DEF Places
    <2>2. pc' = [pc EXCEPT ![c] = "ok"]
        BY <1>1
    <2>. QED
        BY <1>0, <2>1, <2>2, StageMoves
<1>3. Stage[c] = "done"
    BY <1>1, StageOfPlace DEF Stage
<1>4. Answered' = Answered
    <2>1. \A d \in Calls : TookEffect(d)' <=> TookEffect(d)
        BY <1>0, <1>1 DEF TookEffect
    <2>. QED
        BY <1>1, <2>1, AnsweredKept
<1>. QED
    BY <1>1, <1>2, <1>3, <1>4 DEF Atomic!Return, Stage, StageOf, Answered

\* Requests that end with an error, or with the process, come to nothing.
LEMMA DropIsAtomic ==
    ASSUME IInv, NEW C \in SUBSET Calls,
           \A c \in C : pc[c] \in {"new", "read"} \cup Waiting /\ pc'[c] \in {"error", "cut"},
           \A c \in Calls \ C : StageOf(pc'[c]) = StageOf(pc[c])
                                /\ (TookEffect(c)' <=> TookEffect(c)),
           \A c \in Calls : TookEffect(c) => outcome'[c] = outcome[c],
           table' = table, clock' = clock, op' = op, stamp' = stamp
    PROVE  Atomic!Drop(C)
<1>1. \A c \in C : Stage[c] \in {"new", "called"}
    BY StageOfPlace DEF Stage, Waiting
<1>2. Stage' = [c \in Calls |-> IF c \in C THEN "dropped" ELSE Stage[c]]
    <2>1. \A c \in Calls : Stage'[c] = IF c \in C THEN "dropped" ELSE Stage[c]
        BY StageOfPlace DEF Stage
    <2>2. Stage' = [c \in Calls |-> Stage'[c]]
        BY DEF Stage
    <2>. QED
        BY <2>1, <2>2
<1>3. Answered' = Answered
    <2>1. \A c \in C : ~ TookEffect(c) /\ ~ TookEffect(c)'
        BY DEF TookEffect, Waiting
    <2>. QED
        BY <2>1, AnsweredKept
<1>. QED
    BY <1>1, <1>2, <1>3 DEF Atomic!Drop, Stage, StageOf, Answered

\* The other steps are invisible.
LEMMA InvisibleSteps ==
    ASSUME IInv,
           \A c \in Calls : StageOf(pc'[c]) = StageOf(pc[c]),
           \A c \in Calls : TookEffect(c)' <=> TookEffect(c),
           \A c \in Calls : TookEffect(c) => outcome'[c] = outcome[c],
           table' = table, clock' = clock, op' = op, stamp' = stamp
    PROVE  UNCHANGED Atomic!vars
<1>1. Stage' = Stage
    BY DEF Stage
<1>2. Answered' = Answered
    BY AnsweredKept
<1>. QED
    BY <1>1, <1>2 DEF Atomic!vars, Stage, StageOf, Answered

LEMMA InitIsAtomic == Init => Atomic!Init
<1> SUFFICES ASSUME Init PROVE Atomic!Init
    OBVIOUS
<1>1. Stage = [c \in Calls |-> "new"]
    BY StageOfPlace DEF Init, Stage
<1>2. Answered = [c \in Calls |-> NoOutcome]
    BY DEF Init, Answered, TookEffect
<1>3. /\ table = [k \in Keys |-> NoRow] /\ clock = 0
      /\ op = [c \in Calls |-> NoOp] /\ stamp = [c \in Calls |-> 0]
    BY DEF Init
<1>. QED
    BY <1>1, <1>2, <1>3 DEF Atomic!Init, Stage, StageOf, Answered

\* Every step is a step of AtomicKV, or invisible to it.
LEMMA StepIsAtomic == IInv /\ [Next]_vars => [Atomic!Next]_Atomic!vars
<1> SUFFICES ASSUME IInv, [Next]_vars PROVE [Atomic!Next]_Atomic!vars
    OBVIOUS
<1>0. DOMAIN pc = Calls /\ DOMAIN outcome = Calls
    BY DEF IInv, KVTypes
<1>1. ASSUME NEW c \in Calls, NEW o \in Ops, Call(c, o)
      PROVE  Atomic!Next
    BY <1>1, CallIsAtomic, MappedState DEF Atomic!Next
<1>2. ASSUME NEW c \in Calls, Reject(c)
      PROVE  Atomic!Next
    <2>1. /\ pc[c] = "new" /\ pc'[c] = "error" /\ outcome' = outcome
          /\ \A d \in Calls \ {c} : pc'[d] = pc[d]
          /\ table' = table /\ clock' = clock /\ op' = op /\ stamp' = stamp
        BY <1>0, <1>2 DEF Reject
    <2>2. \A d \in Calls \ {c} : TookEffect(d)' <=> TookEffect(d)
        BY <2>1 DEF TookEffect
    <2>3. {c} \in SUBSET Calls
        OBVIOUS
    <2>4. Atomic!Drop({c})
        BY <2>1, <2>2, <2>3, DropIsAtomic
    <2>. QED
        BY <2>3, <2>4 DEF Atomic!Next
<1>3. ASSUME NEW c \in Calls, Read(c)
      PROVE  Atomic!Next
    <2>1. ~ IsWrite(op[c])
        BY <1>3 DEF Read, IInv, CallInv
    <2>2. Effect(table, op[c], stamp[c]) = table
        BY <2>1 DEF Effect, IsWrite
    <2>3. /\ pc[c] = "read" /\ pc' = [pc EXCEPT ![c] = "respond"]
          /\ outcome' = [outcome EXCEPT ![c] = Outcome(table, op[c], stamp[c])]
          /\ table' = table /\ clock' = clock /\ op' = op /\ stamp' = stamp
        BY <1>3 DEF Read
    <2>4. /\ outcome'[c] = Outcome(table, op[c], stamp[c])
          /\ \A d \in Calls \ {c} : outcome'[d] = outcome[d]
        BY <1>0, <2>3
    <2>5. Atomic!TakeEffect(c)
        BY <2>2, <2>3, <2>4, EffectIsAtomic
    <2>. QED
        BY <2>5 DEF Atomic!Next
<1>4. ASSUME NEW c \in Calls, Begin(c) \/ Execute(c)
      PROVE  UNCHANGED Atomic!vars
    <2>1. /\ pc[c] \in {"begin", "execute"} /\ pc'[c] \in {"execute", "commit"}
          /\ \A d \in Calls \ {c} : pc'[d] = pc[d] /\ outcome'[d] = outcome[d]
          /\ table' = table /\ clock' = clock /\ op' = op /\ stamp' = stamp
        BY <1>0, <1>4 DEF Begin, Execute
    <2>2. \A d \in Calls : StageOf(pc'[d]) = StageOf(pc[d])
        BY <2>1, StageOfPlace
    <2>3. \A d \in Calls : /\ TookEffect(d)' <=> TookEffect(d)
                           /\ TookEffect(d) => outcome'[d] = outcome[d]
        BY <2>1 DEF TookEffect
    <2>. QED
        BY <2>1, <2>2, <2>3, InvisibleSteps
<1>5. ASSUME NEW c \in Calls, Commit(c)
      PROVE  Atomic!Next
    <2>1. /\ pc[c] = "commit" /\ pc' = [pc EXCEPT ![c] = "respond"]
          /\ table' = tx /\ outcome' = outcome
          /\ clock' = clock /\ op' = op /\ stamp' = stamp
        BY <1>5 DEF Commit
    <2>2. tx = Effect(table, op[c], stamp[c]) /\ outcome[c] = Outcome(table, op[c], stamp[c])
        BY <2>1 DEF IInv, TxInv
    <2>3. Atomic!TakeEffect(c)
        BY <2>1, <2>2, EffectIsAtomic
    <2>. QED
        BY <2>3 DEF Atomic!Next
<1>6. ASSUME NEW c \in Calls, Respond(c)
      PROVE  Atomic!Next
    BY <1>6, ReturnIsAtomic DEF Atomic!Next
<1>7. ASSUME NEW c \in Calls, Fail(c)
      PROVE  Atomic!Next
    <2>1. /\ pc[c] \in Waiting \cup {"read"} /\ pc'[c] = "error"
          /\ \A d \in Calls \ {c} : pc'[d] = pc[d] /\ outcome'[d] = outcome[d]
          /\ table' = table /\ clock' = clock /\ op' = op /\ stamp' = stamp
        BY <1>0, <1>7 DEF Fail
    <2>2. \A d \in Calls \ {c} : TookEffect(d)' <=> TookEffect(d)
        BY <2>1 DEF TookEffect
    <2>3. {c} \in SUBSET Calls /\ ~ TookEffect(c)
        BY <2>1 DEF TookEffect, Waiting
    <2>4. Atomic!Drop({c})
        BY <2>1, <2>2, <2>3, DropIsAtomic
    <2>. QED
        BY <2>3, <2>4 DEF Atomic!Next
<1>8. ASSUME NEW c \in Calls, LoseResponse(c)
      PROVE  UNCHANGED Atomic!vars
    <2>1. /\ pc[c] = "respond" /\ pc'[c] = "unheard" /\ outcome' = outcome
          /\ \A d \in Calls \ {c} : pc'[d] = pc[d]
          /\ table' = table /\ clock' = clock /\ op' = op /\ stamp' = stamp
        BY <1>0, <1>8 DEF LoseResponse
    <2>2. \A d \in Calls : StageOf(pc'[d]) = StageOf(pc[d])
        BY <2>1, StageOfPlace
    <2>3. \A d \in Calls : TookEffect(d)' <=> TookEffect(d)
        BY <2>1 DEF TookEffect
    <2>. QED
        BY <2>1, <2>2, <2>3, InvisibleSteps
<1>9. ASSUME Crash
      PROVE  Atomic!Next
    <2>1. /\ table' = table /\ clock' = clock /\ op' = op /\ stamp' = stamp
          /\ \A c \in Calls : outcome'[c] = IF pc[c] \in Waiting THEN NoOutcome ELSE outcome[c]
        BY <1>9 DEF Crash
    <2>2. \A c \in Calls : pc'[c] = CASE pc[c] \in Waiting \cup {"read"} -> "cut"
                                     [] pc[c] = "respond" -> "unheard"
                                     [] OTHER -> pc[c]
        BY <1>9 DEF Crash
    <2>3. PICK C \in SUBSET Calls :
            \A c \in Calls : c \in C <=> pc[c] \in Waiting \cup {"read"}
        <3>1. {c \in Calls : pc[c] \in Waiting \cup {"read"}} \in SUBSET Calls
            OBVIOUS
        <3>. QED
            BY <3>1
    <2>4. \A c \in C : pc[c] \in {"new", "read"} \cup Waiting /\ pc'[c] \in {"error", "cut"}
        BY <2>2, <2>3 DEF Waiting
    <2>5. \A c \in Calls \ C : pc'[c] = IF pc[c] = "respond" THEN "unheard" ELSE pc[c]
        BY <2>2, <2>3
    <2>6. \A c \in Calls \ C : /\ StageOf(pc'[c]) = StageOf(pc[c])
                               /\ TookEffect(c)' <=> TookEffect(c)
        BY <2>5, StageOfPlace DEF TookEffect
    <2>7. \A c \in Calls : TookEffect(c) => outcome'[c] = outcome[c]
        BY <2>1 DEF TookEffect, Waiting
    <2>8. Atomic!Drop(C)
        BY <2>1, <2>4, <2>6, <2>7, DropIsAtomic
    <2>. QED
        BY <2>8 DEF Atomic!Next
<1>10. ASSUME UNCHANGED vars
       PROVE  UNCHANGED Atomic!vars
    BY <1>10 DEF vars, history, Atomic!vars, TookEffect
<1>. QED
    BY <1>1, <1>2, <1>3, <1>4, <1>5, <1>6, <1>7, <1>8, <1>9, <1>10 DEF Next, Step

\* Every operation takes effect at one instant between its call and its answer,
\* or never (property ImplementsAtomicKV).
THEOREM EndpointsAreAtomic == Spec => ImplementsAtomicKV
    BY StoreInvariant, InitIsAtomic, StepIsAtomic, PTL DEF Spec, ImplementsAtomicKV

=============================================================================
