------------------------- MODULE SchemaServiceProofs -------------------------
(***************************************************************************)
(* Which schema documents are judged by, for any number of concurrent      *)
(* schema changes and validations, any schemas and documents and any       *)
(* number of failures and crashes.                                         *)
(***************************************************************************)
EXTENDS SchemaService, TLAPS

\* What is cached, and what a call judges by, was committed at some time.
CommittedInv ==
    /\ schema \in enforced
    /\ cache \in enforced \cup {NoSchema}
    /\ \A w \in Writers :
         pc[w] \in {"store", "write", "written", "rejected"} => used[w] \in enforced

\* A document on its way to the store was accepted by the schema it was judged by.
AcceptedInv == \A w \in Writers : pc[w] = "write" => Accepts(used[w], doc[w])

\* As long as the last change was not overlapped the cache is empty or current,
\* calls judge by the current schema, and a change in progress is alone: nobody can
\* put the old schema back behind it.
QuietInv ==
    ~ overlapped =>
        /\ cache \in {NoSchema, schema}
        /\ \A w \in Writers : pc[w] \in {"store", "write"} => used[w] = schema
        /\ \A a \in Admins : Active(a) =>
              cache = NoSchema /\ \A c \in Calls : c # a => ~ Active(c)

WrittenInv == \A x \in written : x.quiet => Accepts(x.under, x.doc)

\* The inductive invariant.
SchemaInv == TypeOK /\ CommittedInv /\ AcceptedInv /\ QuietInv /\ WrittenInv

LEMMA InitEstablishesInv == Init => SchemaInv
<1> SUFFICES ASSUME Init PROVE SchemaInv
  OBVIOUS
<1>1. \A c \in Calls : ~ Active(c)
  BY DEF Init, Active
<1>2. TypeOK
  <2>1. pc \in [Calls -> {"new", "commit", "read", "store", "write"} \cup Done]
    BY DEF Init
  <2>2. used \in [Writers -> Targets] /\ faults \in 0..MaxFaults
    BY SchemasAssumption DEF Init, Targets
  <2>3. \A c \in Calls : pc[c] = "new"
    BY DEF Init
  <2>4. written \subseteq [doc : Docs, under : Targets, quiet : BOOLEAN]
    BY DEF Init
  <2>5. schema \in Targets /\ cache \in Targets /\ enforced \subseteq Targets
        /\ configured \subseteq Writers /\ overlapped \in BOOLEAN
    BY DEF Init, Targets
  <2> QED
    BY <2>1, <2>2, <2>3, <2>4, <2>5 DEF Init, TypeOK, Calls
<1>3. CommittedInv /\ AcceptedInv /\ WrittenInv
  BY DEF Init, CommittedInv, AcceptedInv, WrittenInv, Calls
<1> QED
  BY <1>1, <1>2, <1>3 DEF Init, SchemaInv, QuietInv, Calls

-----------------------------------------------------------------------------
(***************************************************************************)
(* One lemma per kind of step.                                             *)
(***************************************************************************)

\* Upsert or Delete drops the cached schema.
LEMMA InvalidateKeepsInv ==
    ASSUME SchemaInv, NEW a \in Admins, Invalidate(a)
    PROVE  SchemaInv'
<1> USE SchemasAssumption DEF SchemaInv, TypeOK, Calls, Targets, Done
<1>1. pc[a] = "new" /\ pc' = [pc EXCEPT ![a] = "commit"] /\ cache' = NoSchema
      /\ overlapped' = (\E c \in Calls : Active(c))
      /\ UNCHANGED <<schema, change, doc, used, faults, written, enforced, configured>>
  BY DEF Invalidate, inputs
<1>2. \A w \in Writers : pc'[w] = pc[w]
  BY <1>1
<1>3. TypeOK'
  BY <1>1
<1>4. CommittedInv' /\ AcceptedInv' /\ WrittenInv'
  BY <1>1, <1>2 DEF CommittedInv, AcceptedInv, WrittenInv
<1>5. QuietInv'
  <2> SUFFICES ASSUME ~ overlapped' PROVE QuietInv'
    BY DEF QuietInv
  <2>1. \A c \in Calls : ~ Active(c)
    BY <1>1
  <2>2. \A c \in Calls : c # a => ~ Active(c)'
    BY <1>1, <2>1 DEF Active
  <2>3. \A w \in Writers : ~ Active(w)'
    BY <2>2
  <2>4. \A w \in Writers : pc'[w] \notin {"store", "write"}
    BY <2>3 DEF Active
  <2>5. \A b \in Admins : Active(b)' => b = a
    BY <2>2
  <2> QED
    BY <1>1, <2>2, <2>4, <2>5 DEF QuietInv
<1> QED
  BY <1>3, <1>4, <1>5

\* The repository commits a change.
LEMMA CommitKeepsInv ==
    ASSUME SchemaInv, NEW a \in Admins, CommitChange(a)
    PROVE  SchemaInv'
<1> USE SchemasAssumption DEF SchemaInv, TypeOK, Calls, Targets, Done
<1>1. pc[a] = "commit" /\ pc' = [pc EXCEPT ![a] = "done"] /\ schema' = change[a]
      /\ enforced' = enforced \cup {change[a]} /\ configured' \subseteq Writers
      /\ UNCHANGED <<cache, change, doc, used, faults, written, overlapped>>
  BY DEF CommitChange, inputs
<1>2. \A w \in Writers : pc'[w] = pc[w]
  BY <1>1
<1>3. TypeOK'
  BY <1>1
<1>4. CommittedInv' /\ AcceptedInv' /\ WrittenInv'
  BY <1>1, <1>2 DEF CommittedInv, AcceptedInv, WrittenInv
<1>5. QuietInv'
  <2> SUFFICES ASSUME ~ overlapped' PROVE QuietInv'
    BY DEF QuietInv
  <2>1. cache = NoSchema /\ \A c \in Calls : c # a => ~ Active(c)
    BY <1>1 DEF QuietInv, Active
  <2>2. \A c \in Calls : ~ Active(c)'
    BY <1>1, <2>1 DEF Active
  <2>3. \A w \in Writers : pc'[w] \notin {"store", "write"}
    BY <2>2 DEF Active
  <2> QED
    BY <1>1, <2>1, <2>2, <2>3 DEF QuietInv
<1> QED
  BY <1>3, <1>4, <1>5

\* Validate looks into the cache.
LEMMA LoadKeepsInv ==
    ASSUME SchemaInv, NEW w \in Writers, LoadCache(w)
    PROVE  SchemaInv'
<1> USE SchemasAssumption DEF SchemaInv, TypeOK, Calls, Targets, Done
<1>1. pc[w] = "new" /\ configured' \subseteq Writers
      /\ overlapped' = (overlapped \/ \E a \in Admins : Active(a))
      /\ UNCHANGED <<schema, cache, change, doc, faults, written, enforced>>
  BY DEF LoadCache, inputs
<1>2. \/ /\ cache # NoSchema
         /\ used' = [used EXCEPT ![w] = cache]
         /\ pc' = [pc EXCEPT ![w] = IF Accepts(cache, doc[w]) THEN "write" ELSE "rejected"]
      \/ /\ used' = used
         /\ pc' = [pc EXCEPT ![w] = "read"]
  BY DEF LoadCache, Judge
<1>3. \A c \in Calls : c # w => pc'[c] = pc[c]
  BY <1>2
<1>4. \A x \in Writers : x # w => used'[x] = used[x]
  BY <1>2
<1>5. pc'[w] \in {"write", "rejected"} => used'[w] = cache /\ cache # NoSchema
  BY <1>2
<1>6. pc'[w] \in {"write", "rejected", "read"}
  BY <1>2
<1>7. TypeOK'
  BY <1>1, <1>2
<1>8. CommittedInv' /\ WrittenInv'
  BY <1>1, <1>3, <1>4, <1>5, <1>6 DEF CommittedInv, WrittenInv
<1>9. AcceptedInv'
  <2>1. pc'[w] = "write" => Accepts(used'[w], doc[w])
    BY <1>2
  <2> QED
    BY <1>1, <1>3, <1>4, <2>1 DEF AcceptedInv, Accepts
<1>10. QuietInv'
  <2> SUFFICES ASSUME ~ overlapped' PROVE QuietInv'
    BY DEF QuietInv
  <2>1. ~ overlapped /\ \A a \in Admins : ~ Active(a)
    BY <1>1
  <2>2. \A a \in Admins : ~ Active(a)'
    BY <1>3, <2>1 DEF Active
  <2>3. \A x \in Writers : pc'[x] \in {"store", "write"} => used'[x] = schema
    BY <1>3, <1>4, <1>5, <1>6, <2>1 DEF QuietInv
  <2> QED
    BY <1>1, <2>1, <2>2, <2>3 DEF QuietInv
<1> QED
  BY <1>7, <1>8, <1>9, <1>10

\* Validate reads the committed schema.
LEMMA ReadKeepsInv ==
    ASSUME SchemaInv, NEW w \in Writers, ReadSchema(w)
    PROVE  SchemaInv'
<1> USE SchemasAssumption DEF SchemaInv, TypeOK, Calls, Targets, Done
<1>1. pc[w] = "read" /\ used' = [used EXCEPT ![w] = schema]
      /\ pc' = [pc EXCEPT ![w] = IF schema = NoSchema THEN "write" ELSE "store"]
      /\ UNCHANGED <<schema, cache, change, doc, faults, written, enforced, configured, overlapped>>
  BY DEF ReadSchema, inputs, history
<1>2. \A c \in Calls : c # w => pc'[c] = pc[c]
  BY <1>1
<1>3. \A x \in Writers : x # w => used'[x] = used[x]
  BY <1>1
<1>4. used'[w] = schema /\ pc'[w] \in {"write", "store"}
  BY <1>1
<1>5. TypeOK'
  BY <1>1
<1>6. CommittedInv' /\ WrittenInv'
  BY <1>1, <1>2, <1>3, <1>4 DEF CommittedInv, WrittenInv
<1>7. AcceptedInv'
  <2>1. pc'[w] = "write" => schema = NoSchema
    BY <1>1
  <2> QED
    BY <1>1, <1>2, <1>3, <1>4, <2>1 DEF AcceptedInv, Accepts
<1>8. QuietInv'
  <2> SUFFICES ASSUME ~ overlapped' PROVE QuietInv'
    BY DEF QuietInv
  <2>1. \A c \in Calls : Active(c)' = Active(c)
    BY <1>1, <1>2, <1>4 DEF Active
  <2>2. \A x \in Writers : pc'[x] \in {"store", "write"} => used'[x] = schema
    BY <1>1, <1>2, <1>3, <1>4 DEF QuietInv
  <2> QED
    BY <1>1, <2>1, <2>2 DEF QuietInv
<1> QED
  BY <1>5, <1>6, <1>7, <1>8

\* Validate stores what it read and judges by it.
LEMMA StoreKeepsInv ==
    ASSUME SchemaInv, NEW w \in Writers, StoreCache(w)
    PROVE  SchemaInv'
<1> USE SchemasAssumption DEF SchemaInv, TypeOK, Calls, Targets, Done
<1>1. pc[w] = "store" /\ cache' = used[w]
      /\ pc' = [pc EXCEPT ![w] = IF Accepts(used[w], doc[w]) THEN "write" ELSE "rejected"]
      /\ UNCHANGED <<schema, change, doc, used, faults, written, enforced, configured, overlapped>>
  BY DEF StoreCache, Judge, inputs, history
<1>2. \A c \in Calls : c # w => pc'[c] = pc[c]
  BY <1>1
<1>3. pc'[w] \in {"write", "rejected"} /\ (pc'[w] = "write" => Accepts(used[w], doc[w]))
  BY <1>1
<1>4. TypeOK'
  BY <1>1
<1>5. CommittedInv' /\ WrittenInv'
  BY <1>1, <1>2, <1>3 DEF CommittedInv, WrittenInv
<1>6. AcceptedInv'
  BY <1>1, <1>2, <1>3 DEF AcceptedInv, Accepts
<1>7. QuietInv'
  <2> SUFFICES ASSUME ~ overlapped' PROVE QuietInv'
    BY DEF QuietInv
  <2>1. Active(w)
    BY <1>1 DEF Active
  <2>2. \A a \in Admins : ~ Active(a)
    BY <1>1, <2>1 DEF QuietInv
  <2>3. \A a \in Admins : ~ Active(a)'
    BY <1>2, <2>2 DEF Active
  <2>4. used[w] = schema
    BY <1>1 DEF QuietInv
  <2>5. \A x \in Writers : pc'[x] \in {"store", "write"} => used[x] = schema
    BY <1>1, <1>2, <2>4 DEF QuietInv
  <2> QED
    BY <1>1, <2>3, <2>4, <2>5 DEF QuietInv
<1> QED
  BY <1>4, <1>5, <1>6, <1>7

\* The document is committed.
LEMMA WriteKeepsInv ==
    ASSUME SchemaInv, NEW w \in Writers, WriteRecord(w)
    PROVE  SchemaInv'
<1> USE SchemasAssumption DEF SchemaInv, TypeOK, Calls, Targets, Done
<1> DEFINE new == [doc |-> doc[w], under |-> schema, quiet |-> ~ overlapped]
<1>1. pc[w] = "write" /\ pc' = [pc EXCEPT ![w] = "written"] /\ written' = written \cup {new}
      /\ UNCHANGED <<schema, cache, change, doc, used, faults, enforced, configured, overlapped>>
  BY DEF WriteRecord, inputs
<1>2. \A c \in Calls : c # w => pc'[c] = pc[c]
  BY <1>1
<1>3. TypeOK'
  <2>1. new \in [doc : Docs, under : Targets, quiet : BOOLEAN]
    BY DEF WrittenInv
  <2>2. \A x \in Writers : pc'[x] = "store" => pc[x] = "store"
    BY <1>1, <1>2
  <2>3. pc' \in [Calls -> {"new", "commit", "read", "store", "write"} \cup Done]
    BY <1>1
  <2> HIDE DEF new
  <2>4. written' \subseteq [doc : Docs, under : Targets, quiet : BOOLEAN]
    BY <1>1, <2>1
  <2> QED
    BY <1>1, <1>2, <2>2, <2>3, <2>4
<1>4. CommittedInv' /\ AcceptedInv'
  BY <1>1, <1>2 DEF CommittedInv, AcceptedInv, Accepts
<1>5. WrittenInv'
  <2>1. new.quiet => Accepts(new.under, new.doc)
    BY <1>1 DEF QuietInv, AcceptedInv
  <2> HIDE DEF new
  <2> QED
    BY <1>1, <2>1 DEF WrittenInv, Accepts
<1>6. QuietInv'
  <2>1. \A c \in Calls : Active(c)' => Active(c)
    BY <1>1, <1>2 DEF Active
  <2> QED
    BY <1>1, <1>2, <2>1 DEF QuietInv
<1> QED
  BY <1>3, <1>4, <1>5, <1>6

\* A call fails.
LEMMA FailKeepsInv ==
    ASSUME SchemaInv, NEW c \in Calls, Fail(c)
    PROVE  SchemaInv'
<1> USE SchemasAssumption DEF SchemaInv, TypeOK, Targets, Done
<1>1. pc' = [pc EXCEPT ![c] = "failed"] /\ faults' = faults + 1 /\ faults < MaxFaults
      /\ UNCHANGED <<schema, cache, change, doc, used, written, enforced, configured, overlapped>>
  BY DEF Fail, inputs, history
<1>2. \A d \in Calls : d # c => pc'[d] = pc[d]
  BY <1>1
<1>3. pc'[c] = "failed"
  BY <1>1
<1>4. TypeOK'
  BY <1>1 DEF Calls
<1>5. CommittedInv' /\ AcceptedInv' /\ WrittenInv'
  BY <1>1, <1>2, <1>3 DEF CommittedInv, AcceptedInv, WrittenInv, Accepts, Calls
<1>6. QuietInv'
  <2>1. \A d \in Calls : Active(d)' => Active(d)
    BY <1>2, <1>3 DEF Active
  <2> QED
    BY <1>1, <1>2, <1>3, <2>1 DEF QuietInv, Calls
<1> QED
  BY <1>4, <1>5, <1>6

\* The process dies.
LEMMA CrashKeepsInv ==
    ASSUME SchemaInv, Crash
    PROVE  SchemaInv'
<1> USE SchemasAssumption DEF SchemaInv, TypeOK, Calls, Targets, Done
<1>1. pc' = [c \in Calls |-> IF Active(c) THEN "lost" ELSE pc[c]] /\ cache' = NoSchema
      /\ faults' = faults + 1 /\ faults < MaxFaults /\ overlapped' = FALSE
      /\ UNCHANGED <<schema, change, doc, used, written, enforced, configured>>
  BY DEF Crash, inputs
<1>2. \A c \in Calls : pc'[c] \in Done \cup {"new"} /\ (pc'[c] = pc[c] \/ pc'[c] = "lost")
  BY <1>1 DEF Active
<1>3. TypeOK'
  <2>1. pc' \in [Calls -> {"new", "commit", "read", "store", "write"} \cup Done]
    BY <1>1
  <2>2. \A x \in Calls : pc'[x] \in {pc[x], "lost"}
    BY <1>2
  <2>3. faults' \in 0..MaxFaults
    BY <1>1
  <2>4. \A a \in Admins : pc'[a] \in {"new", "commit", "done", "failed", "lost"}
    BY <2>2
  <2>5. \A w \in Writers : pc'[w] = "store" => used'[w] \in Schemas
    BY <1>1, <2>2
  <2>6. /\ schema' \in Targets /\ cache' \in Targets /\ change' \in [Admins -> Targets]
        /\ doc' \in [Writers -> Docs] /\ used' \in [Writers -> Targets]
        /\ written' \subseteq [doc : Docs, under : Targets, quiet : BOOLEAN]
        /\ enforced' \subseteq Targets /\ configured' \subseteq Writers
        /\ overlapped' \in BOOLEAN
    BY <1>1
  <2> QED
    BY <2>1, <2>3, <2>4, <2>5, <2>6
<1>4. CommittedInv' /\ AcceptedInv' /\ WrittenInv'
  BY <1>1, <1>2 DEF CommittedInv, AcceptedInv, WrittenInv, Accepts
<1>5. \A c \in Calls : ~ Active(c)'
  BY <1>2 DEF Active
<1>6. QuietInv'
  BY <1>1, <1>2, <1>5 DEF QuietInv
<1> QED
  BY <1>3, <1>4, <1>6

-----------------------------------------------------------------------------
(***************************************************************************)
(* The theorems.                                                           *)
(***************************************************************************)

\* The invariant holds in every state of SchemaService.
THEOREM SchemaInvariant == Spec => []SchemaInv
<1>1. SchemaInv /\ [Next]_vars => SchemaInv'
  <2> SUFFICES ASSUME SchemaInv, [Next]_vars PROVE SchemaInv'
    OBVIOUS
  <2>1. CASE UNCHANGED vars
    BY <2>1 DEF vars, inputs, history, SchemaInv, TypeOK, CommittedInv, AcceptedInv, QuietInv,
                WrittenInv, Active, Accepts
  <2> QED
    BY <2>1, InvalidateKeepsInv, CommitKeepsInv, LoadKeepsInv, ReadKeepsInv, StoreKeepsInv,
       WriteKeepsInv, FailKeepsInv, CrashKeepsInv DEF Next
<1> QED
  BY InitEstablishesInv, <1>1, PTL DEF Spec

\* A change of the schema that nothing overlaps (SchemaService.Upsert and Delete)
\* takes effect at once and completely.
THEOREM QuietChangesTakeEffect == Spec => []FreshAfterQuietChange
<1>1. SchemaInv => FreshAfterQuietChange
  BY DEF SchemaInv, QuietInv, WrittenInv, FreshAfterQuietChange
<1> QED
  BY SchemaInvariant, <1>1, PTL

\* However calls race, RecordService.Upsert judges documents only by schemas that
\* were committed.
THEOREM OnlyCommittedSchemasJudge == Spec => []JudgedByCommittedSchema
<1>1. SchemaInv => JudgedByCommittedSchema
  BY DEF SchemaInv, CommittedInv, JudgedByCommittedSchema
<1> QED
  BY SchemaInvariant, <1>1, PTL

=============================================================================
