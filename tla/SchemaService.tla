---------------------------- MODULE SchemaService ----------------------------
(***************************************************************************)
(* internal/core/usecase/schema_service.go with the repository under it    *)
(* (internal/adapters/sqlite/schema_repository.go) and the record upserts  *)
(* that consult it (RecordService.Upsert): the schema of ONE collection,   *)
(* its compiled copy in the cache of the process, the calls that change it *)
(* and the calls that validate against it. Calls run concurrently and each *)
(* access to the cache or to the database is a step of its own.            *)
(***************************************************************************)
EXTENDS Naturals

CONSTANTS
    Admins,     \* calls of SchemaService.Upsert and Delete
    Writers,    \* calls of RecordService.Upsert
    Schemas,    \* JSON schemas that compile
    Docs,       \* JSON documents
    Satisfies,  \* the pairs <<schema, document>> where the document is valid
    NoSchema,   \* no schema is configured; nothing is cached
    MaxFaults   \* bound: failed database calls and crashes in a behaviour

ASSUME SchemasAssumption ==
    /\ NoSchema \notin Schemas
    /\ Admins \cap Writers = {}
    /\ Satisfies \subseteq Schemas \X Docs
    /\ MaxFaults \in Nat

Calls == Admins \cup Writers
Targets == Schemas \cup {NoSchema}

\* Without a schema every document is valid.
Accepts(s, d) == s = NoSchema \/ <<s, d>> \in Satisfies

VARIABLES
    schema,     \* the committed schema of the collection
    cache,      \* the compiled schema in SchemaService.cache
    change,     \* what every admin call asks for; NoSchema is a delete
    doc,        \* the document of every writer call
    pc,         \* where every call is
    used,       \* the schema that every writer call validates against
    faults,     \* faults so far
    \* History, which the code does not keep:
    written,    \* the accepted documents, each with the schema it was written under
    enforced,   \* the schemas that have been in force
    configured, \* the writer calls during which some schema was in force
    overlapped  \* other calls ran during the last schema change

inputs == <<change, doc>>
history == <<written, enforced, configured, overlapped>>
vars == <<schema, cache, inputs, pc, used, faults, history>>

Done == {"done", "written", "rejected", "failed", "lost"}
Active(c) == pc[c] \notin Done \cup {"new"}

-----------------------------------------------------------------------------

Init ==
    /\ schema \in Targets
    /\ cache = NoSchema
    /\ change \in [Admins -> Targets]
    /\ doc \in [Writers -> Docs]
    /\ pc = [c \in Calls |-> "new"]
    /\ used = [w \in Writers |-> NoSchema]
    /\ faults = 0
    /\ written = {}
    /\ enforced = {schema}
    /\ configured = {}
    /\ overlapped = FALSE

\* Mutant: the cached schema is not dropped.
InvalidateNothing(a) ==
    /\ pc[a] = "new"
    /\ pc' = [pc EXCEPT ![a] = "commit"]
    /\ overlapped' = \E c \in Calls : Active(c)
    /\ UNCHANGED <<schema, cache, inputs, used, faults, written, enforced, configured>>

\* Mutant: the new schema is cached before it is committed.
CacheNewSchema(a) ==
    /\ pc[a] = "new"
    /\ pc' = [pc EXCEPT ![a] = "commit"]
    /\ cache' = change[a]
    /\ overlapped' = \E c \in Calls : Active(c)
    /\ UNCHANGED <<schema, inputs, used, faults, written, enforced, configured>>

\* Upsert (its schema compiles) and Delete drop the cached schema ...
Invalidate(a) ==
    /\ pc[a] = "new"
    /\ pc' = [pc EXCEPT ![a] = "commit"]
    /\ cache' = NoSchema
    /\ overlapped' = \E c \in Calls : Active(c)
    /\ UNCHANGED <<schema, inputs, used, faults, written, enforced, configured>>

\* ... and then the repository commits the change.
CommitChange(a) ==
    /\ pc[a] = "commit"
    /\ pc' = [pc EXCEPT ![a] = "done"]
    /\ schema' = change[a]
    /\ enforced' = enforced \cup {change[a]}
    /\ configured' = IF change[a] = NoSchema THEN configured
                     ELSE configured \cup {w \in Writers : Active(w)}
    /\ UNCHANGED <<cache, inputs, used, faults, written, overlapped>>

\* Validate, its end: runValidation, and the document goes on to the store.
Judge(w, s) == pc' = [pc EXCEPT ![w] = IF Accepts(s, doc[w]) THEN "write" ELSE "rejected"]

\* Validate looks into the cache.
LoadCache(w) ==
    /\ pc[w] = "new"
    /\ IF cache # NoSchema
       THEN Judge(w, cache) /\ used' = [used EXCEPT ![w] = cache]
       ELSE pc' = [pc EXCEPT ![w] = "read"] /\ UNCHANGED used
    /\ configured' = IF schema = NoSchema THEN configured ELSE configured \cup {w}
    /\ overlapped' = (overlapped \/ \E a \in Admins : Active(a))
    /\ UNCHANGED <<schema, cache, inputs, faults, written, enforced>>

\* It was empty: Validate reads the committed schema and compiles it.
ReadSchema(w) ==
    /\ pc[w] = "read"
    /\ used' = [used EXCEPT ![w] = schema]
    /\ pc' = [pc EXCEPT ![w] = IF schema = NoSchema THEN "write" ELSE "store"]
    /\ UNCHANGED <<schema, cache, inputs, faults, history>>

\* It stores the compiled schema in the cache and validates.
StoreCache(w) ==
    /\ pc[w] = "store"
    /\ cache' = used[w]
    /\ Judge(w, used[w])
    /\ UNCHANGED <<schema, inputs, used, faults, history>>

\* UpsertWithEvents commits the document.
WriteRecord(w) ==
    /\ pc[w] = "write"
    /\ pc' = [pc EXCEPT ![w] = "written"]
    /\ written' = written \cup {[doc |-> doc[w], under |-> schema, quiet |-> ~ overlapped]}
    /\ UNCHANGED <<schema, cache, inputs, used, faults, enforced, configured, overlapped>>

\* A call of the database returns an error and so does the call.
Fail(c) ==
    /\ faults < MaxFaults
    /\ pc[c] \in {"commit", "read", "write"}
    /\ pc' = [pc EXCEPT ![c] = "failed"]
    /\ faults' = faults + 1
    /\ UNCHANGED <<schema, cache, inputs, used, history>>

\* The process dies and is started again with an empty cache.
Crash ==
    /\ faults < MaxFaults
    /\ pc' = [c \in Calls |-> IF Active(c) THEN "lost" ELSE pc[c]]
    /\ cache' = NoSchema
    /\ overlapped' = FALSE
    /\ faults' = faults + 1
    /\ UNCHANGED <<schema, inputs, used, written, enforced, configured>>

Next ==
    \/ \E a \in Admins : Invalidate(a) \/ CommitChange(a)
    \/ \E w \in Writers : LoadCache(w) \/ ReadSchema(w) \/ StoreCache(w) \/ WriteRecord(w)
    \/ \E c \in Calls : Fail(c)
    \/ Crash

Spec == Init /\ [][Next]_vars

-----------------------------------------------------------------------------
(***************************************************************************)
(* Properties.                                                             *)
(***************************************************************************)

\* Every variable has its type, and what a call is about to cache is a schema.
TypeOK ==
    /\ schema \in Targets
    /\ cache \in Targets
    /\ change \in [Admins -> Targets]
    /\ doc \in [Writers -> Docs]
    /\ pc \in [Calls -> {"new", "commit", "read", "store", "write"} \cup Done]
    /\ \A a \in Admins : pc[a] \in {"new", "commit", "done", "failed", "lost"}
    /\ used \in [Writers -> Targets]
    /\ \A w \in Writers : pc[w] = "store" => used[w] \in Schemas
    /\ faults \in 0..MaxFaults
    /\ written \subseteq [doc : Docs, under : Targets, quiet : BOOLEAN]
    /\ enforced \subseteq Targets
    /\ configured \subseteq Writers
    /\ overlapped \in BOOLEAN

\* A change of the schema that no other call overlaps takes effect at once and
\* completely, whatever stale copy an earlier race had left in the cache, and
\* whether or not it commits: from then on, until the next race, the cache is
\* empty or current and only documents that the current schema accepts are
\* written. A restart does the same.
FreshAfterQuietChange ==
    /\ ~ overlapped => cache \in {NoSchema, schema}
    /\ \A x \in written : x.quiet => Accepts(x.under, x.doc)

\* However calls race, a document is only ever judged by a schema that was in
\* force at some time: one whose commit failed is never enforced.
JudgedByCommittedSchema ==
    /\ cache \in enforced \cup {NoSchema}
    /\ \A w \in Writers :
         pc[w] \in {"write", "written", "rejected"} => used[w] \in enforced

\* "If no schema is configured the data passes validation."
\* (internal/core/usecase/schema_service.go:70-71). A document is rejected only
\* if a schema was configured at some time during the call.
NoSchemaConfiguredPasses ==
    \A w \in Writers : pc[w] = "rejected" => w \in configured

=============================================================================
