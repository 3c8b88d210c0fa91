--------------------------- MODULE BulkIdempotency ---------------------------
(***************************************************************************)
(* The bulk endpoints of internal/adapters/httpapi/handler.go              *)
(* (bulkUpsertRecords, bulkDeleteRecords) over RecordService.BulkUpsert    *)
(* and BulkDelete: calls that clients send, one after the other or at the  *)
(* same time, with ONE Idempotency-Key. The items of a call are mutated    *)
(* one by one, each in a transaction of its own, and the response is       *)
(* stored under the key afterwards, in another transaction. The stored key *)
(* holds the tenant, the collection and the operation of the call, here    *)
(* its scope, but nothing of its list: calls of one scope may carry the    *)
(* key with different lists.                                               *)
(*                                                                         *)
(* A response is named by the call that computed it.                       *)
(***************************************************************************)
EXTENDS Naturals, Sequences, FiniteSets

CONSTANTS
    Calls,      \* requests with the key
    Scopes,     \* tenants, collections and operations (upsert or delete)
    Lists,      \* the lists of items a client may send
    NoCall,     \* nothing is stored under the key
    MaxFaults   \* bound: failed database calls, lost clients and crashes

ASSUME BulkAssumption ==
    /\ NoCall \notin Calls
    /\ \A l \in Lists : Len(l) \in Nat /\ DOMAIN l = 1..Len(l)
    /\ MaxFaults \in Nat

VARIABLES
    scope,      \* the scope of every call
    items,      \* the list of every call
    stored,     \* the response stored under the key of every scope
    storable,   \* the key is one that the KV service accepts
    pc,         \* where every call is
    next,       \* the next item of every call
    answer,     \* the response every call was answered with
    log,        \* the mutations that were committed: <<call, position>>
    faults,     \* faults so far
    \* History, which the code does not keep:
    overlapped  \* the scopes in which a call arrived during another one

request == <<scope, items>>
vars == <<request, stored, storable, pc, next, answer, log, faults, overlapped>>

\* The calls that have committed an item.
Applying == {log[n][1] : n \in DOMAIN log}

InScope(s) == {c \in Calls : scope[c] = s}

Answered == {c \in Calls : pc[c] = "ok"}

\* Mutant: the operation is not part of the key.
KeyOfAnyScope(c) == CHOOSE s \in Scopes : TRUE

\* What the key in the table tells apart.
KeyOf(c) == scope[c]

-----------------------------------------------------------------------------

Init ==
    /\ scope \in [Calls -> Scopes]
    /\ items \in [Calls -> Lists]
    /\ stored = [s \in Scopes |-> NoCall]
    /\ storable \in BOOLEAN
    /\ pc = [c \in Calls |-> "new"]
    /\ next = [c \in Calls |-> 1]
    /\ answer = [c \in Calls |-> NoCall]
    /\ log = <<>>
    /\ faults = 0
    /\ overlapped = {}

\* A request arrives: readIdempotentResponse answers it from the store or, when
\* nothing is found or the read fails, lets it go on. A key that the KV service
\* rejects is never found.
Arrive(c) ==
    /\ pc[c] = "new"
    /\ \/ /\ stored[KeyOf(c)] # NoCall
          /\ pc' = [pc EXCEPT ![c] = "ok"]
          /\ answer' = [answer EXCEPT ![c] = stored[KeyOf(c)]]
          /\ UNCHANGED faults
       \/ /\ \/ stored[KeyOf(c)] = NoCall /\ UNCHANGED faults
             \/ stored[KeyOf(c)] # NoCall /\ faults < MaxFaults /\ faults' = faults + 1
          /\ pc' = [pc EXCEPT ![c] = "items"]
          /\ UNCHANGED answer
    /\ overlapped' = overlapped \cup
          {s \in {scope[c]} : \E d \in InScope(s) : pc[d] \in {"items", "respond"}}
    /\ UNCHANGED <<request, stored, storable, next, log>>

\* BulkUpsert and BulkDelete commit the next item ...
ApplyItem(c) ==
    /\ pc[c] = "items"
    /\ next[c] <= Len(items[c])
    /\ log' = Append(log, <<c, next[c]>>)
    /\ next' = [next EXCEPT ![c] = @ + 1]
    /\ UNCHANGED <<request, stored, storable, pc, answer, faults, overlapped>>

\* Mutant: the loop goes on with the next item after an error.
SkipItem(c) ==
    /\ faults < MaxFaults
    /\ pc[c] = "items"
    /\ next[c] <= Len(items[c])
    /\ next' = [next EXCEPT ![c] = @ + 1]
    /\ faults' = faults + 1
    /\ UNCHANGED <<request, stored, storable, pc, answer, log, overlapped>>

\* ... or fail at it: the items before it stay, the rest is not tried and the
\* response is an error.
FailItem(c) ==
    /\ faults < MaxFaults
    /\ pc[c] = "items"
    /\ next[c] <= Len(items[c])
    /\ pc' = [pc EXCEPT ![c] = "error"]
    /\ faults' = faults + 1
    /\ UNCHANGED <<request, stored, storable, next, answer, log, overlapped>>

\* Mutant: the response is not stored.
StoreNothing(c) ==
    /\ pc[c] = "items"
    /\ next[c] > Len(items[c])
    /\ pc' = [pc EXCEPT ![c] = "respond"]
    /\ UNCHANGED <<request, stored, storable, next, answer, log, faults, overlapped>>

\* All items are done: writeIdempotentResponse stores the response. Its errors
\* are ignored: a key that is not accepted, a failed write, a cancelled context.
StoreResponse(c) ==
    /\ pc[c] = "items"
    /\ next[c] > Len(items[c])
    /\ pc' = [pc EXCEPT ![c] = "respond"]
    /\ \/ storable /\ stored' = [stored EXCEPT ![KeyOf(c)] = c] /\ UNCHANGED faults
       \/ ~ storable /\ UNCHANGED <<stored, faults>>
       \/ storable /\ faults < MaxFaults /\ faults' = faults + 1 /\ UNCHANGED stored
    /\ UNCHANGED <<request, storable, next, answer, log, overlapped>>

\* The response reaches the client.
Respond(c) ==
    /\ pc[c] = "respond"
    /\ pc' = [pc EXCEPT ![c] = "ok"]
    /\ answer' = [answer EXCEPT ![c] = c]
    /\ UNCHANGED <<request, stored, storable, next, log, faults, overlapped>>

\* The client gives up or the process dies: nobody hears of the call.
Lose(c) ==
    /\ faults < MaxFaults
    /\ pc[c] \in {"items", "respond"}
    /\ pc' = [pc EXCEPT ![c] = "lost"]
    /\ faults' = faults + 1
    /\ UNCHANGED <<request, stored, storable, next, answer, log, overlapped>>

Next ==
    \E c \in Calls :
        Arrive(c) \/ ApplyItem(c) \/ FailItem(c) \/ StoreResponse(c) \/ Respond(c) \/ Lose(c)

Spec == Init /\ [][Next]_vars

-----------------------------------------------------------------------------
(***************************************************************************)
(* Properties.                                                             *)
(***************************************************************************)

\* The mutations of call d are those of the list l, all of them, once and in
\* the order of the list.
AppliedInOrder(d, l) ==
    LET own == {n \in DOMAIN log : log[n][1] = d}
    IN /\ \A i \in DOMAIN l : \E n \in own : items[d][log[n][2]] = l[i]
       /\ \A m, n \in own : m < n => log[m][2] < log[n][2]

\* A 200 answer, fresh or cached, was computed by a call that committed every
\* item of its list, once and in order: a bulk call that failed half-way, or
\* whose client left, never becomes the stored answer of its retries.
OkMeansAllApplied ==
    \A c \in Answered : AppliedInOrder(answer[c], items[answer[c]])

\* The caller of a 200 answer has had ITS list applied, to its own tenant and
\* by its own operation, as long as nobody sent another list with the key to
\* the same endpoint. Other tenants and the other endpoint may use the key as
\* they like.
OwnListUnlessReused ==
    \A c \in Answered :
        (\A d \in InScope(scope[c]) : items[d] = items[c])
            => /\ scope[answer[c]] = scope[c]
               /\ AppliedInOrder(answer[c], items[c])

\* With a key the KV service accepts and without a fault, the calls of a scope
\* that do not overlap commit the items of one list between them.
AppliedOnceWhenQuiet ==
    \A s \in Scopes :
        (storable /\ faults = 0 /\ s \notin overlapped)
            => Cardinality(Applying \cap InScope(s)) <= 1

=============================================================================
