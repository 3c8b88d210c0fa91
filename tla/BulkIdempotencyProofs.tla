------------------------ MODULE BulkIdempotencyProofs ------------------------
(***************************************************************************)
(* Proofs about BulkIdempotency, for any number of calls, endpoints, lists *)
(* and faults: what an Idempotency-Key gives its callers.                  *)
(***************************************************************************)
EXTENDS BulkIdempotency, FiniteSetTheorems, TLAPS

Positions == Nat \ {0}

Types ==
    /\ scope \in [Calls -> Scopes]
    /\ items \in [Calls -> Lists]
    /\ stored \in [Scopes -> Calls \cup {NoCall}]
    /\ storable \in BOOLEAN
    /\ pc \in [Calls -> {"new", "items", "respond", "ok", "error", "lost"}]
    /\ next \in [Calls -> Positions]
    /\ answer \in [Calls -> Calls \cup {NoCall}]
    /\ log \in Seq(Calls \X Positions)
    /\ faults \in Nat
    /\ overlapped \subseteq Scopes

Done(d) == next[d] = Len(items[d]) + 1

\* The log has the items of a call before its next one, in their order.
LogInv ==
    /\ \A c \in Calls : next[c] <= Len(items[c]) + 1
    /\ \A n \in DOMAIN log : log[n][2] < next[log[n][1]]
    /\ \A c \in Calls : \A i \in 1..(next[c] - 1) :
          \E n \in DOMAIN log : log[n][1] = c /\ log[n][2] = i
    /\ \A m, n \in DOMAIN log : (log[m][1] = log[n][1] /\ m < n) => log[m][2] < log[n][2]

\* Only calls that are done have a response, and it stays in their scope.
ResponseInv ==
    /\ \A s \in Scopes :
          stored[s] # NoCall => Done(stored[s]) /\ scope[stored[s]] = s
    /\ \A c \in Calls : pc[c] = "respond" => Done(c)
    /\ \A c \in Answered :
          answer[c] \in Calls /\ Done(answer[c]) /\ scope[answer[c]] = scope[c]

Quiet(s) == storable /\ faults = 0 /\ s \notin overlapped

\* In a quiet scope one call at a time is at work; before a response is stored
\* nobody else has committed anything, and afterwards nobody starts.
QuietInv ==
    \A s \in Scopes : Quiet(s) =>
        /\ \A c, d \in InScope(s) :
              (pc[c] \in {"items", "respond"} /\ pc[d] \in {"items", "respond"}) => c = d
        /\ \A c \in InScope(s) : pc[c] \notin {"error", "lost"}
        /\ stored[s] = NoCall => \A c \in Applying \cap InScope(s) : pc[c] = "items"
        /\ stored[s] # NoCall =>
              /\ \A c \in Applying \cap InScope(s) : c = stored[s]
              /\ \A c \in InScope(s) : pc[c] # "items"

BulkInv == Types /\ LogInv /\ ResponseInv /\ QuietInv

LEMMA InitEstablishesInv == Init => BulkInv
<1> SUFFICES ASSUME Init PROVE BulkInv
  OBVIOUS
<1>1. Types
  BY DEF Init, Types, Positions
<1>2. LogInv
  BY <1>1, BulkAssumption DEF Init, LogInv, Types
<1>3. ResponseInv
  BY DEF Init, ResponseInv, Answered
<1>4. Applying = {}
  BY DEF Init, Applying
<1>5. QuietInv
  BY <1>4 DEF Init, QuietInv, InScope
<1> QED
  BY <1>1, <1>2, <1>3, <1>5 DEF BulkInv

\* The actions of a call, apart from the item it commits, leave the log alone.
LEMMA OthersKeepLog ==
    ASSUME BulkInv, NEW c \in Calls,
           Arrive(c) \/ FailItem(c) \/ StoreResponse(c) \/ Respond(c) \/ Lose(c)
    PROVE  UNCHANGED <<request, storable, next, log>> /\ Applying' = Applying /\ LogInv'
<1>1. UNCHANGED <<request, storable, next, log>>
  BY DEF Arrive, FailItem, StoreResponse, Respond, Lose
<1>2. UNCHANGED <<scope, items, next, log>>
  BY <1>1 DEF request
<1>3. Applying' = Applying
  BY <1>2 DEF Applying
<1>4. LogInv'
  BY <1>2 DEF BulkInv, LogInv
<1> QED
  BY <1>1, <1>3, <1>4

\* Every action keeps the types.
LEMMA NextKeepsTypes ==
    ASSUME Types, NEW c \in Calls,
           Arrive(c) \/ ApplyItem(c) \/ FailItem(c) \/ StoreResponse(c) \/ Respond(c) \/ Lose(c)
    PROVE  Types'
<1> USE DEF Types, request, KeyOf
<1>1. scope[c] \in Scopes /\ next[c] \in Positions /\ faults \in Nat /\ faults + 1 \in Nat
  OBVIOUS
<1>2. CASE Arrive(c)
  <2>1. stored[scope[c]] \in Calls \cup {NoCall}
    BY <1>1
  <2>2. faults' \in Nat
    BY <1>2, <1>1 DEF Arrive
  <2>3. overlapped' \subseteq Scopes
    BY <1>2, <1>1 DEF Arrive
  <2>4. pc' \in [Calls -> {"new", "items", "respond", "ok", "error", "lost"}]
    BY <1>2 DEF Arrive
  <2>5. answer' \in [Calls -> Calls \cup {NoCall}]
    BY <1>2, <2>1 DEF Arrive
  <2> QED
    BY <1>2, <2>2, <2>3, <2>4, <2>5 DEF Arrive
<1>3. CASE ApplyItem(c)
  <2>1. log' \in Seq(Calls \X Positions)
    BY <1>3, <1>1 DEF ApplyItem
  <2>2. next' \in [Calls -> Positions]
    BY <1>3, <1>1 DEF ApplyItem, Positions
  <2> QED
    BY <1>3, <2>1, <2>2 DEF ApplyItem
<1>4. CASE FailItem(c)
  BY <1>4, <1>1 DEF FailItem
<1>5. CASE StoreResponse(c)
  <2>1. stored' \in [Scopes -> Calls \cup {NoCall}] /\ faults' \in Nat
    BY <1>5, <1>1 DEF StoreResponse
  <2> QED
    BY <1>5, <2>1 DEF StoreResponse
<1>6. CASE Respond(c)
  BY <1>6 DEF Respond
<1>7. CASE Lose(c)
  BY <1>7, <1>1 DEF Lose
<1> QED
  BY <1>2, <1>3, <1>4, <1>5, <1>6, <1>7

\* A committed item is the next one of its call and comes last in the log.
LEMMA ApplyItemKeepsLog ==
    ASSUME BulkInv, NEW c \in Calls, ApplyItem(c)
    PROVE  LogInv' /\ Applying' = Applying \cup {c}
<1> DEFINE k == Len(log) + 1
<1>1. /\ log \in Seq(Calls \X Positions) /\ next \in [Calls -> Positions]
      /\ items \in [Calls -> Lists]
  BY DEF BulkInv, Types
<1>2. /\ DOMAIN log = 1..Len(log) /\ Len(log) \in Nat
      /\ \A n \in DOMAIN log : log[n] \in Calls \X Positions
  BY <1>1
<1>3. log' = Append(log, <<c, next[c]>>) /\ next' = [next EXCEPT ![c] = @ + 1] /\ items' = items
  BY DEF ApplyItem, request
<1>4. /\ DOMAIN log' = DOMAIN log \cup {k} /\ k \notin DOMAIN log
      /\ \A n \in DOMAIN log : log'[n] = log[n] /\ n < k
      /\ log'[k] = <<c, next[c]>>
  BY <1>1, <1>2, <1>3
<1> HIDE DEF k
<1>5. next[c] \in Nat /\ next'[c] = next[c] + 1 /\ \A d \in Calls : d # c => next'[d] = next[d]
  BY <1>1, <1>3 DEF Positions
<1>6. Len(items[c]) \in Nat /\ next[c] <= Len(items[c])
  BY <1>1, BulkAssumption DEF ApplyItem
<1>7. \A n \in DOMAIN log : log[n][1] \in Calls /\ log[n][2] \in Nat
  BY <1>2 DEF Positions
<1>8. \A d \in Calls : next'[d] <= Len(items'[d]) + 1
  BY <1>3, <1>5, <1>6 DEF BulkInv, LogInv
<1>9. \A n \in DOMAIN log : log[n][2] < next[log[n][1]]
  BY DEF BulkInv, LogInv
<1>10. \A n \in DOMAIN log' : log'[n][2] < next'[log'[n][1]]
  <2> SUFFICES ASSUME NEW n \in DOMAIN log' PROVE log'[n][2] < next'[log'[n][1]]
    OBVIOUS
  <2>1. CASE n = k
    BY <2>1, <1>4, <1>5
  <2>2. CASE n \in DOMAIN log /\ log[n][1] = c
    BY <2>2, <1>4, <1>5, <1>7, <1>9
  <2>3. CASE n \in DOMAIN log /\ log[n][1] # c
    BY <2>3, <1>4, <1>5, <1>7, <1>9
  <2> QED
    BY <2>1, <2>2, <2>3, <1>4
<1>11. \A d \in Calls : \A i \in 1..(next'[d] - 1) :
          \E n \in DOMAIN log' : log'[n][1] = d /\ log'[n][2] = i
  <2> SUFFICES ASSUME NEW d \in Calls, NEW i \in 1..(next'[d] - 1)
               PROVE  \E n \in DOMAIN log' : log'[n][1] = d /\ log'[n][2] = i
    OBVIOUS
  <2>1. CASE d = c /\ i = next[c]
    BY <2>1, <1>4
  <2>2. CASE ~ (d = c /\ i = next[c])
    <3>1. next[d] \in Nat
      BY <1>1 DEF Positions
    <3>2. i \in 1..(next[d] - 1)
      BY <2>2, <3>1, <1>5
    <3>3. PICK n \in DOMAIN log : log[n][1] = d /\ log[n][2] = i
      BY <3>2 DEF BulkInv, LogInv
    <3> QED
      BY <3>3, <1>4
  <2> QED
    BY <2>1, <2>2
<1>12. \A m, n \in DOMAIN log' :
          (log'[m][1] = log'[n][1] /\ m < n) => log'[m][2] < log'[n][2]
  <2> SUFFICES ASSUME NEW m \in DOMAIN log', NEW n \in DOMAIN log',
                      log'[m][1] = log'[n][1], m < n
               PROVE  log'[m][2] < log'[n][2]
    OBVIOUS
  <2>1. m \in Nat /\ n \in Nat /\ k \in Nat
    BY <1>2, <1>4 DEF k
  <2>2. m \in DOMAIN log
    BY <2>1, <1>4
  <2>3. CASE n = k
    BY <2>2, <2>3, <1>4, <1>9
  <2>4. CASE n \in DOMAIN log
    BY <2>2, <2>4, <1>4 DEF BulkInv, LogInv
  <2> QED
    BY <2>3, <2>4, <1>4
<1>13. Applying' = Applying \cup {c}
  BY <1>4 DEF Applying
<1> QED
  BY <1>8, <1>10, <1>11, <1>12, <1>13 DEF LogInv

\* Responses stay those of calls that are done.
LEMMA NextKeepsResponses ==
    ASSUME BulkInv, NEW c \in Calls,
           Arrive(c) \/ ApplyItem(c) \/ FailItem(c) \/ StoreResponse(c) \/ Respond(c) \/ Lose(c)
    PROVE  ResponseInv'
<1> USE DEF BulkInv, KeyOf
<1>1. /\ UNCHANGED <<scope, items>> /\ Types /\ ResponseInv
      /\ scope[c] \in Scopes /\ next[c] \in Nat /\ Len(items[c]) \in Nat
  BY BulkAssumption DEF Types, Positions, request, Arrive, ApplyItem, FailItem, StoreResponse, Respond, Lose
<1>2. \A d \in Calls : Done(d) => (d # c \/ pc[c] # "items" \/ ~ next[c] <= Len(items[c]))
  BY <1>1 DEF Done
<1>3. \A d \in Calls : Done(d) => Done(d)'
  BY <1>1, <1>2 DEF Done, Types, Arrive, ApplyItem, FailItem, StoreResponse, Respond, Lose
<1>4. \A s \in Scopes : stored[s] \in Calls \cup {NoCall}
  BY <1>1 DEF Types
<1>5. CASE Arrive(c)
  <2>1. UNCHANGED stored /\ \A d \in Calls : pc'[d] = "respond" => pc[d] = "respond"
    BY <1>1, <1>5 DEF Arrive, Types
  <2>2. \A d \in Calls : pc'[d] = "ok" =>
          \/ pc[d] = "ok" /\ answer'[d] = answer[d]
          \/ d = c /\ stored[scope[c]] # NoCall /\ answer'[c] = stored[scope[c]]
    BY <1>1, <1>5 DEF Arrive, Types
  <2> QED
    BY <1>1, <1>3, <1>4, <2>1, <2>2 DEF ResponseInv, Answered
<1>6. CASE ApplyItem(c)
  <2>1. UNCHANGED <<stored, pc, answer>>
    BY <1>6 DEF ApplyItem
  <2> QED
    BY <1>1, <1>3, <1>4, <2>1 DEF ResponseInv, Answered
<1>7. CASE FailItem(c) \/ Lose(c)
  <2>1. /\ UNCHANGED <<stored, answer>>
        /\ \A d \in Calls : pc'[d] \in {"respond", "ok"} => pc'[d] = pc[d]
    BY <1>1, <1>7 DEF FailItem, Lose, Types
  <2> QED
    BY <1>1, <1>3, <1>4, <2>1 DEF ResponseInv, Answered
<1>8. CASE StoreResponse(c)
  <2>1. Done(c)
    BY <1>1, <1>8 DEF StoreResponse, Done, LogInv
  <2>2. \A s \in Scopes : stored'[s] = stored[s] \/ (s = scope[c] /\ stored'[s] = c)
    BY <1>1, <1>8 DEF StoreResponse, Types
  <2>3. /\ UNCHANGED answer
        /\ \A d \in Calls : pc'[d] = pc[d] \/ (d = c /\ pc'[d] = "respond")
    BY <1>1, <1>8 DEF StoreResponse, Types
  <2> QED
    BY <1>1, <1>3, <1>4, <2>1, <2>2, <2>3 DEF ResponseInv, Answered
<1>9. CASE Respond(c)
  <2>1. Done(c) /\ UNCHANGED stored
    BY <1>1, <1>9 DEF Respond, ResponseInv
  <2>2. \A d \in Calls : pc'[d] = "respond" => pc[d] = "respond"
    BY <1>1, <1>9 DEF Respond, Types
  <2>3. \A d \in Calls : pc'[d] = "ok" =>
          (pc[d] = "ok" /\ answer'[d] = answer[d]) \/ (d = c /\ answer'[d] = c)
    BY <1>1, <1>9 DEF Respond, Types
  <2> QED
    BY <1>1, <1>3, <1>4, <2>1, <2>2, <2>3 DEF ResponseInv, Answered
<1> QED
  BY <1>5, <1>6, <1>7, <1>8, <1>9

\* A quiet scope was quiet before.
LEMMA QuietBefore ==
    ASSUME BulkInv, NEW c \in Calls, NEW s \in Scopes, Quiet(s)',
           Arrive(c) \/ ApplyItem(c) \/ FailItem(c) \/ StoreResponse(c) \/ Respond(c) \/ Lose(c)
    PROVE  Quiet(s) /\ faults' = faults /\ ~ FailItem(c) /\ ~ Lose(c)
<1>1. faults \in Nat /\ faults' = 0 /\ storable' = storable
  BY DEF BulkInv, Types, Quiet, Arrive, ApplyItem, FailItem, StoreResponse, Respond, Lose
<1>2. faults' \in {faults, faults + 1} /\ overlapped \subseteq overlapped'
  BY DEF Arrive, ApplyItem, FailItem, StoreResponse, Respond, Lose
<1>3. faults = 0
  BY <1>1, <1>2
<1>4. ~ FailItem(c) /\ ~ Lose(c)
  BY <1>1, <1>3 DEF FailItem, Lose
<1> QED
  BY <1>1, <1>2, <1>3, <1>4 DEF Quiet

\* One call at a time works in a quiet scope, whoever takes the step.
LEMMA NextKeepsQuiet ==
    ASSUME BulkInv, NEW c \in Calls,
           Arrive(c) \/ ApplyItem(c) \/ FailItem(c) \/ StoreResponse(c) \/ Respond(c) \/ Lose(c)
    PROVE  QuietInv'
<1>0. \A s : InScope(s)' = InScope(s)
  BY DEF InScope, request, Arrive, ApplyItem, FailItem, StoreResponse, Respond, Lose
<1> DEFINE Working(d) == pc[d] \in {"items", "respond"}
<1> SUFFICES ASSUME NEW s \in Scopes, Quiet(s)'
             PROVE  /\ \A d, e \in InScope(s) : (Working(d)' /\ Working(e)') => d = e
                    /\ \A d \in InScope(s) : pc'[d] \notin {"error", "lost"}
                    /\ stored'[s] = NoCall => \A d \in Applying' \cap InScope(s) : pc'[d] = "items"
                    /\ stored'[s] # NoCall =>
                          /\ \A d \in Applying' \cap InScope(s) : d = stored'[s]
                          /\ \A d \in InScope(s) : pc'[d] # "items"
  BY <1>0 DEF QuietInv
<1>1. Quiet(s) /\ faults' = faults /\ ~ FailItem(c) /\ ~ Lose(c)
  BY QuietBefore
<1>2. /\ \A d, e \in InScope(s) : (Working(d) /\ Working(e)) => d = e
      /\ \A d \in InScope(s) : pc[d] \notin {"error", "lost"}
      /\ stored[s] = NoCall => \A d \in Applying \cap InScope(s) : pc[d] = "items"
      /\ stored[s] # NoCall =>
            /\ \A d \in Applying \cap InScope(s) : d = stored[s]
            /\ \A d \in InScope(s) : pc[d] # "items"
  BY <1>1 DEF BulkInv, QuietInv
<1>3. /\ Types /\ InScope(s) \subseteq Calls /\ NoCall \notin Calls
      /\ faults \in Nat /\ scope[c] \in Scopes
  BY BulkAssumption DEF BulkInv, Types, InScope
<1>4. c \in InScope(s) <=> scope[c] = s
  BY DEF InScope
<1>5. CASE Arrive(c)
  <2>1. Applying' = Applying /\ UNCHANGED stored
    BY <1>5, OthersKeepLog DEF Arrive
  <2>2. \A d \in Calls : d # c => pc'[d] = pc[d]
    BY <1>3, <1>5 DEF Arrive, Types
  <2>3. CASE c \notin InScope(s)
    BY <1>2, <1>3, <2>1, <2>2, <2>3
  <2>4. CASE c \in InScope(s) /\ stored[s] # NoCall
    <3>1. pc'[c] = "ok"
      BY <1>1, <1>3, <1>4, <1>5, <2>4 DEF Arrive, KeyOf, Types
    <3> QED
      BY <1>2, <1>3, <2>1, <2>2, <2>4, <3>1
  <2>5. CASE c \in InScope(s) /\ stored[s] = NoCall
    <3>1. pc[c] = "new" /\ pc'[c] = "items"
      BY <1>3, <1>4, <1>5, <2>5 DEF Arrive, KeyOf, Types
    <3>2. \A d \in InScope(s) : ~ Working(d)
      BY <1>4, <1>5, <2>5 DEF Arrive, Quiet
    <3> QED
      BY <1>2, <1>3, <2>1, <2>2, <2>5, <3>1, <3>2
  <2> QED
    BY <2>3, <2>4, <2>5
<1>6. CASE ApplyItem(c)
  <2>1. Applying' = Applying \cup {c} /\ UNCHANGED <<stored, pc>> /\ pc[c] = "items"
    BY <1>6, ApplyItemKeepsLog DEF ApplyItem
  <2> QED
    BY <1>2, <2>1
<1>7. CASE StoreResponse(c)
  <2>1. Applying' = Applying /\ pc[c] = "items" /\ pc'[c] = "respond"
    BY <1>3, <1>7, OthersKeepLog DEF StoreResponse, Types
  <2>2. \A d \in Calls : d # c => pc'[d] = pc[d]
    BY <1>3, <1>7 DEF StoreResponse, Types
  <2>3. stored' = [stored EXCEPT ![scope[c]] = c]
    BY <1>1, <1>3, <1>7 DEF StoreResponse, KeyOf, Quiet
  <2>4. CASE c \in InScope(s)
    <3>1. stored'[s] = c /\ stored[s] = NoCall
      BY <1>2, <1>3, <1>4, <2>1, <2>3, <2>4 DEF Types
    <3>2. \A d \in InScope(s) : Working(d) => d = c
      BY <1>2, <2>1, <2>4
    <3>3. \A d \in InScope(s) : d # c => ~ Working(d)'
      BY <1>3, <2>2, <3>2
    <3> QED
      BY <1>2, <1>3, <2>1, <2>2, <2>4, <3>1, <3>2, <3>3
  <2>5. CASE c \notin InScope(s)
    <3>1. stored'[s] = stored[s]
      BY <1>3, <1>4, <2>3, <2>5 DEF Types
    <3> QED
      BY <1>2, <1>3, <2>1, <2>2, <2>5, <3>1
  <2> QED
    BY <2>4, <2>5
<1>8. CASE Respond(c)
  <2>1. Applying' = Applying /\ UNCHANGED stored /\ pc[c] = "respond" /\ pc'[c] = "ok"
    BY <1>3, <1>8, OthersKeepLog DEF Respond, Types
  <2>2. \A d \in Calls : d # c => pc'[d] = pc[d]
    BY <1>3, <1>8 DEF Respond, Types
  <2> QED
    BY <1>2, <1>3, <2>1, <2>2
<1> QED
  BY <1>1, <1>5, <1>6, <1>7, <1>8

LEMMA NextKeepsInv == BulkInv /\ [Next]_vars => BulkInv'
<1> SUFFICES ASSUME BulkInv, [Next]_vars PROVE BulkInv'
  OBVIOUS
<1>1. CASE Next
  <2>1. PICK c \in Calls :
          Arrive(c) \/ ApplyItem(c) \/ FailItem(c) \/ StoreResponse(c) \/ Respond(c) \/ Lose(c)
    BY <1>1 DEF Next
  <2>2. Types' /\ ResponseInv' /\ QuietInv'
    BY <2>1, NextKeepsTypes, NextKeepsResponses, NextKeepsQuiet DEF BulkInv
  <2>3. LogInv'
    BY <2>1, OthersKeepLog, ApplyItemKeepsLog
  <2> QED
    BY <2>2, <2>3 DEF BulkInv
<1>2. CASE UNCHANGED vars
  BY <1>2 DEF vars, request, BulkInv, Types, LogInv, ResponseInv, QuietInv,
     Quiet, Done, Answered, Applying, InScope
<1> QED
  BY <1>1, <1>2

-----------------------------------------------------------------------------
(***************************************************************************)
(* The theorems.                                                           *)
(***************************************************************************)

\* The responses, the log and the scopes of the calls fit together in every
\* state of bulkUpsertRecords and bulkDeleteRecords.
THEOREM BulkInvariant == Spec => []BulkInv
BY InitEstablishesInv, NextKeepsInv, PTL DEF Spec

\* A call that is done has committed the whole of its list, in order.
LEMMA DoneHasApplied ==
    ASSUME BulkInv, NEW d \in Calls, Done(d)
    PROVE  AppliedInOrder(d, items[d])
<1>1. Len(items[d]) \in Nat /\ DOMAIN items[d] = 1..Len(items[d])
  BY BulkAssumption DEF BulkInv, Types
<1>2. \A i \in DOMAIN items[d] : \E n \in DOMAIN log : log[n][1] = d /\ log[n][2] = i
  BY <1>1 DEF BulkInv, LogInv, Done
<1>3. \A m, n \in DOMAIN log : (log[m][1] = d /\ log[n][1] = d /\ m < n) => log[m][2] < log[n][2]
  BY DEF BulkInv, LogInv
<1> QED
  BY <1>2, <1>3 DEF AppliedInOrder

\* A 200 answer, fresh or cached, always stands for a list that was committed.
THEOREM AnswersStandForWork == Spec => []OkMeansAllApplied
<1>1. BulkInv => OkMeansAllApplied
  BY DoneHasApplied DEF OkMeansAllApplied, BulkInv, ResponseInv
<1> QED
  BY <1>1, BulkInvariant, PTL

\* It stands for the caller's own list, tenant and operation unless another list
\* was sent with the key to the same endpoint.
THEOREM KeysKeepCallersApart == Spec => []OwnListUnlessReused
<1>1. BulkInv => OwnListUnlessReused
  <2> SUFFICES ASSUME BulkInv, NEW c \in Answered,
                      \A d \in InScope(scope[c]) : items[d] = items[c]
               PROVE  scope[answer[c]] = scope[c] /\ AppliedInOrder(answer[c], items[c])
    BY DEF OwnListUnlessReused
  <2>1. answer[c] \in Calls /\ Done(answer[c]) /\ scope[answer[c]] = scope[c]
    BY DEF BulkInv, ResponseInv
  <2>2. items[answer[c]] = items[c]
    BY <2>1 DEF InScope
  <2>3. AppliedInOrder(answer[c], items[answer[c]])
    BY <2>1, DoneHasApplied
  <2> QED
    BY <2>1, <2>2, <2>3
<1> QED
  BY <1>1, BulkInvariant, PTL

\* Without faults and overlaps the calls of a scope apply one list between them.
THEOREM QuietCallsApplyOnce == Spec => []AppliedOnceWhenQuiet
<1>1. BulkInv => AppliedOnceWhenQuiet
  <2> SUFFICES ASSUME BulkInv, NEW s \in Scopes, Quiet(s)
               PROVE  Cardinality(Applying \cap InScope(s)) <= 1
    BY DEF AppliedOnceWhenQuiet, Quiet
  <2> DEFINE A == Applying \cap InScope(s)
  <2>1. \A c, d \in A : c = d
    BY DEF BulkInv, QuietInv
  <2>2. CASE A = {}
    BY <2>2, FS_EmptySet
  <2>3. CASE A # {}
    <3>1. PICK c \in A : TRUE
      BY <2>3
    <3>2. A = {c}
      BY <2>1, <3>1
    <3>3. Cardinality({c}) = 1
      BY FS_Singleton
    <3> QED
      BY <3>2, <3>3
  <2> QED
    BY <2>2, <2>3
<1> QED
  BY <1>1, BulkInvariant, PTL

=============================================================================
