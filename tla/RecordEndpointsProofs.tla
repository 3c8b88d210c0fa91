----------------------- MODULE RecordEndpointsProofs -----------------------
(***************************************************************************)
(* Proofs about the record endpoints. RecordEndpoints, for any calls,      *)
(* records and faults: the trail is out of the order of its times only for *)
(* calls that overlap, rows have the times of their events, and answers    *)
(* are true of the trail. RecordListing, for any number of keys, any query *)
(* and limit, and any number of changes between the pages: a client that   *)
(* pages through a listing misses nothing that stays and is given nothing  *)
(* twice.                                                                  *)
(***************************************************************************)
EXTENDS RecordEndpoints, RecordListing, SequenceTheorems, FiniteSetTheorems,
        NaturalsInduction, TLAPS

-----------------------------------------------------------------------------
(***************************************************************************)
(* The inductive invariant.                                                *)
(***************************************************************************)

Moments == [created : Nat, updated : Nat]

RequestTypes ==
    /\ value \in [Records -> Images]
    /\ version \in [Records -> Nat]
    /\ trail \in Seq(Events)
    /\ times \in [Records -> Moments]
    /\ occurred \in Seq(Nat) /\ Len(occurred) = Len(trail)
    /\ by \in Seq(Calls) /\ Len(by) = Len(trail)
    /\ clock \in Nat
    /\ pc \in [Calls -> {"new", "items", "ok", "error", "lost"}]
    /\ body \in [Calls -> Seq(Item)]
    /\ stamp \in [Calls -> Nat]
    /\ at \in [Calls -> Nat]
    /\ count \in [Calls -> Nat]

EventsBy(c) == {i \in DOMAIN trail : by[i] = c}

\* How far a call is: it has come to one of its items or past the last one, a
\* call that was answered past the last one. An upsert counts every item, and
\* every call counts the events that it left.
ProgressInv ==
    \A c \in Calls :
        /\ pc[c] = "new" => at[c] = 1 /\ count[c] = 0
        /\ pc[c] # "new" => body[c] \in Bodies
        /\ 1 <= at[c] /\ at[c] <= Len(body[c]) + 1
        /\ pc[c] = "ok" => at[c] = Len(body[c]) + 1
        /\ ~ IsDelete(body[c]) => count[c] = at[c] - 1
        /\ IsFiniteSet(EventsBy(c)) /\ count[c] = Cardinality(EventsBy(c))

\* Every event has the time of its call, and deletes only for a call that
\* deletes.
EventsInv ==
    \A i \in DOMAIN trail :
        /\ occurred[i] = stamp[by[i]]
        /\ pc[by[i]] # "new"
        /\ trail[i].action = "record.deleted" <=> IsDelete(body[by[i]])

RequestInv == RequestTypes /\ ProgressInv /\ EventsInv /\ RowMatchesTrail

-----------------------------------------------------------------------------

\* What a call asks for is a list of items, all of them deletions or none.
LEMMA BodyItems ==
    ASSUME NEW b \in Bodies
    PROVE  /\ b \in Seq(Item)
           /\ \A i \in 1..Len(b) :
                /\ b[i].rec \in Records /\ b[i].after \in Images
                /\ b[i].after = NoValue <=> IsDelete(b)
<1>1. b \in Seq(Item)
    BY EndpointsAssumption
<1>2. \A i \in 1..Len(b) : b[i] \in Item
    BY <1>1
<1>3. \A i \in 1..Len(b) : b[i].rec \in Records /\ b[i].after \in Images
    BY <1>2 DEF Item
<1>4. DOMAIN b = 1..Len(b)
    BY <1>1
<1>5. \A i \in 1..Len(b) : b[i].after = NoValue <=> IsDelete(b)
    BY <1>4, EndpointsAssumption DEF IsDelete
<1>. QED
    BY <1>1, <1>3, <1>5

\* The event of a mutation.
LEMMA EventFields ==
    ASSUME NEW e \in EventIds, NEW r \in Records, NEW n \in Nat,
           NEW before \in Images, NEW image \in Images
    PROVE  /\ NewEvent(e, r, n, before, image) \in Events
           /\ NewEvent(e, r, n, before, image).rec = r
           /\ NewEvent(e, r, n, before, image).action = ActionOf(before, image)
           /\ ActionOf(before, image) = "record.deleted" <=> image = NoValue
           /\ ActionOf(before, image) = "record.created" <=>
                image # NoValue /\ before = NoValue
<1>1. ActionOf(before, image) =
        IF image = NoValue THEN "record.deleted"
        ELSE IF before = NoValue THEN "record.created" ELSE "record.updated"
    BY DEF ActionOf
<1>2. ActionOf(before, image) \in Actions
    BY <1>1 DEF Actions
<1>. QED
    BY <1>1, <1>2 DEF NewEvent, Events

\* What an item leaves in the log and around it.
Applied(c, r, image, ev) ==
    /\ r \in Records /\ image \in Images /\ ev \in Events
    /\ ev.rec = r
    /\ ev.action = "record.deleted" <=> image = NoValue
    /\ ev.action = "record.created" <=> image # NoValue /\ value[r] = NoValue
    /\ value' = [value EXCEPT ![r] = image]
    /\ version' = [version EXCEPT ![r] = @ + 1]
    /\ trail' = Append(trail, ev)
    /\ times' = [times EXCEPT ![r] = TimesAfter(times[r], value[r], image, stamp[c])]
    /\ occurred' = Append(occurred, stamp[c])
    /\ by' = Append(by, c)
    /\ count' = [count EXCEPT ![c] = @ + 1]

Skipped == UNCHANGED <<log, times, occurred, count, by>>

\* An item is skipped or applied.
LEMMA ItemCases ==
    ASSUME RequestInv, NEW c \in Calls, ApplyItem(c)
    PROVE  /\ body[c] \in Bodies /\ at[c] \in 1..Len(body[c])
           /\ body[c][at[c]].after = NoValue <=> IsDelete(body[c])
           /\ \/ Skipped /\ IsDelete(body[c])
              \/ \E ev : Applied(c, body[c][at[c]].rec, body[c][at[c]].after, ev)
<1> DEFINE r == body[c][at[c]].rec
           image == body[c][at[c]].after
<1>1. body[c] \in Bodies /\ at[c] \in 1..Len(body[c])
    <2>1. body[c] \in Bodies /\ 1 <= at[c] /\ at[c] <= Len(body[c])
        BY DEF ApplyItem, RequestInv, ProgressInv
    <2>2. at[c] \in Nat /\ Len(body[c]) \in Nat
        BY DEF RequestInv, RequestTypes
    <2>. QED
        BY <2>1, <2>2
<1>2. r \in Records /\ image \in Images /\ (image = NoValue <=> IsDelete(body[c]))
    BY <1>1, BodyItems
<1>3. CASE image = NoValue /\ value[r] = NoValue
    BY <1>1, <1>2, <1>3 DEF ApplyItem, Skipped
<1>4. CASE ~ (image = NoValue /\ value[r] = NoValue)
    <2> DEFINE ev == NewEvent(FreshId, r, version[r] + 1, value[r], image)
    <2>1. /\ UnusedIds # {}
          /\ Store!Mutate(FreshId, r, image)
          /\ times' = [times EXCEPT ![r] = TimesAfter(@, value[r], image, stamp[c])]
          /\ occurred' = Append(occurred, stamp[c])
          /\ count' = [count EXCEPT ![c] = @ + 1]
          /\ by' = Append(by, c)
        BY <1>4 DEF ApplyItem
    <2>2. FreshId \in EventIds
        BY <2>1 DEF FreshId, UnusedIds
    <2>3. version[r] + 1 \in Nat /\ value[r] \in Images
        BY <1>2 DEF RequestInv, RequestTypes
    <2>4. /\ ev \in Events /\ ev.rec = r
          /\ ev.action = "record.deleted" <=> image = NoValue
          /\ ev.action = "record.created" <=> image # NoValue /\ value[r] = NoValue
        <3> HIDE DEF r, image
        <3>. QED
            BY <1>2, <2>2, <2>3, EventFields
    <2>5. /\ value' = [value EXCEPT ![r] = image]
          /\ version' = [version EXCEPT ![r] = @ + 1]
          /\ trail' = Append(trail, ev)
        BY <2>1 DEF Store!Mutate, Store!NewEvent, Store!ActionOf, NewEvent, ActionOf
    <2>6. times' = [times EXCEPT ![r] = TimesAfter(times[r], value[r], image, stamp[c])]
        BY <1>2, <2>1
    <2> HIDE DEF ev
    <2>7. Applied(c, r, image, ev)
        BY <1>2, <2>1, <2>4, <2>5, <2>6 DEF Applied
    <2>. QED
        BY <1>1, <1>2, <2>7
<1>. QED
    BY <1>3, <1>4

\* The times that a mutation leaves.
LEMMA TimesType ==
    ASSUME NEW old \in Moments, NEW before, NEW image, NEW now \in Nat
    PROVE  TimesAfter(old, before, image, now) \in Moments
    BY DEF TimesAfter, Moments, NoTimes

LEMMA RequestInit == Init => RequestInv
<1> SUFFICES ASSUME Init PROVE RequestInv
    OBVIOUS
<1>1. /\ value = [r \in Records |-> NoValue] /\ version = [r \in Records |-> 0]
      /\ trail = <<>> /\ times = [r \in Records |-> NoTimes] /\ occurred = <<>> /\ by = <<>>
      /\ clock = 0 /\ pc = [c \in Calls |-> "new"] /\ body = [c \in Calls |-> <<>>]
      /\ stamp = [c \in Calls |-> 0] /\ at = [c \in Calls |-> 1]
      /\ count = [c \in Calls |-> 0]
    BY DEF Init, Store!Init
<1>2. RequestTypes
    <2>1. value \in [Records -> Images] /\ version \in [Records -> Nat]
        BY <1>1 DEF Images
    <2>2. trail \in Seq(Events) /\ occurred \in Seq(Nat) /\ by \in Seq(Calls)
          /\ Len(occurred) = Len(trail) /\ Len(by) = Len(trail)
        BY <1>1
    <2>3. times \in [Records -> Moments]
        BY <1>1 DEF NoTimes, Moments
    <2>4. <<>> \in Seq(Item)
        OBVIOUS
    <2>5. body \in [Calls -> Seq(Item)]
        <3>1. body = [c \in Calls |-> <<>>]
            BY <1>1
        <3>. QED
            BY <2>4, <3>1
    <2>6. /\ pc \in [Calls -> {"new", "items", "ok", "error", "lost"}]
          /\ stamp \in [Calls -> Nat] /\ at \in [Calls -> Nat] /\ count \in [Calls -> Nat]
          /\ clock \in Nat
        BY <1>1
    <2>. QED
        BY <2>1, <2>2, <2>3, <2>5, <2>6 DEF RequestTypes
<1>3. ProgressInv
    <2>1. \A c \in Calls : EventsBy(c) = {}
        BY <1>1 DEF EventsBy
    <2>2. \A c \in Calls : IsDelete(body[c]) /\ Len(body[c]) = 0
        BY <1>1 DEF IsDelete
    <2>3. IsFiniteSet({}) /\ Cardinality({}) = 0
        BY FS_EmptySet
    <2>4. \A c \in Calls : pc[c] = "new" /\ at[c] = 1 /\ count[c] = 0
        BY <1>1
    <2>5. \A c \in Calls : IsFiniteSet(EventsBy(c)) /\ count[c] = Cardinality(EventsBy(c))
        BY <2>1, <2>3, <2>4
    <2>. QED
        BY <2>2, <2>4, <2>5 DEF ProgressInv
<1>4. EventsInv
    BY <1>1 DEF EventsInv
<1>5. RowMatchesTrail
    BY <1>1 DEF RowMatchesTrail
<1>. QED
    BY <1>2, <1>3, <1>4, <1>5 DEF RequestInv

-----------------------------------------------------------------------------
(***************************************************************************)
(* A call is stamped.                                                      *)
(***************************************************************************)

\* What a call does to its own state and to that of no other call.
LEMMA CallFacts ==
    ASSUME RequestInv, NEW c \in Calls, NEW b \in Bodies, Call(c, b)
    PROVE  /\ pc[c] = "new" /\ clock' \in Nat /\ clock <= clock'
           /\ stamp'[c] = clock' /\ pc'[c] = "items" /\ body'[c] = b
           /\ \A d \in Calls \ {c} : /\ stamp'[d] = stamp[d] /\ pc'[d] = pc[d]
                                     /\ body'[d] = body[d]
           /\ trail' = trail /\ occurred' = occurred /\ by' = by /\ at' = at /\ count' = count
           /\ value' = value /\ times' = times
<1>1. /\ DOMAIN stamp = Calls /\ DOMAIN pc = Calls /\ DOMAIN body = Calls
      /\ clock \in Nat
    BY DEF RequestInv, RequestTypes
<1>2. clock' \in Nat /\ clock <= clock'
    BY <1>1 DEF Call
<1>. QED
    BY <1>1, <1>2 DEF Call, log

LEMMA CallKeepsInv ==
    ASSUME RequestInv, NEW c \in Calls, NEW b \in Bodies, Call(c, b)
    PROVE  RequestInv'
<1>0. /\ pc[c] = "new" /\ clock' \in Nat /\ clock <= clock'
      /\ stamp'[c] = clock' /\ pc'[c] = "items" /\ body'[c] = b
      /\ \A d \in Calls \ {c} : /\ stamp'[d] = stamp[d] /\ pc'[d] = pc[d]
                                /\ body'[d] = body[d]
      /\ trail' = trail /\ occurred' = occurred /\ by' = by /\ at' = at /\ count' = count
      /\ value' = value /\ times' = times
    BY CallFacts
<1>1. RequestTypes'
    <2>1. b \in Seq(Item)
        BY BodyItems
    <2>2. body' \in [Calls -> Seq(Item)]
        BY <2>1 DEF Call, RequestInv, RequestTypes
    <2>3. /\ stamp' \in [Calls -> Nat]
          /\ pc' \in [Calls -> {"new", "items", "ok", "error", "lost"}]
        BY <1>0 DEF Call, RequestInv, RequestTypes
    <2>5. version' = version
        BY DEF Call, log
    <2>. QED
        BY <1>0, <2>2, <2>3, <2>5 DEF RequestInv, RequestTypes
<1>2. ProgressInv'
    <2> SUFFICES ASSUME NEW d \in Calls
                 PROVE  /\ pc'[d] = "new" => at'[d] = 1 /\ count'[d] = 0
                        /\ pc'[d] # "new" => body'[d] \in Bodies
                        /\ 1 <= at'[d] /\ at'[d] <= Len(body'[d]) + 1
                        /\ pc'[d] = "ok" => at'[d] = Len(body'[d]) + 1
                        /\ ~ IsDelete(body'[d]) => count'[d] = at'[d] - 1
                        /\ IsFiniteSet(EventsBy(d)') /\ count'[d] = Cardinality(EventsBy(d)')
        BY DEF ProgressInv
    <2>1. EventsBy(d)' = EventsBy(d)
        BY <1>0 DEF EventsBy
    <2>2. /\ pc[d] = "new" => at[d] = 1 /\ count[d] = 0
          /\ pc[d] # "new" => body[d] \in Bodies
          /\ 1 <= at[d] /\ at[d] <= Len(body[d]) + 1
          /\ pc[d] = "ok" => at[d] = Len(body[d]) + 1
          /\ ~ IsDelete(body[d]) => count[d] = at[d] - 1
          /\ IsFiniteSet(EventsBy(d)) /\ count[d] = Cardinality(EventsBy(d))
        BY DEF RequestInv, ProgressInv
    <2>3. CASE d = c
        <3>1. b \in Seq(Item)
            BY BodyItems
        <3>2. Len(b) \in Nat
            BY <3>1
        <3>3. at'[d] = 1 /\ count'[d] = 0 /\ body'[d] = b /\ pc'[d] = "items"
            BY <1>0, <2>2, <2>3
        <3>4. count'[d] = count[d]
            BY <1>0
        <3>. QED
            BY <2>1, <2>2, <3>2, <3>3, <3>4
    <2>4. CASE d # c
        BY <1>0, <2>1, <2>2, <2>4
    <2>. QED
        BY <2>3, <2>4
<1>3. EventsInv'
    <2> SUFFICES ASSUME NEW i \in DOMAIN trail
                 PROVE  /\ occurred'[i] = stamp'[by'[i]]
                        /\ pc'[by'[i]] # "new"
                        /\ trail'[i].action = "record.deleted" <=> IsDelete(body'[by'[i]])
        BY <1>0 DEF EventsInv
    <2>1. /\ occurred[i] = stamp[by[i]] /\ pc[by[i]] # "new"
          /\ trail[i].action = "record.deleted" <=> IsDelete(body[by[i]])
        BY DEF RequestInv, EventsInv
    <2>2. by[i] \in Calls
        BY DEF RequestInv, RequestTypes
    <2>3. by[i] \in Calls \ {c}
        BY <1>0, <2>1, <2>2
    <2>. QED
        BY <1>0, <2>1, <2>3
<1>4. RowMatchesTrail'
    BY <1>0 DEF RequestInv, RowMatchesTrail, EventsOf
<1>. QED
    BY <1>1, <1>2, <1>3, <1>4 DEF RequestInv

-----------------------------------------------------------------------------
(***************************************************************************)
(* An item is applied.                                                     *)
(***************************************************************************)

\* What is appended, and what stays.
LEMMA AppliedFacts ==
    ASSUME RequestInv, NEW c \in Calls, NEW r, NEW image, NEW ev, Applied(c, r, image, ev)
    PROVE  LET n == Len(trail) IN
           /\ n \in Nat /\ DOMAIN trail = 1..n /\ DOMAIN trail' = 1..(n + 1)
           /\ Len(trail') = n + 1 /\ Len(occurred') = n + 1 /\ Len(by') = n + 1
           /\ \A i \in 1..n : /\ trail'[i] = trail[i] /\ occurred'[i] = occurred[i]
                              /\ by'[i] = by[i]
           /\ trail'[n + 1] = ev /\ occurred'[n + 1] = stamp[c] /\ by'[n + 1] = c
           /\ trail' \in Seq(Events) /\ occurred' \in Seq(Nat) /\ by' \in Seq(Calls)
<1> DEFINE n == Len(trail)
<1>1. /\ trail \in Seq(Events) /\ occurred \in Seq(Nat) /\ by \in Seq(Calls)
      /\ Len(occurred) = n /\ Len(by) = n /\ n \in Nat /\ stamp[c] \in Nat
    BY DEF RequestInv, RequestTypes
<1>2. /\ trail' = Append(trail, ev) /\ occurred' = Append(occurred, stamp[c])
      /\ by' = Append(by, c) /\ ev \in Events
    BY DEF Applied
<1>3. /\ Len(trail') = n + 1 /\ trail' \in Seq(Events) /\ trail'[n + 1] = ev
      /\ \A i \in 1..n : trail'[i] = trail[i]
      /\ DOMAIN trail = 1..n /\ DOMAIN trail' = 1..(n + 1)
    BY <1>1, <1>2, AppendProperties
<1>4. /\ Len(occurred') = n + 1 /\ occurred' \in Seq(Nat) /\ occurred'[n + 1] = stamp[c]
      /\ \A i \in 1..n : occurred'[i] = occurred[i]
    BY <1>1, <1>2, AppendProperties
<1>5. /\ Len(by') = n + 1 /\ by' \in Seq(Calls) /\ by'[n + 1] = c
      /\ \A i \in 1..n : by'[i] = by[i]
    BY <1>1, <1>2, AppendProperties
<1>. QED
    BY <1>1, <1>3, <1>4, <1>5

\* The events of a call grow by the one that it leaves.
LEMMA EventsByGrow ==
    ASSUME RequestInv, NEW c \in Calls, NEW r, NEW image, NEW ev, Applied(c, r, image, ev),
           NEW d \in Calls
    PROVE  /\ IsFiniteSet(EventsBy(d)')
           /\ Cardinality(EventsBy(d)') = count'[d]
<1> DEFINE n == Len(trail)
<1>1. /\ n \in Nat /\ DOMAIN trail = 1..n /\ DOMAIN trail' = 1..(n + 1)
      /\ \A i \in 1..n : by'[i] = by[i]
      /\ by'[n + 1] = c
    BY AppliedFacts
<1>2. /\ IsFiniteSet(EventsBy(d)) /\ count[d] = Cardinality(EventsBy(d))
    BY DEF RequestInv, ProgressInv
<1>3. \A i : i \in 1..(n + 1) <=> i \in 1..n \/ i = n + 1
    BY <1>1
<1>4. n + 1 \notin 1..n
    BY <1>1
<1>5. EventsBy(d)' = {i \in 1..(n + 1) : by'[i] = d}
    BY <1>1 DEF EventsBy
<1>6. EventsBy(d) = {i \in 1..n : by[i] = d}
    BY <1>1 DEF EventsBy
<1>7. count' = [count EXCEPT ![c] = @ + 1] /\ DOMAIN count = Calls
    BY DEF Applied, RequestInv, RequestTypes
<1>8. CASE d = c
    <2>1. EventsBy(d)' = EventsBy(d) \cup {n + 1}
        BY <1>1, <1>3, <1>5, <1>6, <1>8
    <2>2. n + 1 \notin EventsBy(d)
        BY <1>4, <1>6
    <2>3. IsFiniteSet(EventsBy(d)') /\ Cardinality(EventsBy(d)') = Cardinality(EventsBy(d)) + 1
        BY <1>2, <2>1, <2>2, FS_AddElement
    <2>. QED
        BY <1>2, <1>7, <1>8, <2>3
<1>9. CASE d # c
    <2>1. EventsBy(d)' = EventsBy(d)
        BY <1>1, <1>3, <1>5, <1>6, <1>9
    <2>. QED
        BY <1>2, <1>7, <1>9, <2>1
<1>. QED
    BY <1>8, <1>9

\* A row keeps agreeing with the events of its record.
LEMMA AppliedKeepsRows ==
    ASSUME RequestInv, NEW c \in Calls, NEW r, NEW image, NEW ev, Applied(c, r, image, ev)
    PROVE  RowMatchesTrail'
<1> DEFINE n == Len(trail)
           E(q) == {i \in 1..n : trail[i].rec = q}
           F(q) == {i \in 1..(n + 1) : trail'[i].rec = q}
<1>1. /\ n \in Nat /\ DOMAIN trail = 1..n /\ DOMAIN trail' = 1..(n + 1)
      /\ \A i \in 1..n : trail'[i] = trail[i] /\ occurred'[i] = occurred[i]
      /\ trail'[n + 1] = ev /\ occurred'[n + 1] = stamp[c]
    BY AppliedFacts
<1>2. /\ r \in Records /\ ev.rec = r
      /\ ev.action = "record.created" <=> image # NoValue /\ value[r] = NoValue
      /\ value' = [value EXCEPT ![r] = image]
      /\ times' = [times EXCEPT ![r] = TimesAfter(times[r], value[r], image, stamp[c])]
      /\ DOMAIN value = Records /\ DOMAIN times = Records
    BY DEF Applied, RequestInv, RequestTypes
<1>3. \A i : i \in 1..(n + 1) <=> i \in 1..n \/ i = n + 1
    BY <1>1
<1>4. \A i \in 1..n : i <= n + 1 /\ i \in Nat /\ ~ (n + 1 <= i)
    BY <1>1
<1>5. \A q \in Records : EventsOf(q) = E(q) /\ EventsOf(q)' = F(q)
    BY <1>1 DEF EventsOf
<1>6. ASSUME NEW q \in Records, value'[q] # NoValue
      PROVE  \E m, l \in F(q) :
                /\ \A i \in F(q) : i <= l
                /\ trail'[m].action = "record.created"
                /\ \A i \in F(q) : trail'[i].action = "record.created" => i <= m
                /\ times'[q] = [created |-> occurred'[m], updated |-> occurred'[l]]
    <2>1. CASE q # r
        <3>1. value[q] # NoValue /\ times'[q] = times[q]
            BY <1>2, <1>6, <2>1
        <3>2. F(q) = E(q)
            BY <1>1, <1>2, <1>3, <2>1
        <3>3. PICK m, l \in E(q) :
                /\ \A i \in E(q) : i <= l
                /\ trail[m].action = "record.created"
                /\ \A i \in E(q) : trail[i].action = "record.created" => i <= m
                /\ times[q] = [created |-> occurred[m], updated |-> occurred[l]]
            BY <1>5, <3>1 DEF RequestInv, RowMatchesTrail
        <3>4. /\ trail'[m] = trail[m] /\ occurred'[m] = occurred[m] /\ occurred'[l] = occurred[l]
              /\ \A i \in F(q) : i \in E(q) /\ trail'[i] = trail[i]
            BY <1>1, <3>2
        <3>5. times'[q] = [created |-> occurred'[m], updated |-> occurred'[l]]
            BY <3>1, <3>3, <3>4
        <3>6. \A i \in F(q) : i <= l /\ (trail'[i].action = "record.created" => i <= m)
            BY <3>3, <3>4
        <3>7. m \in F(q) /\ l \in F(q) /\ trail'[m].action = "record.created"
            BY <3>2, <3>3, <3>4
        <3>. QED
            BY <3>5, <3>6, <3>7
    <2>2. CASE q = r
        <3>1. image # NoValue
            BY <1>2, <1>6, <2>2
        <3>2. F(r) = E(r) \cup {n + 1}
            BY <1>1, <1>2, <1>3
        <3>3. n + 1 \in F(r) /\ \A i \in F(r) : i <= n + 1
            BY <1>4, <3>2
        <3>4. times'[r] = TimesAfter(times[r], value[r], image, stamp[c])
            BY <1>2
        <3>5. CASE value[r] = NoValue
            <4>1. times'[r] = [created |-> occurred'[n + 1], updated |-> occurred'[n + 1]]
                BY <1>1, <3>1, <3>4, <3>5 DEF TimesAfter
            <4>2. trail'[n + 1].action = "record.created"
                BY <1>1, <1>2, <3>1, <3>5
            <4>. QED
                BY <2>2, <3>3, <4>1, <4>2
        <3>6. CASE value[r] # NoValue
            <4>1. PICK m, l \in E(r) :
                    /\ trail[m].action = "record.created"
                    /\ \A i \in E(r) : trail[i].action = "record.created" => i <= m
                    /\ times[r] = [created |-> occurred[m], updated |-> occurred[l]]
                BY <1>2, <1>5, <3>6 DEF RequestInv, RowMatchesTrail
            <4>2. times'[r] = [created |-> occurred'[m], updated |-> occurred'[n + 1]]
                BY <1>1, <3>1, <3>4, <3>6, <4>1 DEF TimesAfter
            <4>3. trail'[m].action = "record.created" /\ m \in F(r)
                BY <1>1, <3>2, <4>1
            <4>4. trail'[n + 1].action # "record.created"
                BY <1>1, <1>2, <3>6
            <4>5. \A i \in F(r) : trail'[i].action = "record.created" => i <= m
                BY <1>1, <3>2, <4>1, <4>4
            <4>. QED
                BY <2>2, <3>3, <4>2, <4>3, <4>5
        <3>. QED
            BY <3>5, <3>6
    <2>. QED
        BY <2>1, <2>2
<1> HIDE DEF E, F
<1>7. \A q \in Records : EventsOf(q)' = F(q)
    BY <1>5
<1>. QED
    BY <1>6, <1>7 DEF RowMatchesTrail

LEMMA AppliedKeepsTypes ==
    ASSUME RequestInv, NEW c \in Calls, ApplyItem(c), NEW r, NEW image, NEW ev,
           Applied(c, r, image, ev)
    PROVE  RequestTypes'
<1>1. /\ Len(occurred') = Len(trail') /\ Len(by') = Len(trail')
      /\ trail' \in Seq(Events) /\ occurred' \in Seq(Nat) /\ by' \in Seq(Calls)
    BY AppliedFacts
<1>2. /\ value' = [value EXCEPT ![r] = image] /\ version' = [version EXCEPT ![r] = @ + 1]
      /\ r \in Records /\ image \in Images
      /\ times' = [times EXCEPT ![r] = TimesAfter(times[r], value[r], image, stamp[c])]
      /\ count' = [count EXCEPT ![c] = @ + 1]
    BY DEF Applied
<1>3. /\ at' = [at EXCEPT ![c] = @ + 1]
      /\ clock' = clock /\ pc' = pc /\ body' = body /\ stamp' = stamp
    BY DEF ApplyItem
<1>4. value' \in [Records -> Images] /\ version' \in [Records -> Nat]
    BY <1>2 DEF RequestInv, RequestTypes
<1>5. times' \in [Records -> Moments]
    <2>1. times[r] \in Moments /\ stamp[c] \in Nat
        BY <1>2 DEF RequestInv, RequestTypes
    <2>2. TimesAfter(times[r], value[r], image, stamp[c]) \in Moments
        BY <2>1, TimesType
    <2>. QED
        BY <1>2, <2>2 DEF RequestInv, RequestTypes
<1>6. count' \in [Calls -> Nat] /\ at' \in [Calls -> Nat]
    BY <1>2, <1>3 DEF RequestInv, RequestTypes
<1>. QED
    BY <1>1, <1>3, <1>4, <1>5, <1>6 DEF RequestInv, RequestTypes

\* The call goes on to its next item.
LEMMA AtNext ==
    ASSUME RequestInv, NEW c \in Calls, ApplyItem(c)
    PROVE  /\ pc' = pc /\ body' = body /\ stamp' = stamp /\ clock' = clock
           /\ pc[c] = "items"
           /\ at'[c] = at[c] + 1
           /\ \A d \in Calls \ {c} : at'[d] = at[d]
           /\ 1 <= at[c] + 1 /\ at[c] + 1 <= Len(body[c]) + 1
<1>1. /\ pc' = pc /\ body' = body /\ stamp' = stamp /\ clock' = clock
      /\ pc[c] = "items" /\ at' = [at EXCEPT ![c] = @ + 1]
    BY DEF ApplyItem
<1>2. at[c] \in Nat /\ DOMAIN at = Calls
    BY DEF RequestInv, RequestTypes
<1>3. at[c] \in 1..Len(body[c]) /\ Len(body[c]) \in Nat
    BY ItemCases DEF RequestInv, RequestTypes
<1>. QED
    BY <1>1, <1>2, <1>3

LEMMA ItemKeepsProgress ==
    ASSUME RequestInv, NEW c \in Calls, ApplyItem(c),
           \A d \in Calls \ {c} : count'[d] = count[d],
           IsDelete(body[c]) \/ count'[c] = count[c] + 1,
           \A d \in Calls :
               IsFiniteSet(EventsBy(d)') /\ count'[d] = Cardinality(EventsBy(d)')
    PROVE  ProgressInv'
<1>1. /\ pc' = pc /\ body' = body /\ pc[c] = "items"
      /\ at'[c] = at[c] + 1 /\ \A d \in Calls \ {c} : at'[d] = at[d]
      /\ 1 <= at[c] + 1 /\ at[c] + 1 <= Len(body[c]) + 1
    BY AtNext
<1> SUFFICES ASSUME NEW d \in Calls
             PROVE  /\ pc'[d] = "new" => at'[d] = 1 /\ count'[d] = 0
                    /\ pc'[d] # "new" => body'[d] \in Bodies
                    /\ 1 <= at'[d] /\ at'[d] <= Len(body'[d]) + 1
                    /\ pc'[d] = "ok" => at'[d] = Len(body'[d]) + 1
                    /\ ~ IsDelete(body'[d]) => count'[d] = at'[d] - 1
                    /\ IsFiniteSet(EventsBy(d)') /\ count'[d] = Cardinality(EventsBy(d)')
    BY DEF ProgressInv
<1>2. /\ pc[d] = "new" => at[d] = 1 /\ count[d] = 0
      /\ pc[d] # "new" => body[d] \in Bodies
      /\ 1 <= at[d] /\ at[d] <= Len(body[d]) + 1
      /\ pc[d] = "ok" => at[d] = Len(body[d]) + 1
      /\ ~ IsDelete(body[d]) => count[d] = at[d] - 1
    BY DEF RequestInv, ProgressInv
<1>3. CASE d = c
    <2>1. at[c] \in Nat /\ count[c] \in Nat
        BY DEF RequestInv, RequestTypes
    <2>. QED
        BY <1>1, <1>2, <1>3, <2>1
<1>4. CASE d # c
    BY <1>1, <1>2, <1>4
<1>. QED
    BY <1>3, <1>4

LEMMA ApplyItemKeepsInv ==
    ASSUME RequestInv, NEW c \in Calls, ApplyItem(c)
    PROVE  RequestInv'
<1>1. /\ pc' = pc /\ body' = body /\ stamp' = stamp /\ clock' = clock
      /\ pc[c] = "items"
    BY AtNext
<1>2. CASE Skipped /\ IsDelete(body[c])
    <2>1. /\ value' = value /\ version' = version /\ trail' = trail /\ times' = times
          /\ occurred' = occurred /\ count' = count /\ by' = by
        BY <1>2 DEF Skipped, log
    <2>2. at' \in [Calls -> Nat]
        BY DEF ApplyItem, RequestInv, RequestTypes
    <2>3. RequestTypes'
        BY <1>1, <2>1, <2>2 DEF RequestInv, RequestTypes
    <2>4. ASSUME NEW d \in Calls
          PROVE  IsFiniteSet(EventsBy(d)') /\ count'[d] = Cardinality(EventsBy(d)')
        <3>1. EventsBy(d)' = EventsBy(d)
            BY <2>1 DEF EventsBy
        <3>. QED
            BY <2>1, <3>1 DEF RequestInv, ProgressInv
    <2>5. ProgressInv'
        BY <1>2, <2>1, <2>4, ItemKeepsProgress
    <2>6. EventsInv'
        BY <1>1, <2>1 DEF RequestInv, EventsInv
    <2>7. RowMatchesTrail'
        BY <2>1 DEF RequestInv, RowMatchesTrail, EventsOf
    <2>. QED
        BY <2>3, <2>5, <2>6, <2>7 DEF RequestInv
<1>3. ASSUME NEW ev, Applied(c, body[c][at[c]].rec, body[c][at[c]].after, ev)
      PROVE  RequestInv'
    <2> DEFINE n == Len(trail)
    <2>1. /\ n \in Nat /\ DOMAIN trail = 1..n /\ DOMAIN trail' = 1..(n + 1)
          /\ \A i \in 1..n : /\ trail'[i] = trail[i] /\ occurred'[i] = occurred[i]
                             /\ by'[i] = by[i]
          /\ trail'[n + 1] = ev /\ occurred'[n + 1] = stamp[c] /\ by'[n + 1] = c
        BY <1>3, AppliedFacts
    <2>2. RequestTypes'
        BY <1>3, AppliedKeepsTypes
    <2>3. ProgressInv'
        <3>1. count' = [count EXCEPT ![c] = @ + 1] /\ DOMAIN count = Calls
            BY <1>3 DEF Applied, RequestInv, RequestTypes
        <3>2. \A d \in Calls :
                IsFiniteSet(EventsBy(d)') /\ count'[d] = Cardinality(EventsBy(d)')
            BY <1>3, EventsByGrow
        <3>3. count'[c] = count[c] + 1 /\ \A d \in Calls \ {c} : count'[d] = count[d]
            BY <3>1
        <3>. QED
            BY <3>2, <3>3, ItemKeepsProgress
    <2>4. EventsInv'
        <3>1. ev.action = "record.deleted" <=> IsDelete(body[c])
            BY <1>3, ItemCases DEF Applied
        <3>2. \A i \in 1..n :
                /\ occurred[i] = stamp[by[i]] /\ pc[by[i]] # "new"
                /\ trail[i].action = "record.deleted" <=> IsDelete(body[by[i]])
            BY <2>1 DEF RequestInv, EventsInv
        <3>3. \A i : i \in 1..(n + 1) <=> i \in 1..n \/ i = n + 1
            BY <2>1
        <3>4. ASSUME NEW i \in 1..(n + 1)
              PROVE  /\ occurred'[i] = stamp'[by'[i]]
                     /\ pc'[by'[i]] # "new"
                     /\ trail'[i].action = "record.deleted" <=> IsDelete(body'[by'[i]])
            <4>1. CASE i \in 1..n
                BY <1>1, <2>1, <3>2, <4>1
            <4>2. CASE i = n + 1
                BY <1>1, <2>1, <3>1, <4>2
            <4>. QED
                BY <3>3, <4>1, <4>2
        <3>. QED
            BY <2>1, <3>4 DEF EventsInv
    <2>5. RowMatchesTrail'
        BY <1>3, AppliedKeepsRows
    <2>. QED
        BY <2>2, <2>3, <2>4, <2>5 DEF RequestInv
<1>. QED
    BY <1>2, <1>3, ItemCases

-----------------------------------------------------------------------------
(***************************************************************************)
(* The other steps, and the properties.                                    *)
(***************************************************************************)

\* A step that only ends calls keeps the invariant.
LEMMA EndsKeepInv ==
    ASSUME RequestInv,
           UNCHANGED <<value, version, trail, times, occurred, by, clock, body, stamp, at,
                       count>>,
           pc' \in [Calls -> {"new", "items", "ok", "error", "lost"}],
           \A c \in Calls : \/ pc'[c] = pc[c]
                            \/ pc[c] = "items" /\ pc'[c] \in {"error", "lost"}
                            \/ pc[c] = "items" /\ pc'[c] = "ok" /\ at[c] = Len(body[c]) + 1
    PROVE  RequestInv'
<1>1. RequestTypes'
    BY DEF RequestInv, RequestTypes
<1>2. ProgressInv'
    <2>1. \A c \in Calls : EventsBy(c)' = EventsBy(c)
        BY DEF EventsBy
    <2>. QED
        BY <2>1 DEF RequestInv, ProgressInv
<1>3. EventsInv'
    <2>1. \A i \in DOMAIN trail : by[i] \in Calls
        BY DEF RequestInv, RequestTypes
    <2>. QED
        BY <2>1 DEF RequestInv, EventsInv
<1>4. RowMatchesTrail'
    BY DEF RequestInv, RowMatchesTrail, EventsOf
<1>. QED
    BY <1>1, <1>2, <1>3, <1>4 DEF RequestInv

LEMMA RequestStep == RequestInv /\ [Next]_vars => RequestInv'
<1> SUFFICES ASSUME RequestInv, [Next]_vars PROVE RequestInv'
    OBVIOUS
<1>0. pc \in [Calls -> {"new", "items", "ok", "error", "lost"}]
    BY DEF RequestInv, RequestTypes
<1>1. ASSUME NEW c \in Calls, NEW b \in Bodies, Call(c, b)
      PROVE  RequestInv'
    BY <1>1, CallKeepsInv
<1>2. ASSUME NEW c \in Calls, ApplyItem(c)
      PROVE  RequestInv'
    BY <1>2, ApplyItemKeepsInv
<1>3. ASSUME NEW c \in Calls, FailItem(c)
      PROVE  RequestInv'
    <2>1. pc[c] = "items" /\ pc' = [pc EXCEPT ![c] = "error"]
          /\ UNCHANGED <<value, version, trail, times, occurred, by, clock, body, stamp, at,
                         count>>
        BY <1>3 DEF FailItem, log
    <2>. QED
        BY <1>0, <2>1, EndsKeepInv
<1>4. ASSUME NEW c \in Calls, Answer(c)
      PROVE  RequestInv'
    <2>1. pc[c] = "items" /\ pc' = [pc EXCEPT ![c] = "ok"] /\ at[c] > Len(body[c])
          /\ UNCHANGED <<value, version, trail, times, occurred, by, clock, body, stamp, at,
                         count>>
        BY <1>4 DEF Answer, log
    <2>2. at[c] = Len(body[c]) + 1
        <3>1. at[c] \in Nat /\ Len(body[c]) \in Nat
            BY DEF RequestInv, RequestTypes
        <3>2. at[c] <= Len(body[c]) + 1
            BY DEF RequestInv, ProgressInv
        <3>. QED
            BY <2>1, <3>1, <3>2
    <2>. QED
        BY <1>0, <2>1, <2>2, EndsKeepInv
<1>5. ASSUME Crash
      PROVE  RequestInv'
    <2>1. pc' = [c \in Calls |-> IF pc[c] = "items" THEN "lost" ELSE pc[c]]
          /\ UNCHANGED <<value, version, trail, times, occurred, by, clock, body, stamp, at,
                         count>>
        BY <1>5 DEF Crash, log
    <2>2. pc' \in [Calls -> {"new", "items", "ok", "error", "lost"}]
        BY <1>0, <2>1
    <2>3. \A c \in Calls : pc'[c] = IF pc[c] = "items" THEN "lost" ELSE pc[c]
        BY <2>1
    <2>. QED
        BY <2>1, <2>2, <2>3, EndsKeepInv
<1>6. ASSUME UNCHANGED vars
      PROVE  RequestInv'
    <2>1. pc' = pc
          /\ UNCHANGED <<value, version, trail, times, occurred, by, clock, body, stamp, at,
                         count>>
        BY <1>6 DEF vars, log, calls
    <2>. QED
        BY <1>0, <2>1, EndsKeepInv
<1>. QED
    BY <1>1, <1>2, <1>3, <1>4, <1>5, <1>6 DEF Next

\* RecordEndpoints keeps its inductive invariant.
THEOREM RequestInvariant == Spec => []RequestInv
    BY RequestInit, RequestStep, PTL DEF Spec

\* The item loops write the record log: what RecordEventStore implements is what
\* the endpoints are written against, for any calls, lists and failures.
THEOREM EndpointsWriteLog == Spec => Store!Spec
<1>1. Init => Store!Init
    BY DEF Init
<1>2. RequestInv /\ [Next]_vars => [Store!Next]_(Store!vars)
    <2>. SUFFICES ASSUME RequestInv, [Next]_vars PROVE [Store!Next]_(Store!vars)
        OBVIOUS
    <2>1. ASSUME NEW c \in Calls, ApplyItem(c)
          PROVE  Store!Next \/ UNCHANGED log
        <3>. DEFINE item == body[c][at[c]]
        <3>1. item.rec \in Records /\ item.after \in Images
            BY <2>1, ItemCases, BodyItems
        <3>2. CASE item.after = NoValue /\ value[item.rec] = NoValue
            BY <2>1, <3>2 DEF ApplyItem
        <3>3. CASE ~ (item.after = NoValue /\ value[item.rec] = NoValue)
            <4>1. UnusedIds # {} /\ Store!Mutate(FreshId, item.rec, item.after)
                BY <2>1, <3>3 DEF ApplyItem
            <4>2. FreshId \in EventIds
                BY <4>1 DEF FreshId, UnusedIds
            <4>. QED
                BY <3>1, <4>1, <4>2 DEF Store!Next, Store!Images, Images
        <3>. QED
            BY <3>2, <3>3
    <2>2. UNCHANGED log => [Store!Next]_(Store!vars)
        BY DEF log, Store!vars
    <2>3. ASSUME NEW c \in Calls, NEW b \in Bodies, Call(c, b) PROVE UNCHANGED log
        BY <2>3 DEF Call
    <2>4. ASSUME NEW c \in Calls, FailItem(c) \/ Answer(c) PROVE UNCHANGED log
        BY <2>4 DEF FailItem, Answer
    <2>5. Crash \/ UNCHANGED vars => UNCHANGED log
        BY DEF Crash, vars
    <2>. QED
        BY <2>1, <2>2, <2>3, <2>4, <2>5 DEF Next
<1>. QED
    BY <1>1, <1>2, RequestInvariant, PTL DEF Spec, Store!Spec

\* Rows have the times of their events (property RowMatchesTrail).
THEOREM RowsHaveTimesOfEvents == Spec => []RowMatchesTrail
<1>1. RequestInv => RowMatchesTrail
    BY DEF RequestInv
<1>. QED
    BY <1>1, RequestInvariant, PTL

\* Answers are true of the trail (property AnswersMatchTrail).
THEOREM AnswersAreTrue == Spec => []AnswersMatchTrail
<1>1. RequestInv => AnswersMatchTrail
    <2> SUFFICES ASSUME RequestInv, NEW c \in Calls, pc[c] = "ok"
                 PROVE  /\ count[c] = Cardinality({i \in DOMAIN trail : by[i] = c})
                        /\ \A i \in DOMAIN trail :
                             by[i] = c =>
                               (trail[i].action = "record.deleted" <=> IsDelete(body[c]))
                        /\ ~ IsDelete(body[c]) => count[c] = Len(body[c])
        BY DEF AnswersMatchTrail
    <2>1. count[c] = Cardinality({i \in DOMAIN trail : by[i] = c})
        BY DEF RequestInv, ProgressInv, EventsBy
    <2>2. ASSUME NEW i \in DOMAIN trail, by[i] = c
          PROVE  trail[i].action = "record.deleted" <=> IsDelete(body[c])
        BY <2>2 DEF RequestInv, EventsInv
    <2>3. ~ IsDelete(body[c]) => count[c] = Len(body[c])
        <3>1. Len(body[c]) \in Nat
            BY DEF RequestInv, RequestTypes
        <3>. QED
            BY <3>1 DEF RequestInv, ProgressInv
    <2>. QED
        BY <2>1, <2>2, <2>3
<1>. QED
    BY <1>1, RequestInvariant, PTL

-----------------------------------------------------------------------------
(***************************************************************************)
(* RecordListing: a client that pages through a listing.                   *)
(***************************************************************************)

\* The inductive invariant: what has been steady is selected now and, up to the
\* cursor, has been listed; nothing beyond the cursor has been listed.
ListingInv ==
    /\ query \in Queries
    /\ rows \in [Keys -> Rows \cup {NoRow}]
    /\ reading # "failed"
    /\ after \in Nat
    /\ steady \subseteq Selected(rows, query)
    /\ \A k \in listed : k \in Nat /\ k <= after
    /\ \A k \in steady : k <= after => k \in listed
    /\ reading = "done" => steady \subseteq listed
    /\ misplaced = {}

\* What a query selects are keys: numbers from 1 to NumKeys.
LEMMA SelectedAreKeys ==
    ASSUME NEW r, NEW q \in Queries
    PROVE  Selected(r, q) \subseteq 1..NumKeys
BY QueryAssumption DEF Selected, SelectedRecords, SelectedItems, Keys

\* The limit that is applied is a positive number.
LEMMA LimitIsPositive ==
    ASSUME NEW q \in Queries
    PROVE  ClampLimit(q.limit) \in Nat \ {0}
BY QueryAssumption, BoundsAssumption DEF ClampLimit

\* Sets of keys are finite.
LEMMA KeysAreFinite ==
    ASSUME NEW S \in SUBSET (1..NumKeys)
    PROVE  IsFiniteSet(S)
BY BoundsAssumption, FS_Interval, FS_Subset, 1 \in Int, NumKeys \in Int

\* A set of naturals that is not empty has a least element.
LEMMA LeastOf ==
    ASSUME NEW S \in SUBSET Nat, S # {}
    PROVE  \E k \in S : \A j \in S : k <= j
<1> DEFINE Less == {p \in Nat \X Nat : p[1] < p[2]}
<1>1. IsWellFoundedOn(Less, Nat)
  BY NatLessThanWellFounded DEF OpToRel
<1>2. \A x, y \in Nat : x <= y \/ <<y, x>> \in Less
  OBVIOUS
<1> HIDE DEF Less
<1> QED
  BY <1>1, <1>2, WFMin

\* A page that is not empty has a last key: the least of its upper bounds.
LEMMA LastKeyIsGreatest ==
    ASSUME NEW S \in SUBSET (1..NumKeys), S # {}
    PROVE  LastKey(S) \in S /\ \A j \in S : j <= LastKey(S)
<1> DEFINE Bounds == {n \in Nat : \A j \in S : j <= n}
<1>1. S \in SUBSET Nat
  BY BoundsAssumption
<1>2. NumKeys \in Bounds
  BY BoundsAssumption
<1>3. PICK n \in Bounds : \A m \in Bounds : n <= m
  BY <1>2, LeastOf
<1>4. n \in S
  <2>1. SUFFICES ASSUME n \notin S PROVE FALSE
    OBVIOUS
  <2>2. PICK i \in S : i <= n /\ i >= 1
    <3>1. \A i \in S : i <= n /\ i >= 1
      BY <1>3, BoundsAssumption
    <3> QED
      BY <3>1
  <2>3. n - 1 \in Nat
    BY <1>3, <2>2, <1>1
  <2>4. \A j \in S : j <= n - 1
    BY <1>3, <2>1, <1>1
  <2> QED
    BY <2>3, <2>4, <1>3
<1> QED
  BY <1>3, <1>4 DEF LastKey

\* The first keys of a set: they belong to it, there are some unless it is empty,
\* and none before them is left out.
LEMMA FirstKeysAreFirst ==
    ASSUME NEW S \in SUBSET (1..NumKeys), NEW n \in Nat \ {0}
    PROVE  /\ FirstKeys(S, n) \subseteq S
           /\ S # {} => FirstKeys(S, n) # {}
           /\ \A m \in FirstKeys(S, n), k \in S : k <= m => k \in FirstKeys(S, n)
<1> DEFINE UpTo(k) == {j \in S : j <= k}
<1>1. S \in SUBSET Nat
  BY BoundsAssumption
<1>2. \A k \in S : IsFiniteSet(UpTo(k)) /\ Cardinality(UpTo(k)) \in Nat
  BY KeysAreFinite, FS_CardinalityType
<1>3. ASSUME S # {}
      PROVE  FirstKeys(S, n) # {}
  <2>1. PICK k \in S : \A j \in S : k <= j
    BY <1>1, <1>3, LeastOf
  <2>2. UpTo(k) = {k}
    <3>1. \A j \in S : j <= k <=> j = k
      BY <1>1, <2>1
    <3> QED
      BY <3>1
  <2>3. Cardinality(UpTo(k)) = 1
    BY <2>2, FS_Singleton
  <2> QED
    BY <2>1, <2>3 DEF FirstKeys
<1>4. ASSUME NEW m \in FirstKeys(S, n), NEW k \in S, k <= m
      PROVE  k \in FirstKeys(S, n)
  <2>1. m \in S /\ Cardinality(UpTo(m)) <= n
    BY <1>4 DEF FirstKeys
  <2>2. UpTo(k) \subseteq UpTo(m)
    <3>1. \A j \in S : j <= k => j <= m
      BY <1>1, <1>4, <2>1
    <3> QED
      BY <3>1
  <2>3. Cardinality(UpTo(k)) <= Cardinality(UpTo(m))
    BY <1>2, <2>1, <2>2, FS_Subset
  <2>4. Cardinality(UpTo(k)) <= n
    BY <1>2, <2>1, <2>3
  <2> QED
    BY <2>4 DEF FirstKeys
<1> QED
  BY <1>3, <1>4 DEF FirstKeys

\* What a page gives, in terms of the cursor and of what the query selects.
LEMMA PageFacts ==
    ASSUME NEW r, NEW q \in Queries, NEW cursor \in Nat
    PROVE  LET page == Page(r, q, cursor)
           IN /\ page \in SUBSET (1..NumKeys)
              /\ \A k \in page : k > cursor
              /\ page = {} => \A k \in Selected(r, q) : k <= cursor
              /\ \A m \in page, k \in Selected(r, q) : cursor < k /\ k <= m => k \in page
<1> DEFINE S == Beyond(Selected(r, q), cursor)
<1>1. S \in SUBSET (1..NumKeys)
  BY SelectedAreKeys DEF Beyond
<1>2. ClampLimit(q.limit) \in Nat \ {0}
  BY LimitIsPositive
<1>3. \A k \in Selected(r, q) : k \in Nat
  BY SelectedAreKeys, BoundsAssumption
<1>4. Page(r, q, cursor) = FirstKeys(S, ClampLimit(q.limit))
  BY DEF Page
<1> HIDE DEF S
<1>5. /\ FirstKeys(S, ClampLimit(q.limit)) \subseteq S
      /\ S # {} => FirstKeys(S, ClampLimit(q.limit)) # {}
      /\ \A m \in FirstKeys(S, ClampLimit(q.limit)), k \in S :
            k <= m => k \in FirstKeys(S, ClampLimit(q.limit))
  BY <1>1, <1>2, FirstKeysAreFirst
<1>6. /\ \A k \in S : k > cursor
      /\ \A k \in Selected(r, q) : k \in S \/ k <= cursor
      /\ \A k \in Selected(r, q) : cursor < k => k \in S
  BY <1>3 DEF S, Beyond
<1> QED
  BY <1>1, <1>4, <1>5, <1>6

-----------------------------------------------------------------------------

\* RecordService.List fills in the operator that Validate assumed: the store has a
\* condition for every valid filter.
LEMMA ValidIsKnown ==
    ASSUME NEW q \in Queries, IsValid(q.filter)
    PROVE  IsKnown(WithDefault(q.filter))
<1>1. DOMAIN q.filter = {"path", "op", "value"}
  BY ServedAssumption
<1>2. CASE q.filter.path = NoPath
  BY <1>2 DEF WithDefault, IsKnown
<1>3. CASE q.filter.path # NoPath /\ q.filter.op = ""
  <2>1. WithDefault(q.filter) = [q.filter EXCEPT !.op = "eq"]
    BY <1>3 DEF WithDefault
  <2>2. WithDefault(q.filter).op = "eq"
    BY <1>1, <2>1
  <2> QED
    BY <2>2 DEF IsKnown
<1>4. CASE q.filter.path # NoPath /\ q.filter.op # ""
  <2>1. WithDefault(q.filter) = q.filter
    BY <1>4 DEF WithDefault
  <2>2. q.filter.op \in {"eq", "ne", "contains", "exists"}
    BY <1>4 DEF IsValid
  <2> QED
    BY <2>1, <2>2 DEF IsKnown
<1> QED
  BY <1>2, <1>3, <1>4

LEMMA InitEstablishesInv == ListingInit => ListingInv
BY SelectedAreKeys, BoundsAssumption, ServedAssumption DEF ListingInit, ListingInv, Queries

\* A page moves the cursor to its last key and lists everything up to there.
LEMMA FetchKeepsInv ==
    ASSUME ListingInv, Fetch
    PROVE  ListingInv'
<1> DEFINE page == Page(rows, query, after)
<1>1. /\ page \in SUBSET (1..NumKeys)
      /\ \A k \in page : k > after
      /\ page = {} => \A k \in Selected(rows, query) : k <= after
      /\ \A m \in page, k \in Selected(rows, query) : after < k /\ k <= m => k \in page
  BY PageFacts DEF ListingInv
<1>2. \A k \in Selected(rows, query) : k \in Nat
  BY SelectedAreKeys, BoundsAssumption DEF ListingInv
<1>0. IsKnown(WithDefault(query.filter))
  BY ValidIsKnown DEF ListingInv, Fetch
<1>3. rows' = rows /\ query' = query /\ steady' = steady /\ Selected(rows', query') = Selected(rows, query)
  BY DEF Fetch
<1>4. CASE page = {}
  <2>1. reading' = "done" /\ after' = after /\ listed' = listed /\ misplaced' = misplaced
    BY <1>0, <1>4 DEF Fetch
  <2>2. steady \subseteq listed
    BY <1>1, <1>4 DEF ListingInv
  <2> QED
    BY <1>3, <2>1, <2>2 DEF ListingInv
<1>5. CASE page # {}
  <2>1. /\ after' = LastKey(page)
        /\ listed' = listed \cup page
        /\ misplaced' = misplaced \cup {k \in page : \E j \in listed : j >= k}
        /\ reading' = reading /\ reading = "fetch"
    BY <1>0, <1>5 DEF Fetch
  <2> HIDE DEF page
  <2>2. LastKey(page) \in page /\ \A j \in page : j <= LastKey(page)
    BY <1>1, <1>5, LastKeyIsGreatest
  <2>3. after' \in Nat /\ after' > after /\ (\A k \in page : k \in Nat) /\ after \in Nat
    <3>1. \A k \in page : k \in Nat
      BY <1>1, BoundsAssumption
    <3>2. after \in Nat
      BY DEF ListingInv
    <3> QED
      BY <1>1, <2>1, <2>2, <3>1, <3>2
  <2>4. \A k \in listed' : k \in Nat /\ k <= after'
    BY <2>1, <2>2, <2>3 DEF ListingInv
  <2>5. \A k \in steady' : k <= after' => k \in listed'
    <3>1. SUFFICES ASSUME NEW k \in steady, k <= after' PROVE k \in listed'
      BY <1>3
    <3>2. k \in Selected(rows, query) /\ k \in Nat
      BY <1>2 DEF ListingInv
    <3>3. CASE k <= after
      BY <3>3, <2>1 DEF ListingInv
    <3>4. CASE after < k
      BY <3>1, <3>2, <3>4, <1>1, <2>1, <2>2
    <3> QED
      BY <3>2, <3>3, <3>4, <2>3
  <2>6. misplaced' = {}
    <3>1. \A k \in page, j \in listed : ~ (j >= k)
      BY <1>1, <2>3 DEF ListingInv
    <3> QED
      BY <2>1, <3>1 DEF ListingInv
  <2> QED
    BY <1>3, <2>1, <2>3, <2>4, <2>5, <2>6 DEF ListingInv
<1> QED
  BY <1>4, <1>5

\* A change takes from `steady` what is no longer selected.
LEMMA ChangeKeepsInv ==
    ASSUME ListingInv, NEW k \in Keys, NEW row \in Rows \cup {NoRow}, Change(k, row)
    PROVE  ListingInv'
<1>1. rows' \in [Keys -> Rows \cup {NoRow}]
  BY DEF ListingInv, Change
<1> QED
  BY <1>1 DEF ListingInv, Change

THEOREM ListingInvariant == ListingSpec => []ListingInv
<1>1. ASSUME ListingInv, [ListingNext]_listingVars
      PROVE  ListingInv'
  <2>1. CASE Fetch
    BY <1>1, <2>1, FetchKeepsInv
  <2>4. CASE Reject
    BY <1>1, <2>4 DEF ListingInv, Reject, Selected, SelectedRecords, SelectedItems
  <2>2. ASSUME NEW k \in Keys, NEW row \in Rows \cup {NoRow}, Change(k, row)
        PROVE  ListingInv'
    BY <1>1, <2>2, ChangeKeepsInv
  <2>3. CASE UNCHANGED listingVars
    BY <1>1, <2>3 DEF ListingInv, listingVars, Selected, SelectedRecords, SelectedItems
  <2> QED
    BY <1>1, <2>1, <2>2, <2>3, <2>4 DEF ListingNext
<1> QED
  BY <1>1, InitEstablishesInv, PTL DEF ListingSpec

\* A row that the query selects from the first page to the last is listed.
THEOREM NothingSteadyIsMissed == ListingSpec => []SteadyRowsListed
<1>1. ListingInv => SteadyRowsListed
  BY DEF ListingInv, SteadyRowsListed
<1> QED
  BY <1>1, ListingInvariant, PTL

\* No row is listed twice, and rows are listed in the order of their keys.
THEOREM NothingIsListedTwice == ListingSpec => []ListedInOrder
<1>1. ListingInv => ListedInOrder
  BY DEF ListingInv, ListedInOrder
<1> QED
  BY <1>1, ListingInvariant, PTL

\* A filter that JSONPathFilter.Validate accepts never fails in the store.
THEOREM ValidFiltersAreServed == ListingSpec => []ValidFilterServed
<1>1. ListingInv => ValidFilterServed
  BY DEF ListingInv, ValidFilterServed
<1> QED
  BY <1>1, ListingInvariant, PTL

-----------------------------------------------------------------------------
(***************************************************************************)
(* RecordFilter: how the path of a filter is cut. SplitJSONPath is a loop; *)
(* ReadSoFar is its invariant, and that it holds after every round is      *)
(* shown by the absence of a first round after which it does not.          *)
(***************************************************************************)

\* What SplitJSONPath has found before it reads anything.
Unread == [ok |-> TRUE, segments |-> <<>>, current |-> <<>>]

\* ReadUpTo is defined by recursion on the prefixes of the path; such a function
\* exists: otherwise there were a shortest prefix without one, and the function of
\* the prefix before it, extended by one round, would do.
LEMMA ReadingExists ==
    ASSUME NEW path, NEW len \in Nat
    PROVE  \E read : read = [n \in 0..len |->
                IF n = 0 THEN Unread ELSE ReadChar(read[n - 1], path[n])]
<1> DEFINE Reads(read, m) == read = [n \in 0..m |->
                IF n = 0 THEN Unread ELSE ReadChar(read[n - 1], path[n])]
           Bad == {m \in Nat : ~ \E read : Reads(read, m)}
<1>1. SUFFICES ASSUME Bad # {} PROVE FALSE
  OBVIOUS
<1>2. PICK m \in Bad : \A j \in Bad : m <= j
  <2> HIDE DEF Bad
  <2>1. Bad \in SUBSET Nat
    BY DEF Bad
  <2> QED
    BY <1>1, <2>1, LeastOf
<1>3. m \in Nat /\ ~ \E read : Reads(read, m)
  OBVIOUS
<1>4. CASE m = 0
  <2> DEFINE first == [n \in 0..0 |-> Unread]
  <2>1. Reads(first, 0)
    <3>1. \A n \in 0..0 : n = 0
      OBVIOUS
    <3> QED
      BY <3>1
  <2> QED
    BY <1>3, <1>4, <2>1
<1>5. CASE m # 0
  <2>1. m - 1 \in Nat /\ ~ (m <= m - 1)
    BY <1>3, <1>5
  <2>2. PICK g : Reads(g, m - 1)
    BY <1>2, <2>1
  <2> DEFINE last == ReadChar(g[m - 1], path[m])
             f == [n \in 0..m |-> IF n = m THEN last ELSE g[n]]
  <2>3. \A n \in 0..m : f[n] = IF n = 0 THEN Unread ELSE ReadChar(f[n - 1], path[n])
    <3> TAKE n \in 0..m
    <3>1. CASE n = 0
      <4>1. f[n] = g[0] /\ 0 \in 0..(m - 1)
        BY <1>3, <1>5, <3>1
      <4>2. g[0] = Unread
        BY <2>2, <4>1
      <4> QED
        BY <3>1, <4>1, <4>2
    <3>2. CASE n # 0 /\ n # m
      <4>1. n \in 0..(m - 1) /\ n - 1 \in 0..m /\ n - 1 # m
        BY <1>3, <3>2
      <4>2. g[n] = ReadChar(g[n - 1], path[n])
        BY <2>2, <3>2, <4>1
      <4>3. f[n] = g[n] /\ f[n - 1] = g[n - 1]
        BY <3>2, <4>1
      <4> QED
        BY <3>2, <4>2, <4>3
    <3>3. CASE n = m
      <4>1. n - 1 \in 0..m /\ n - 1 # m
        BY <1>3, <1>5, <3>3
      <4>2. f[n] = last /\ f[n - 1] = g[m - 1]
        BY <3>3, <4>1
      <4> QED
        BY <1>5, <3>3, <4>2
    <3> QED
      BY <3>1, <3>2, <3>3
  <2>4. Reads(f, m)
    <3>1. f = [n \in 0..m |-> f[n]]
      OBVIOUS
    <3> HIDE DEF f
    <3> QED
      BY <2>3, <3>1
  <2> QED
    BY <1>3, <2>4
<1> QED
  BY <1>4, <1>5

\* The loop, round by round.
LEMMA ReadRounds ==
    ASSUME NEW path, Len(path) \in Nat
    PROVE  /\ ReadUpTo(path)[0] = Unread
           /\ \A n \in 1..Len(path) :
                ReadUpTo(path)[n] = ReadChar(ReadUpTo(path)[n - 1], path[n])
<1> DEFINE r == ReadUpTo(path)
<1>1. \E read : read = [n \in 0..Len(path) |->
                IF n = 0 THEN Unread ELSE ReadChar(read[n - 1], path[n])]
  BY ReadingExists
<1>2. r = [n \in 0..Len(path) |->
                IF n = 0 THEN Unread ELSE ReadChar(r[n - 1], path[n])]
  BY <1>1 DEF ReadUpTo, Unread
<1> HIDE DEF r
<1>3. \A n \in 0..Len(path) : r[n] = IF n = 0 THEN Unread ELSE ReadChar(r[n - 1], path[n])
  BY <1>2
<1>4. 0 \in 0..Len(path) /\ \A n \in 1..Len(path) : n \in 0..Len(path) /\ n # 0
  OBVIOUS
<1> QED
  BY <1>3, <1>4 DEF r

\* The text after the boundary c, up to n; there is no other boundary in it.
TextSince(path, c, n, text) ==
    /\ c <= n
    /\ (c + 1)..n \cap Boundaries(path) = {}
    /\ text = SubSeq(path, c + 1, n)

\* What the loop knows after n characters of the path: whether two boundaries lie
\* next to each other, and otherwise the pieces up to the last one and the text
\* after it.
ReadSoFar(path, n, a) ==
    /\ a \in [ok : BOOLEAN, segments : Seq(Seq(Chars)), current : Seq(Chars)]
    /\ a.ok <=> ~ \E i \in 0..(n - 1) : i \in Boundaries(path) /\ i + 1 \in Boundaries(path)
    /\ a.ok => \E c \in Boundaries(path) :
                  CutUpTo(path, a.segments, c) /\ TextSince(path, c, n, a.current)

\* The places between 0 and the end of a path, where it is a boundary.
LEMMA BoundariesAre ==
    ASSUME NEW path \in Seq(Chars)
    PROVE  /\ Len(path) \in Nat
           /\ 0 \in Boundaries(path) /\ Len(path) + 1 \in Boundaries(path)
           /\ Boundaries(path) \subseteq 0..(Len(path) + 1)
           /\ \A i \in 1..Len(path) : i \in Boundaries(path) <=> path[i] = Dot
<1>1. Len(path) \in Nat
  BY LenProperties
<1>2. \A i \in 1..Len(path) : i \in 0..(Len(path) + 1) /\ i \notin {0, Len(path) + 1}
  BY <1>1
<1>3. 0 \in 0..(Len(path) + 1) /\ Len(path) + 1 \in 0..(Len(path) + 1)
  BY <1>1
<1> QED
  BY <1>1, <1>2, <1>3 DEF Boundaries

\* The piece between the boundary c and the next one, m.
NextPiece(path, c, m, piece) ==
    /\ c < m /\ m \in Boundaries(path)
    /\ (c + 1)..(m - 1) \cap Boundaries(path) = {}
    /\ piece = SubSeq(path, c + 1, m - 1)

\* One more piece after the last cut.
LEMMA CutOnceMore ==
    ASSUME NEW path \in Seq(Chars), NEW segments \in Seq(Seq(Chars)),
           NEW c, CutUpTo(path, segments, c),
           NEW m, NEW piece \in Seq(Chars), NextPiece(path, c, m, piece)
    PROVE  CutUpTo(path, Append(segments, piece), m)
<1> DEFINE z == Len(segments)
           more == Append(segments, piece)
<1>1. z \in Nat
  BY LenProperties
<1>2. /\ Len(more) = z + 1 /\ more[z + 1] = piece
      /\ \A k \in 1..z : more[k] = segments[k]
  BY AppendProperties
<1>3. PICK cut \in [0..z -> Boundaries(path)] :
        /\ cut[0] = 0 /\ cut[z] = c
        /\ \A k \in 1..z :
            /\ cut[k - 1] < cut[k]
            /\ (cut[k - 1] + 1)..(cut[k] - 1) \cap Boundaries(path) = {}
            /\ segments[k] = SubSeq(path, cut[k - 1] + 1, cut[k] - 1)
  BY DEF CutUpTo
<1> DEFINE longer == [k \in 0..(z + 1) |-> IF k = z + 1 THEN m ELSE cut[k]]
<1>4. /\ longer[z + 1] = m
      /\ \A k \in 0..z : longer[k] = cut[k] /\ k \in 0..(z + 1)
      /\ longer \in [0..(z + 1) -> Boundaries(path)]
  <2>1. \A k \in 0..z : k # z + 1 /\ k \in 0..(z + 1)
    BY <1>1
  <2>2. \A k \in 0..(z + 1) : k = z + 1 \/ k \in 0..z
    BY <1>1
  <2>3. z + 1 \in 0..(z + 1) /\ m \in Boundaries(path)
    BY <1>1 DEF NextPiece
  <2> QED
    BY <2>1, <2>2, <2>3
<1> HIDE DEF more, longer, z
<1>5. longer[0] = 0
  BY <1>1, <1>3, <1>4
<1>6. ASSUME NEW k \in 1..(z + 1)
      PROVE  /\ longer[k - 1] < longer[k]
             /\ (longer[k - 1] + 1)..(longer[k] - 1) \cap Boundaries(path) = {}
             /\ more[k] = SubSeq(path, longer[k - 1] + 1, longer[k] - 1)
  <2>1. CASE k = z + 1
    <3>1. k - 1 = z /\ z \in 0..z
      BY <1>1, <2>1
    <3>2. longer[k - 1] = c /\ longer[k] = m /\ more[k] = piece
      BY <1>2, <1>3, <1>4, <2>1, <3>1
    <3> QED
      BY <3>2 DEF NextPiece
  <2>2. CASE k # z + 1
    <3>1. k \in 1..z /\ k \in 0..z /\ k - 1 \in 0..z
      BY <1>1, <2>2
    <3>2. longer[k - 1] = cut[k - 1] /\ longer[k] = cut[k] /\ more[k] = segments[k]
      BY <1>2, <1>4, <3>1
    <3> QED
      BY <1>3, <3>1, <3>2
  <2> QED
    BY <2>1, <2>2
<1>7. CutUpTo(path, more, m)
  BY <1>2, <1>4, <1>5, <1>6 DEF CutUpTo
<1> QED
  BY <1>7 DEF more

\* Where the loop stands it has read nothing since the last boundary exactly when
\* it stands at one.
LEMMA CurrentIsEmpty ==
    ASSUME NEW path \in Seq(Chars), NEW n \in 0..Len(path),
           NEW c \in Boundaries(path), NEW current, TextSince(path, c, n, current)
    PROVE  /\ current = <<>> <=> n \in Boundaries(path)
           /\ n \in Boundaries(path) <=> c = n
           /\ current \in Seq(Chars)
<1>1. /\ Len(path) \in Nat /\ n \in Nat /\ c \in Nat /\ n <= Len(path)
      /\ \A i \in 1..Len(path) : path[i] \in Chars
  BY BoundariesAre, ElementOfSeq
<1> USE DEF TextSince
<1>2. n \in Boundaries(path) <=> c = n
  BY <1>1
<1>3. CASE c = n
  BY <1>1, <1>2, <1>3, SubSeqEmpty, EmptySeq
<1>4. CASE c < n
  <2>1. \A i \in (c + 1)..n : path[i] \in Chars
    BY <1>1
  <2>2. SubSeq(path, c + 1, n) \in Seq(Chars) /\ Len(SubSeq(path, c + 1, n)) = n - c
    BY <1>1, <1>4, <2>1, SubSeqProperties, c + 1 <= n, n - (c + 1) + 1 = n - c
  <2>3. current # <<>>
    BY <1>1, <1>4, <2>2, EmptySeq
  <2> QED
    BY <1>1, <1>2, <1>4, <2>2, <2>3
<1> QED
  BY <1>1, <1>3, <1>4

\* A round of the loop.
LEMMA RoundReadsOn ==
    ASSUME NEW path \in Seq(Chars), NEW n \in Nat, n < Len(path),
           NEW a, ReadSoFar(path, n, a)
    PROVE  ReadSoFar(path, n + 1, ReadChar(a, path[n + 1]))
<1> DEFINE ch == path[n + 1]
           b == ReadChar(a, ch)
           Adjacent(m) == \E i \in 0..(m - 1) : i \in Boundaries(path) /\ i + 1 \in Boundaries(path)
           States == [ok : BOOLEAN, segments : Seq(Seq(Chars)), current : Seq(Chars)]
<1> SUFFICES ReadSoFar(path, n + 1, b)
  OBVIOUS
<1>1. /\ Len(path) \in Nat /\ n \in 0..Len(path) /\ n + 1 \in 1..Len(path)
      /\ ch \in Chars /\ n + 1 \in Nat
      /\ Boundaries(path) \subseteq 0..(Len(path) + 1)
  BY BoundariesAre, ElementOfSeq
<1>2. ch = Dot <=> n + 1 \in Boundaries(path)
  BY <1>1, BoundariesAre
<1>3. a \in States /\ (a.ok <=> ~ Adjacent(n))
  BY DEF ReadSoFar
<1>4. Adjacent(n + 1) <=> Adjacent(n) \/ (n \in Boundaries(path) /\ n + 1 \in Boundaries(path))
  <2>1. \A i : i \in 0..(n + 1 - 1) <=> i \in 0..(n - 1) \/ i = n
    OBVIOUS
  <2> QED
    BY <2>1
<1>5. CASE ~ a.ok
  <2>1. b = [a EXCEPT !.ok = FALSE]
    BY <1>5 DEF ReadChar
  <2>2. b \in States /\ ~ b.ok
    BY <1>3, <2>1
  <2> QED
    BY <1>3, <1>4, <1>5, <2>2 DEF ReadSoFar
<1>6. CASE a.ok
  <2>1. PICK c \in Boundaries(path) :
          CutUpTo(path, a.segments, c) /\ TextSince(path, c, n, a.current)
    BY <1>6 DEF ReadSoFar
  <2>2. c \in Nat
    BY <1>1
  <2>3. /\ a.current = <<>> <=> n \in Boundaries(path)
        /\ n \in Boundaries(path) <=> c = n
    BY <1>1, <2>1, CurrentIsEmpty
  <2>4. CASE ch = Dot /\ a.current = <<>>
    <3>1. b = [a EXCEPT !.ok = FALSE]
      BY <2>4 DEF ReadChar
    <3>2. b \in States /\ ~ b.ok
      BY <1>3, <3>1
    <3>3. Adjacent(n + 1)
      BY <1>2, <1>4, <2>3, <2>4
    <3> QED
      BY <3>2, <3>3 DEF ReadSoFar
  <2>5. CASE ch = Dot /\ a.current # <<>>
    <3>1. b = [a EXCEPT !.segments = Append(@, a.current), !.current = <<>>]
      BY <1>6, <2>5 DEF ReadChar
    <3>2. /\ b \in States /\ b.ok /\ b.current = <<>>
          /\ b.segments = Append(a.segments, a.current)
      <4>1. Append(a.segments, a.current) \in Seq(Seq(Chars)) /\ <<>> \in Seq(Chars)
        BY <1>3, AppendProperties, EmptySeq
      <4> QED
        BY <1>3, <1>6, <3>1, <4>1
    <3>3. ~ Adjacent(n + 1)
      BY <1>3, <1>4, <1>6, <2>3, <2>5
    <3>4. CutUpTo(path, b.segments, n + 1)
      <4>1. (n + 1) - 1 = n /\ c < n + 1
        BY <1>1, <2>1, <2>2 DEF TextSince
      <4>2. NextPiece(path, c, n + 1, a.current)
        BY <1>2, <2>1, <2>5, <4>1 DEF NextPiece, TextSince
      <4>3. CutUpTo(path, Append(a.segments, a.current), n + 1)
        BY <1>3, <2>1, <4>2, CutOnceMore
      <4> QED
        BY <3>2, <4>3
    <3>5. n + 1 \in Boundaries(path) /\ TextSince(path, n + 1, n + 1, b.current)
      <4>1. /\ n + 1 <= n + 1
            /\ ((n + 1) + 1)..(n + 1) \cap Boundaries(path) = {}
            /\ b.current = SubSeq(path, (n + 1) + 1, n + 1)
        BY <1>1, <3>2, SubSeqEmpty
      <4> QED
        BY <1>2, <2>5, <4>1 DEF TextSince
    <3> HIDE DEF b
    <3> QED
      BY <3>2, <3>3, <3>4, <3>5 DEF ReadSoFar
  <2>6. CASE ch # Dot
    <3>1. b = [a EXCEPT !.current = Append(@, ch)]
      BY <1>6, <2>6 DEF ReadChar
    <3>2. /\ b \in States /\ b.ok /\ b.current = Append(a.current, ch)
          /\ b.segments = a.segments
      <4>1. Append(a.current, ch) \in Seq(Chars)
        BY <1>1, <1>3, AppendProperties
      <4> QED
        BY <1>3, <1>6, <3>1, <4>1
    <3>3. ~ Adjacent(n + 1)
      BY <1>2, <1>3, <1>4, <1>6, <2>6
    <3>4. (c + 1)..(n + 1) \cap Boundaries(path) = {} /\ c <= n + 1 /\ c <= n
      <4>1. \A i \in (c + 1)..(n + 1) : i \in (c + 1)..n \/ i = n + 1
        BY <1>1, <2>2
      <4> QED
        BY <1>2, <2>1, <2>2, <2>6, <4>1 DEF TextSince
    <3>5. b.current = SubSeq(path, c + 1, n + 1)
      <4>1. c + 1 \in 1..Len(path) /\ n + 1 \in (c + 1)..Len(path) /\ (n + 1) - 1 = n
        BY <1>1, <2>2, <3>4
      <4>2. SubSeq(path, c + 1, n + 1) = SubSeq(path, c + 1, n) \o <<ch>>
        BY <4>1, SubSeqRecursiveSecond
      <4>3. Append(a.current, ch) = a.current \o <<ch>>
        BY <1>1, <1>3, AppendIsConcat
      <4> QED
        BY <2>1, <3>2, <4>2, <4>3 DEF TextSince
    <3>6. CutUpTo(path, b.segments, c) /\ TextSince(path, c, n + 1, b.current)
      BY <2>1, <3>2, <3>4, <3>5 DEF TextSince
    <3> HIDE DEF b
    <3> QED
      BY <3>2, <3>3, <3>6 DEF ReadSoFar
  <2> QED
    BY <2>4, <2>5, <2>6
<1> QED
  BY <1>5, <1>6

\* The whole path read, the loop has cut it as it should.
LEMMA SplitCuts ==
    ASSUME NEW path \in Seq(Chars)
    PROVE  IF \E i \in Boundaries(path) : i + 1 \in Boundaries(path)
           THEN SplitPath(path) = <<>>
           ELSE CutUpTo(path, SplitPath(path), Len(path) + 1)
<1> DEFINE len == Len(path)
           r == ReadUpTo(path)
           end == r[len]
           Adjacent == \E i \in Boundaries(path) : i + 1 \in Boundaries(path)
<1>1. len \in Nat /\ Boundaries(path) \subseteq 0..(len + 1) /\ len + 1 \in Boundaries(path)
  BY BoundariesAre
<1>2. /\ r[0] = Unread
      /\ \A n \in 1..len : r[n] = ReadChar(r[n - 1], path[n])
  BY <1>1, ReadRounds
<1> HIDE DEF r
<1>3. ReadSoFar(path, len, end)
  <2> DEFINE Bad == {n \in Nat : n <= len /\ ~ ReadSoFar(path, n, r[n])}
  <2>1. SUFFICES ASSUME Bad # {} PROVE FALSE
    BY <1>1
  <2>2. PICK n \in Bad : \A j \in Bad : n <= j
    <3> HIDE DEF Bad
    <3>1. Bad \in SUBSET Nat
      BY DEF Bad
    <3> QED
      BY <2>1, <3>1, LeastOf
  <2>3. n \in Nat /\ n <= len /\ ~ ReadSoFar(path, n, r[n])
    OBVIOUS
  <2>4. CASE n = 0
    <3> DEFINE cut == [k \in 0..0 |-> 0]
    <3>1. /\ Unread \in [ok : BOOLEAN, segments : Seq(Seq(Chars)), current : Seq(Chars)]
          /\ Unread.ok /\ Unread.segments = <<>> /\ Unread.current = <<>>
          /\ Len(Unread.segments) = 0
      BY EmptySeq DEF Unread
    <3>2. cut \in [0..0 -> Boundaries(path)] /\ cut[0] = 0 /\ 1..0 = {}
      BY BoundariesAre
    <3>3. SubSeq(path, 1, 0) = <<>> /\ 0..(0 - 1) = {}
      BY SubSeqEmpty
    <3> HIDE DEF cut
    <3>4. CutUpTo(path, Unread.segments, 0)
      BY <3>1, <3>2 DEF CutUpTo
    <3>5. ReadSoFar(path, 0, Unread)
      <4>1. (0 + 1)..0 = {} /\ 0 + 1 = 1 /\ 0 \in Boundaries(path)
        BY BoundariesAre
      <4> QED
        BY <3>1, <3>3, <3>4, <4>1 DEF ReadSoFar, TextSince
    <3> QED
      BY <1>2, <2>3, <2>4, <3>5
  <2>5. CASE n # 0
    <3>1. n - 1 \in Nat /\ n - 1 < len /\ n \in 1..len /\ (n - 1) + 1 = n
      BY <1>1, <2>3, <2>5
    <3>2. ReadSoFar(path, n - 1, r[n - 1])
      <4>1. n - 1 <= len /\ ~ (n <= n - 1)
        BY <1>1, <3>1
      <4> QED
        BY <2>2, <3>1, <4>1
    <3>3. ReadSoFar(path, (n - 1) + 1, ReadChar(r[n - 1], path[(n - 1) + 1]))
      BY <3>1, <3>2, RoundReadsOn
    <3> QED
      BY <1>2, <2>3, <3>1, <3>3
  <2> QED
    BY <2>4, <2>5
<1>4. SplitPath(path) = IF end.ok /\ end.current # <<>> THEN Append(end.segments, end.current)
                        ELSE <<>>
  BY DEF SplitPath, r
<1>5. /\ end.segments \in Seq(Seq(Chars)) /\ end.current \in Seq(Chars)
      /\ end.ok <=> ~ \E i \in 0..(len - 1) : i \in Boundaries(path) /\ i + 1 \in Boundaries(path)
  BY <1>3 DEF ReadSoFar
<1>6. Adjacent <=> ~ end.ok \/ len \in Boundaries(path)
  <2>1. \A i \in Boundaries(path) : i + 1 \in Boundaries(path) => i \in 0..(len - 1) \/ i = len
    BY <1>1
  <2> QED
    BY <1>1, <1>5, <2>1
<1>7. CASE ~ end.ok
  BY <1>4, <1>6, <1>7
<1>8. CASE end.ok
  <2>1. PICK c \in Boundaries(path) :
          CutUpTo(path, end.segments, c) /\ TextSince(path, c, len, end.current)
    BY <1>3, <1>8 DEF ReadSoFar
  <2>2. end.current = <<>> <=> len \in Boundaries(path)
    <3>1. Len(path) \in 0..Len(path)
      BY <1>1
    <3> QED
      BY <2>1, <3>1, CurrentIsEmpty
  <2>3. CASE end.current = <<>>
    BY <1>4, <1>6, <2>2, <2>3
  <2>4. CASE end.current # <<>>
    <3>1. NextPiece(path, c, len + 1, end.current)
      <4>1. c < len + 1 /\ (len + 1) - 1 = len
        BY <1>1, <2>1 DEF TextSince
      <4> QED
        BY <1>1, <2>1, <4>1 DEF NextPiece, TextSince
    <3>2. CutUpTo(path, Append(end.segments, end.current), len + 1)
      BY <1>5, <2>1, <3>1, CutOnceMore
    <3>3. SplitPath(path) = Append(end.segments, end.current)
      BY <1>4, <1>8, <2>4
    <3>4. ~ Adjacent
      BY <1>6, <1>8, <2>2, <2>4
    <3> QED
      BY <3>2, <3>3, <3>4
  <2> QED
    BY <2>3, <2>4
<1> QED
  BY <1>7, <1>8

\* A path filter is refused exactly when a segment of its path is empty, and what
\* the store is given otherwise is the path cut at its dots (SplitJSONPath).
THEOREM PathsAreCutAtDots == ListingSpec => []SplitAtDots
<1>1. \A q \in Queries : q.filter.path \in Seq(Chars)
  BY ServedAssumption
<1>2. ListingInv => SplitAtDots
  BY <1>1, SplitCuts DEF ListingInv, SplitAtDots
<1> QED
  BY <1>2, ListingInvariant, PTL

=============================================================================
