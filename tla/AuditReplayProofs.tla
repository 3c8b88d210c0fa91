------------------------- MODULE AuditReplayProofs -------------------------
(***************************************************************************)
(* A replay hands over what it promises, for any trail, any tenant, any    *)
(* page size and any number of mutations between its pages, and what it    *)
(* hands over has been brought to the current schema version.              *)
(***************************************************************************)
EXTENDS AuditReplay, FiniteSetTheorems, NaturalsInduction, TLAPS

-----------------------------------------------------------------------------
(***************************************************************************)
(* What Normalize returns, for any current version, any versions and any   *)
(* list of upcasters (the codec by itself).                                *)
(***************************************************************************)

\* The inductive invariant: next to the types and what is claimed of the end, the
\* version has not come past the current one, unless it was past it from the
\* start or some upcaster jumps.
CodecInv ==
    /\ CodecTypeOK
    /\ PayloadHasVersion
    /\ codec = "done" => v >= Current
    /\ start >= Current => v = start
    /\ start <= Current /\ WithinCurrent => v <= Current

LEMMA InitEstablishesInv == CodecInit => CodecInv
BY CodecAssumption DEF CodecInit, CodecInv, CodecTypeOK, PayloadHasVersion

\* A round of the loop keeps the invariant: the upcaster it uses reads the format
\* that the payload has.
LEMMA RoundKeepsInv ==
    ASSUME CodecInv, NEW i \in DOMAIN listed, UpcastOnce(i)
    PROVE  CodecInv'
<1>1. listed[i] \in Upcasters /\ listed[i].from = v /\ v < Current
  BY CodecAssumption DEF UpcastOnce, Positions, CodecInv, CodecTypeOK
<1>2. listed[i].to \in Versions /\ v' = listed[i].to /\ v' \in Int /\ v \in Int
  BY <1>1, CodecAssumption DEF UpcastOnce, Upcasters, CodecInv, CodecTypeOK
<1>3. payload' = v'
  BY <1>1 DEF UpcastOnce, Upcast, CodecInv, PayloadHasVersion
<1>4. UNCHANGED <<listed, start, codec>> /\ codec = "loop"
  BY DEF UpcastOnce
<1>5. CodecTypeOK'
  BY <1>2, <1>3, <1>4 DEF CodecInv, CodecTypeOK
<1>9. start \in Int /\ Current \in Int
  BY CodecAssumption DEF CodecInv, CodecTypeOK
<1>6. start < Current
  BY <1>1, <1>2, <1>9 DEF CodecInv
<1>7. WithinCurrent => v' <= Current
  BY <1>1, <1>2 DEF WithinCurrent
<1>8. WithinCurrent' = WithinCurrent
  BY <1>4 DEF WithinCurrent
<1> QED
  BY <1>3, <1>4, <1>5, <1>6, <1>7, <1>8, <1>9, CodecAssumption DEF CodecInv, PayloadHasVersion

\* So do the steps that end the loop.
LEMMA EndKeepsInv ==
    ASSUME CodecInv, Missing \/ UpcastFails \/ Finish
    PROVE  CodecInv'
<1>1. UNCHANGED <<listed, start, v, payload>> /\ codec' \in {"done", "failed"}
  BY DEF Missing, UpcastFails, Finish
<1>2. codec' = "done" => v >= Current
  BY DEF Missing, UpcastFails, Finish
<1>3. WithinCurrent' = WithinCurrent
  BY <1>1 DEF WithinCurrent
<1>4. CodecTypeOK'
  BY <1>1 DEF CodecInv, CodecTypeOK
<1> QED
  BY <1>1, <1>2, <1>3, <1>4 DEF CodecInv, PayloadHasVersion

\* Another call starts with a payload in the format of its version.
LEMMA CallKeepsInv ==
    ASSUME CodecInv, NEW w \in Versions, Normalize(w)
    PROVE  CodecInv'
<1>1. start' = w /\ v' = w /\ payload' = w /\ codec' = "loop" /\ listed' = listed
  BY DEF Normalize
<1>2. CodecTypeOK'
  BY <1>1 DEF CodecInv, CodecTypeOK
<1> QED
  BY <1>1, <1>2, CodecAssumption DEF CodecInv, PayloadHasVersion

\* The invariant holds in every state of Normalize (EventCodec.Normalize).
THEOREM CodecInvariant == CodecSpec => []CodecInv
<1>1. CodecInv /\ [CodecNext]_codecVars => CodecInv'
  <2> SUFFICES ASSUME CodecInv, [CodecNext]_codecVars PROVE CodecInv'
    OBVIOUS
  <2>1. CASE Round
    BY <2>1, RoundKeepsInv DEF Round
  <2>2. CASE Missing \/ UpcastFails \/ Finish
    BY <2>2, EndKeepsInv
  <2>3. ASSUME NEW w \in Versions, Normalize(w) PROVE CodecInv'
    BY <2>3, CallKeepsInv
  <2>4. CASE UNCHANGED codecVars
    BY <2>4 DEF codecVars, CodecInv, CodecTypeOK, PayloadHasVersion, WithinCurrent
  <2> QED
    BY <2>1, <2>2, <2>3, <2>4 DEF CodecNext, CodecStep
<1> QED
  BY InitEstablishesInv, <1>1, PTL DEF CodecSpec

\* The payload that EventCodec.Normalize holds always has the format its version
\* says, whatever upcasters it was given.
THEOREM PayloadKeepsVersion == CodecSpec => []PayloadHasVersion
<1>1. CodecInv => PayloadHasVersion
  BY DEF CodecInv
<1> QED
  BY CodecInvariant, <1>1, PTL

\* EventCodec.Normalize returns an event in the format that its version says, and an
\* older one in the current version if no upcaster jumps over that.
THEOREM NormalizeReturnsCurrent == CodecSpec => []NormalizedIsCurrent
<1>1. CodecInv => NormalizedIsCurrent
  <2> SUFFICES ASSUME CodecInv PROVE NormalizedIsCurrent
    OBVIOUS
  <2>1. v \in Int /\ start \in Int
    BY CodecAssumption DEF CodecInv, CodecTypeOK
  <2> QED
    BY <2>1, CodecAssumption DEF CodecInv, PayloadHasVersion, NormalizedIsCurrent
<1> QED
  BY CodecInvariant, <1>1, PTL

-----------------------------------------------------------------------------
(***************************************************************************)
(* The replay.                                                             *)
(***************************************************************************)

Expected == {i \in 1..horizon : trail[i].rec \in Owned}
Handed == {applied[n] : n \in DOMAIN applied}

\* An id that the cursor has not passed; 0 is no cursor.
Ahead(i) == afterID > 0 => i < afterID

Live == pc \in {"list", "next", "normalize", "done"}

StoreOK ==
    /\ value \in [Records -> Images]
    /\ version \in [Records -> Nat]
    /\ trail \in Seq(Events)

ReplayTypes ==
    /\ pc \in {"idle", "list", "next", "normalize", "done", "failed"}
    /\ afterID \in Nat
    /\ horizon \in 0..Len(trail)
    /\ applied \in Seq(Nat)

\* What has been handed over are the expected events that the cursor has passed.
CursorInv ==
    Live =>
      /\ applied = <<>> <=> afterID = 0
      /\ \A n \in DOMAIN applied : applied[n] \in Expected /\ applied[n] >= afterID
      /\ \A m, n \in DOMAIN applied : m < n => applied[m] > applied[n]
      /\ \A i \in Expected : ~ Ahead(i) => i \in Handed
      /\ pc = "done" => \A i \in Expected : ~ Ahead(i)

\* What is left of a page are the newest of the expected events ahead.
PageInv ==
    pc \in {"next", "normalize"} =>
      /\ page # {}
      /\ \A j \in page : j \in Expected /\ Ahead(j)
      /\ \A j \in page, i \in Expected : Ahead(i) /\ i >= j => i \in page

\* The inductive invariant.
ReplayInv == StoreOK /\ ReplayTypes /\ CursorInv /\ PageInv

-----------------------------------------------------------------------------
(***************************************************************************)
(* Pages.                                                                  *)
(***************************************************************************)

\* A set of naturals that is not empty has a least element.
LEMMA LeastOf ==
    ASSUME NEW S \in SUBSET Nat, S # {}
    PROVE  \E k \in S : \A j \in S : k <= j
<1> DEFINE Less == {p \in Nat \X Nat : p[1] < p[2]}
<1>1. IsWellFoundedOn(Less, Nat)
  BY NatLessThanWellFounded DEF OpToRel
<1>2. \A x, y \in Nat : x <= y \/ <<y, x>> \in Less
  OBVIOUS
<1> HIDE DEF Less
<1> QED
  BY <1>1, <1>2, WFMin

\* The greatest id of a set is one of its ids: the least of its upper bounds.
LEMMA MaxIsGreatest ==
    ASSUME NEW n \in Nat, NEW S \in SUBSET (1..n), S # {}
    PROVE  Max(S) \in S /\ \A j \in S : j <= Max(S)
<1> DEFINE Bounds == {k \in Nat : \A j \in S : j <= k}
<1>1. n \in Bounds
  OBVIOUS
<1>2. PICK k \in Bounds : \A m \in Bounds : k <= m
  BY <1>1, LeastOf
<1>3. k \in S
  <2>1. SUFFICES ASSUME k \notin S PROVE FALSE
    OBVIOUS
  <2>2. PICK i \in S : i <= k /\ i >= 1
    <3>1. \A i \in S : i <= k /\ i >= 1
      BY <1>2
    <3> QED
      BY <3>1
  <2>3. k - 1 \in Nat
    BY <1>2, <2>2
  <2>4. \A j \in S : j <= k - 1
    BY <1>2, <2>1
  <2> QED
    BY <2>3, <2>4, <1>2
<1>4. \A y \in S : k >= y
  BY <1>2
<1> QED
  BY <1>3, <1>4 DEF Max

\* A page holds the newest of the tenant's events ahead of the cursor, and some
\* of them unless there are none.
LEMMA PageIsNewest ==
    ASSUME NEW t \in Seq(Events), NEW cursor \in Nat, NEW limit \in Int
    PROVE  LET below == BelowCursor(t, Owned, cursor)
               newest == Page(t, Owned, cursor, limit)
           IN /\ newest \subseteq below
              /\ below # {} => newest # {}
              /\ \A j \in newest, i \in below : i >= j => i \in newest
<1> DEFINE B == BelowCursor(t, Owned, cursor)
           Above(i) == {j \in B : j > i}
<1>1. B \in SUBSET (1..Len(t)) /\ Len(t) \in Nat
  BY DEF BelowCursor
<1>2. IsFiniteSet(B)
  BY <1>1, FS_Interval, FS_Subset, 1 \in Int, Len(t) \in Int
<1>3. \A i : IsFiniteSet(Above(i)) /\ Cardinality(Above(i)) \in Nat
  BY <1>2, FS_Subset, FS_CardinalityType
<1>4. ClampLimit(limit) \in Nat \ {0}
  <2>1. \/ limit <= 0 /\ ~ (limit > 1000)
        \/ limit > 1000 /\ ~ (limit <= 0)
        \/ limit \in 1..1000 /\ ~ (limit <= 0) /\ ~ (limit > 1000)
    OBVIOUS
  <2>2. CASE limit <= 0 /\ ~ (limit > 1000)
    <3>1. ClampLimit(limit) = 100
      <4>1. limit <= 0 /\ ~ (limit > 1000) /\ limit \notin 1..1000
        BY <2>2
      <4> QED
        BY <4>1, Zenon DEF ClampLimit
    <3> QED
      BY <3>1
  <2>3. CASE limit > 1000 /\ ~ (limit <= 0)
    BY <2>3 DEF ClampLimit
  <2>4. CASE limit \in 1..1000 /\ ~ (limit <= 0) /\ ~ (limit > 1000)
    <3>1. ClampLimit(limit) = limit
      BY <2>4 DEF ClampLimit
    <3> QED
      BY <2>4, <3>1
  <2> QED
    BY <2>1, <2>2, <2>3, <2>4
<1>5. Page(t, Owned, cursor, limit) = {i \in B : Cardinality(Above(i)) < ClampLimit(limit)}
  BY DEF Page
<1> HIDE DEF B
<1>6. ASSUME B # {}
      PROVE  \E i \in B : Cardinality(Above(i)) < ClampLimit(limit)
  <2>1. PICK g \in B : \A j \in B : j <= g
    BY <1>1, <1>6, MaxIsGreatest
  <2>2. Above(g) = {}
    <3>1. B \subseteq Int
      BY <1>1
    <3>2. \A x, y \in Int : x <= y => ~ (x > y)
      OBVIOUS
    <3>3. \A j \in B : ~ (j > g)
      BY <2>1, <3>1, <3>2
    <3> QED
      BY <3>3
  <2>3. Cardinality(Above(g)) = 0
    BY <2>2, FS_EmptySet
  <2>4. 0 < ClampLimit(limit)
    BY <1>4
  <2> HIDE DEF Above
  <2> QED
    BY <2>1, <2>3, <2>4
<1>7. ASSUME NEW j \in B, NEW i \in B, Cardinality(Above(j)) < ClampLimit(limit), i >= j
      PROVE  Cardinality(Above(i)) < ClampLimit(limit)
  <2>1. Above(i) \subseteq Above(j)
    <3>1. B \subseteq Int /\ i \in Int /\ j \in Int
      BY <1>1
    <3>2. \A x \in Int : x > i => x > j
      BY <1>7, <3>1
    <3> QED
      BY <3>1, <3>2
  <2>2. Cardinality(Above(i)) <= Cardinality(Above(j))
    BY <1>3, <2>1, FS_Subset
  <2> HIDE DEF Above
  <2> QED
    BY <1>3, <1>4, <1>7, <2>2
<1> QED
  BY <1>5, <1>6, <1>7 DEF B

-----------------------------------------------------------------------------
(***************************************************************************)
(* Every step keeps the invariant.                                         *)
(***************************************************************************)

LEMMA InitEstablishesReplayInv == Init => ReplayInv
BY DEF Init, Store!Init, ReplayInv, StoreOK, ReplayTypes, CursorInv, PageInv, Live, Images

\* A mutation appends to the trail: what a replay expects stays the same.
LEMMA MutateKeepsInv ==
    ASSUME ReplayInv, Mutate
    PROVE  ReplayInv'
<1>1. PICK r \in Records, after \in Images : Store!Mutate(FreshId, r, after)
  BY DEF Mutate
<1>2. UNCHANGED replay
  BY DEF Mutate
<1>3. FreshId \in EventIds
  BY DEF Mutate, FreshId, UnusedIds
<1> DEFINE ev == Store!NewEvent(FreshId, r, version[r] + 1, value[r], after)
<1>4. ev \in Events
  <2>1. version[r] + 1 \in Nat /\ value[r] \in Images
    BY DEF ReplayInv, StoreOK
  <2>2. Store!ActionOf(value[r], after) \in Actions
    BY DEF Store!ActionOf, Actions
  <2> QED
    BY <1>3, <2>1, <2>2 DEF Store!NewEvent, Events
<1>5. /\ value' = [value EXCEPT ![r] = after]
      /\ version' = [version EXCEPT ![r] = @ + 1]
      /\ trail' = Append(trail, ev)
  BY <1>1 DEF Store!Mutate
<1> HIDE DEF ev
<1>6. StoreOK'
  BY <1>4, <1>5 DEF ReplayInv, StoreOK
<1>7. Len(trail') = Len(trail) + 1 /\ \A i \in 1..Len(trail) : trail'[i] = trail[i]
  BY <1>4, <1>5 DEF ReplayInv, StoreOK
<1>8. Len(trail) \in Nat
  BY DEF ReplayInv, StoreOK
<1>9. /\ pc' = pc /\ afterID' = afterID /\ page' = page
      /\ applied' = applied /\ horizon' = horizon
  BY <1>2 DEF replay
<1>10. ReplayTypes'
  BY <1>7, <1>8, <1>9 DEF ReplayInv, ReplayTypes
<1>11. Expected' = Expected
  <2>1. \A i \in 1..horizon : trail'[i] = trail[i]
    BY <1>7, <1>8 DEF ReplayInv, ReplayTypes
  <2> QED
    BY <1>9, <2>1 DEF Expected
<1>12. CursorInv' /\ PageInv'
  BY <1>9, <1>11 DEF ReplayInv, CursorInv, PageInv, Live, Ahead, Handed
<1> QED
  BY <1>6, <1>10, <1>12 DEF ReplayInv

\* A replay starts with nothing handed over.
LEMMA StartKeepsInv ==
    ASSUME ReplayInv, Start
    PROVE  ReplayInv'
<1>1. /\ UNCHANGED store /\ pc' = "list" /\ afterID' = 0 /\ applied' = <<>>
      /\ horizon' = 0
  BY DEF Start
<1>2. StoreOK' /\ ReplayTypes'
  BY <1>1 DEF ReplayInv, StoreOK, ReplayTypes, store
<1>3. Expected' = {}
  BY <1>1 DEF Expected
<1>4. CursorInv' /\ PageInv'
  BY <1>1, <1>3 DEF CursorInv, PageInv
<1> QED
  BY <1>2, <1>4 DEF ReplayInv

\* A page is read: it holds the newest events ahead, and if it is empty there are
\* none.
LEMMA ListKeepsInv ==
    ASSUME ReplayInv, List
    PROVE  ReplayInv'
<1> DEFINE below == BelowCursor(trail, Owned, afterID)
<1>1. /\ pc = "list" /\ UNCHANGED <<store, afterID, applied>>
      /\ page' = Page(trail, Owned, afterID, BatchSize)
      /\ pc' = (IF page' = {} THEN "done" ELSE "next")
      /\ horizon' = (IF afterID = 0 THEN Len(trail) ELSE horizon)
  BY DEF List
<1>2. trail \in Seq(Events) /\ Len(trail) \in Nat /\ afterID \in Nat /\ horizon \in 0..Len(trail)
      /\ trail' = trail
  BY <1>1 DEF ReplayInv, StoreOK, ReplayTypes, store
<1>3. StoreOK' /\ ReplayTypes'
  BY <1>1, <1>2 DEF ReplayInv, StoreOK, ReplayTypes, store
<1>4. afterID = 0 => Expected' = {i \in 1..Len(trail) : trail[i].rec \in Owned}
  BY <1>1, <1>2 DEF Expected
<1>5. afterID # 0 => Expected' = Expected /\ afterID <= horizon
  <2>1. afterID # 0 => horizon' = horizon /\ trail' = trail
    BY <1>1, <1>2
  <2>2. ASSUME afterID # 0 PROVE afterID <= horizon
    <3>1. applied # <<>> /\ applied \in Seq(Nat)
      BY <1>1, <2>2 DEF ReplayInv, CursorInv, Live, ReplayTypes
    <3>2. 1 \in DOMAIN applied
      BY <3>1
    <3>3. applied[1] \in 1..horizon /\ applied[1] >= afterID
      BY <1>1, <3>2 DEF ReplayInv, CursorInv, Live, Expected
    <3> QED
      BY <1>2, <3>3
  <2> QED
    BY <2>1, <2>2 DEF Expected
<1>6. \A i : i \in below <=> i \in Expected' /\ Ahead(i)
  <2>1. \A i : i \in below <=>
            i \in 1..Len(trail) /\ trail[i].rec \in Owned /\ (afterID > 0 => i < afterID)
    BY <1>2 DEF BelowCursor
  <2>2. CASE afterID = 0
    BY <1>4, <2>1, <2>2 DEF Ahead
  <2>3. CASE afterID # 0
    BY <1>2, <1>5, <2>1, <2>3 DEF Ahead, Expected
  <2> QED
    BY <2>2, <2>3
<1>7. /\ page' \subseteq below
      /\ below # {} => page' # {}
      /\ \A j \in page', i \in below : i >= j => i \in page'
  BY <1>1, <1>2, PageIsNewest, ReplayAssumption
<1> HIDE DEF below
<1>8. \A i : Ahead(i)' <=> Ahead(i)
  BY <1>1 DEF Ahead
<1>9. PageInv'
  BY <1>1, <1>6, <1>7, <1>8 DEF PageInv
<1>10. CursorInv'
  <2>1. pc' = "done" => \A i \in Expected' : ~ Ahead(i)
    BY <1>1, <1>6, <1>7
  <2>2. CASE afterID = 0
    <3>1. applied' = <<>> /\ afterID' = 0
      BY <1>1, <2>2 DEF ReplayInv, CursorInv, Live
    <3>2. \A i \in Expected' : Ahead(i)
      BY <2>2 DEF Ahead
    <3> QED
      BY <2>1, <3>1, <3>2, <1>8 DEF CursorInv
  <2>3. CASE afterID # 0
    <3>1. Expected' = Expected /\ Handed' = Handed /\ applied' = applied /\ afterID' = afterID
      BY <1>1, <1>5, <2>3 DEF Handed
    <3> QED
      BY <1>1, <2>1, <3>1, <1>8 DEF ReplayInv, CursorInv, Live
  <2> QED
    BY <2>2, <2>3
<1> QED
  BY <1>3, <1>9, <1>10 DEF ReplayInv

\* The event that is applied is the newest ahead.
LEMMA ApplyKeepsInv ==
    ASSUME ReplayInv, Apply
    PROVE  ReplayInv'
<1> DEFINE m == Max(page)
<1>1. /\ pc = "normalize" /\ UNCHANGED <<store, horizon>>
      /\ applied' = Append(applied, m) /\ afterID' = m /\ page' = page \ {m}
      /\ pc' = (IF page' = {} THEN "list" ELSE "next")
  BY DEF Apply
<1>2. /\ page # {} /\ \A j \in page : j \in Expected /\ Ahead(j)
      /\ \A j \in page, i \in Expected : Ahead(i) /\ i >= j => i \in page
  BY <1>1 DEF ReplayInv, PageInv
<1>3. afterID \in Nat /\ horizon \in Nat /\ applied \in Seq(Nat)
  BY DEF ReplayInv, ReplayTypes
<1>4. Expected \subseteq 1..horizon /\ Expected' = Expected
  BY <1>1 DEF Expected, store
<1>5. m \in page /\ \A j \in page : j <= m
  <2>1. page \in SUBSET (1..horizon)
    BY <1>2, <1>4
  <2> QED
    BY <1>2, <1>3, <2>1, MaxIsGreatest
<1> HIDE DEF m
<1>6. m \in Expected /\ Ahead(m) /\ m \in Nat /\ m > 0
  <2>1. m \in Expected /\ Ahead(m)
    BY <1>2, <1>5
  <2>2. m \in 1..horizon
    BY <1>4, <2>1
  <2> QED
    BY <1>3, <2>1, <2>2
<1>7. StoreOK' /\ ReplayTypes'
  <2>1. applied' \in Seq(Nat)
    BY <1>1, <1>3, <1>6
  <2> QED
    BY <1>1, <1>6, <2>1 DEF ReplayInv, StoreOK, ReplayTypes, store
<1>8. \A i : Ahead(i)' <=> i < m
  BY <1>1, <1>6 DEF Ahead
<1>9. PageInv'
  <2>1. \A j \in page' : j \in Expected /\ j < m
    BY <1>1, <1>2, <1>3, <1>4, <1>5, <1>6
  <2>2. ASSUME NEW j \in page', NEW i \in Expected, i < m, i >= j
        PROVE  i \in page'
    <3>1. i \in Nat /\ i # m
      BY <1>3, <1>4, <1>6, <2>2
    <3>2. Ahead(i)
      BY <1>3, <1>6, <2>2, <3>1 DEF Ahead
    <3> QED
      BY <1>1, <1>2, <2>2, <3>1, <3>2
  <2> QED
    BY <1>1, <1>4, <1>8, <2>1, <2>2 DEF PageInv
<1>10. /\ DOMAIN applied' = 1..(Len(applied) + 1) /\ DOMAIN applied = 1..Len(applied)
       /\ Len(applied) \in Nat /\ applied'[Len(applied) + 1] = m
       /\ \A n \in 1..Len(applied) : applied'[n] = applied[n]
  BY <1>1, <1>3, <1>6
<1>11. /\ \A n \in DOMAIN applied : applied[n] \in Expected /\ applied[n] > m
       /\ \A k, n \in DOMAIN applied : k < n => applied[k] > applied[n]
       /\ \A i \in Expected : ~ Ahead(i) => i \in Handed
  <2>1. /\ applied = <<>> <=> afterID = 0
        /\ \A n \in DOMAIN applied : applied[n] \in Expected /\ applied[n] >= afterID
        /\ \A k, n \in DOMAIN applied : k < n => applied[k] > applied[n]
        /\ \A i \in Expected : ~ Ahead(i) => i \in Handed
    BY <1>1 DEF ReplayInv, CursorInv, Live
  <2>2. ASSUME NEW n \in DOMAIN applied PROVE applied[n] > m
    <3>1. afterID # 0
      BY <1>10, <2>1, <2>2
    <3>2. m < afterID
      BY <1>3, <1>6, <3>1 DEF Ahead
    <3>3. applied[n] \in 1..horizon /\ applied[n] >= afterID
      BY <1>4, <2>1, <2>2
    <3> QED
      BY <1>3, <1>6, <3>2, <3>3
  <2> QED
    BY <2>1, <2>2
<1>12. \A n \in DOMAIN applied' : applied'[n] \in Expected /\ applied'[n] >= m
  BY <1>6, <1>10, <1>11, <1>3, <1>4
<1>13. \A k, n \in DOMAIN applied' : k < n => applied'[k] > applied'[n]
  <2> SUFFICES ASSUME NEW k \in DOMAIN applied', NEW n \in DOMAIN applied', k < n
               PROVE  applied'[k] > applied'[n]
    OBVIOUS
  <2>1. k \in DOMAIN applied /\ applied'[k] = applied[k]
    BY <1>10
  <2>2. CASE n = Len(applied) + 1
    BY <1>10, <1>11, <2>1, <2>2
  <2>3. CASE n # Len(applied) + 1
    BY <1>10, <1>11, <2>1, <2>3
  <2> QED
    BY <2>2, <2>3
<1>14. \A i \in Expected : ~ (i < m) => i \in Handed'
  <2> SUFFICES ASSUME NEW i \in Expected, ~ (i < m) PROVE i \in Handed'
    OBVIOUS
  <2>1. CASE Ahead(i)
    <3>1. i \in page /\ i \in Nat
      BY <1>2, <1>3, <1>4, <1>5, <1>6, <2>1
    <3>2. i = m
      BY <1>5, <1>6, <3>1
    <3>3. Len(applied) + 1 \in DOMAIN applied'
      BY <1>10
    <3> QED
      BY <1>10, <3>2, <3>3 DEF Handed
  <2>2. CASE ~ Ahead(i)
    <3>1. PICK n \in DOMAIN applied : applied[n] = i
      BY <1>11, <2>2 DEF Handed
    <3>2. n \in DOMAIN applied' /\ applied'[n] = i
      BY <1>10, <3>1
    <3> QED
      BY <3>2 DEF Handed
  <2> QED
    BY <2>1, <2>2
<1>15. applied' # <<>> /\ afterID' # 0 /\ pc' # "done"
  BY <1>1, <1>6, <1>10
<1>16. CursorInv'
  BY <1>1, <1>4, <1>8, <1>12, <1>13, <1>14, <1>15 DEF CursorInv
<1> QED
  BY <1>7, <1>9, <1>16 DEF ReplayInv

\* The other steps change neither the cursor, the page nor the trail.
LEMMA RestKeepsInv ==
    ASSUME ReplayInv, CallNormalize \/ Normalizing \/ Fail \/ GiveUp \/ UNCHANGED vars
    PROVE  ReplayInv'
<1>1. /\ UNCHANGED <<value, version, trail, afterID, page, applied, horizon>>
      /\ pc' = pc \/ (pc = "next" /\ pc' = "normalize") \/ pc' = "failed"
  BY DEF CallNormalize, Normalizing, Fail, GiveUp, vars, store, replay
<1>2. StoreOK' /\ ReplayTypes'
  BY <1>1 DEF ReplayInv, StoreOK, ReplayTypes
<1>3. Expected' = Expected /\ Handed' = Handed /\ \A i : Ahead(i)' <=> Ahead(i)
  BY <1>1 DEF Expected, Handed, Ahead
<1>4. CursorInv' /\ PageInv'
  BY <1>1, <1>3 DEF ReplayInv, CursorInv, PageInv, Live
<1> QED
  BY <1>2, <1>4 DEF ReplayInv

\* The invariant holds in every state of ReplayTenantEvents.
THEOREM ReplayInvariant == Spec => []ReplayInv
<1>1. ReplayInv /\ [Next]_vars => ReplayInv'
  BY MutateKeepsInv, StartKeepsInv, ListKeepsInv, ApplyKeepsInv, RestKeepsInv
     DEF Next, Proceed
<1> QED
  BY InitEstablishesReplayInv, <1>1, PTL DEF Spec

-----------------------------------------------------------------------------
(***************************************************************************)
(* The theorems.                                                           *)
(***************************************************************************)

\* ReplayTenantEvents hands over every event of the tenant exactly once, though the
\* trail grows between its pages.
THEOREM ReplayAppliesExactlyOnce == Spec => []AppliedExactlyOnce
<1>1. ReplayInv => AppliedExactlyOnce
  <2> SUFFICES ASSUME ReplayInv, Live
               PROVE  /\ Handed \subseteq Expected
                      /\ \A m, n \in DOMAIN applied : m # n => applied[m] # applied[n]
                      /\ pc = "done" => Handed = Expected
    BY DEF AppliedExactlyOnce, Live, Handed, Expected
  <2>1. /\ \A n \in DOMAIN applied : applied[n] \in Expected
        /\ \A m, n \in DOMAIN applied : m < n => applied[m] > applied[n]
        /\ \A i \in Expected : ~ Ahead(i) => i \in Handed
        /\ pc = "done" => \A i \in Expected : ~ Ahead(i)
    BY DEF ReplayInv, CursorInv
  <2>2. Handed \subseteq Expected
    BY <2>1 DEF Handed
  <2>3. ASSUME NEW m \in DOMAIN applied, NEW n \in DOMAIN applied, m # n
        PROVE  applied[m] # applied[n]
    <3>1. DOMAIN applied \subseteq Nat /\ applied[m] \in Nat /\ applied[n] \in Nat
      BY DEF ReplayInv, ReplayTypes
    <3>2. m < n \/ n < m
      BY <2>3, <3>1
    <3> QED
      BY <2>1, <3>1, <3>2
  <2>4. pc = "done" => Handed = Expected
    BY <2>1, <2>2
  <2> QED
    BY <2>2, <2>3, <2>4
<1> QED
  BY ReplayInvariant, <1>1, PTL

\* The replay uses the codec as it is meant to be used: with events of versions it
\* knows, one call after the other.
LEMMA ReplayDrivesCodec ==
    ASSUME ReplayInv, [Next]_vars
    PROVE  [CodecNext]_codecVars
<1>1. CASE CallNormalize
  <2>1. /\ pc = "next" /\ page # {}
        /\ \A j \in page : j \in 1..horizon /\ horizon \in 0..Len(trail) /\ trail \in Seq(Events)
    BY <1>1 DEF CallNormalize, ReplayInv, PageInv, Expected, ReplayTypes, StoreOK
  <2>2. page \in SUBSET (1..Len(trail)) /\ Len(trail) \in Nat
    BY <2>1
  <2>3. Max(page) \in 1..Len(trail)
    BY <2>1, <2>2, MaxIsGreatest
  <2>4. trail[Max(page)] \in Events
    BY <2>1, <2>3
  <2>5. WrittenAs[trail[Max(page)].event_id] \in Versions
    BY <2>4, ReplayAssumption DEF Events
  <2> QED
    BY <1>1, <2>5 DEF CallNormalize, CodecNext
<1>2. CASE Normalizing
  BY <1>2 DEF Normalizing, CodecNext
<1>3. CASE Mutate \/ Start \/ List \/ Apply \/ Fail \/ GiveUp \/ UNCHANGED vars
  BY <1>3 DEF Mutate, Start, List, Apply, Fail, GiveUp, vars
<1> QED
  BY <1>1, <1>2, <1>3 DEF Next, Proceed

\* ReplayTenantEvents implements the protocol of the codec.
THEOREM ReplayImplementsCodec == Spec => CodecSpec
<1>1. Init => CodecInit
  BY DEF Init
<1> QED
  BY <1>1, ReplayInvariant, ReplayDrivesCodec, PTL DEF Spec, CodecSpec

\* The events that a replay hands over are of the current schema version, unless
\* they are newer or an upcaster jumps over it.
THEOREM ReplayHandsOverCurrent == Spec => []NormalizedIsCurrent
BY ReplayImplementsCodec, NormalizeReturnsCurrent, PTL

\* The trail that a replay reads is written by the record log while it reads.
THEOREM ReplayReadsLog == Spec => Store!Spec
<1>1. Init => Store!Init
  BY DEF Init
<1>2. [Next]_vars => [Store!Next]_(Store!vars)
  <2> SUFFICES ASSUME [Next]_vars PROVE [Store!Next]_(Store!vars)
    OBVIOUS
  <2>1. CASE Mutate
    <3>1. PICK r \in Records, after \in Images : Store!Mutate(FreshId, r, after)
      BY <2>1 DEF Mutate
    <3>2. FreshId \in EventIds
      BY <2>1 DEF Mutate, FreshId, UnusedIds
    <3> QED
      BY <3>1, <3>2 DEF Store!Next, Store!Images, Images
  <2>2. CASE UNCHANGED store
    BY <2>2 DEF store, Store!vars
  <2>3. Start \/ Proceed \/ Fail \/ UNCHANGED vars => UNCHANGED store
    BY DEF Start, Proceed, List, CallNormalize, Normalizing, Apply, Fail, GiveUp, vars
  <2> QED
    BY <2>1, <2>2, <2>3 DEF Next
<1> QED
  BY <1>1, <1>2, PTL DEF Spec, Store!Spec

-----------------------------------------------------------------------------
(***************************************************************************)
(* Why a replay ends: there is always something it can do next, and what   *)
(* it has left only gets less. What ReplayEnds needs besides is that it    *)
(* goes on.                                                                *)
(***************************************************************************)

\* What the replay can do next.
CanGoOn ==
    \/ pc = "list"
    \/ pc = "next" /\ page # {}
    \/ pc = "normalize" /\ codec \in {"done", "failed"}
    \/ pc = "normalize" /\ codec = "loop" /\ v >= Current
    \/ pc = "normalize" /\ codec = "loop" /\ v < Current /\ Positions(v) = {}
    \/ /\ pc = "normalize" /\ codec = "loop" /\ v < Current
       /\ \E i \in DOMAIN listed : i \in Positions(v) /\ Effective(i)

\* A replay that has not ended is never stuck: it is not between two events without
\* having called Normalize, and if an upcaster is listed for a version, there is one
\* that counts.
NeverStuck == pc \in {"list", "next", "normalize"} => CanGoOn

\* The events that are still to be handed over.
Left == {i \in Expected : Ahead(i)}

\* How far the replay is with the next of them.
Stage ==
    CASE pc = "list" -> 4
      [] pc = "next" -> 3
      [] pc = "normalize" /\ codec = "loop" -> 2
      [] pc = "normalize" /\ codec # "loop" -> 1
      [] OTHER -> 0

FirstPage == pc = "list" /\ afterID = 0

\* After its first page every step of a replay hands over an event, or leaves fewer
\* steps for the next one, or is a round of Normalize's loop; a round comes to a
\* higher version, below the current one before, if the upcasters that count do so.
\* The events that other calls append do not give it more to do.
Advance ==
    /\ Proceed \/ Fail =>
          /\ ~ FirstPage'
          /\ FirstPage => Stage' < Stage
          /\ ~ FirstPage =>
                \/ Left' \subseteq Left /\ Left' # Left
                \/ Left' = Left /\ Stage' < Stage
                \/ Left' = Left /\ Stage' = Stage /\ v < Current /\ (Forward => v < v')
    /\ Mutate => UNCHANGED <<Left, Stage, v>>

OnlyAdvances == [][Advance]_vars

\* If an upcaster is listed for a version, the last one listed counts.
LEMMA LastOneCounts ==
    ASSUME CodecTypeOK, NEW w, Positions(w) # {}
    PROVE  \E i \in DOMAIN listed : i \in Positions(w) /\ Effective(i)
<1>1. listed \in Seq(Upcasters)
  BY CodecAssumption DEF CodecTypeOK
<1>2. DOMAIN listed = 1..Len(listed) /\ Len(listed) \in Nat
  BY <1>1
<1>3. Positions(w) \in SUBSET (1..Len(listed))
  BY <1>2 DEF Positions
<1>4. PICK i \in Positions(w) : \A j \in Positions(w) : j <= i
  BY <1>2, <1>3, MaxIsGreatest
<1>5. i \in DOMAIN listed /\ listed[i].from = w
  BY <1>4 DEF Positions
<1>6. \A j \in DOMAIN listed : listed[j].from = listed[i].from => j \in Positions(w)
  BY <1>5 DEF Positions
<1> QED
  BY <1>4, <1>5, <1>6 DEF Effective

\* Normalize is called before the replay waits for it, and not left again.
CalledInv == pc = "normalize" => codec # "idle"

LEMMA CalledStep == CalledInv /\ [Next]_vars => CalledInv'
<1> SUFFICES ASSUME CalledInv, [Next]_vars PROVE CalledInv'
  OBVIOUS
<1> USE DEF CalledInv
<1>1. CASE CallNormalize
  BY <1>1 DEF CallNormalize, Normalize
<1>2. CASE Normalizing
  <2>1. codec' = codec \/ codec' \in {"done", "failed"}
    BY <1>2 DEF Normalizing, CodecStep, Round, UpcastOnce, Missing, UpcastFails, Finish
  <2>2. pc' = pc
    BY <1>2 DEF Normalizing, replay
  <2> QED
    BY <2>1, <2>2
<1>3. CASE Mutate
  BY <1>3 DEF Mutate, replay, codecVars
<1>4. CASE Start \/ Fail \/ GiveUp
  BY <1>4 DEF Start, Fail, GiveUp
<1>5. CASE List \/ Apply
  BY <1>5 DEF List, Apply
<1>6. CASE UNCHANGED vars
  BY <1>6 DEF vars, replay, codecVars
<1> QED
  BY <1>1, <1>2, <1>3, <1>4, <1>5, <1>6 DEF Next, Proceed

THEOREM AlwaysCalled == Spec => []CalledInv
<1>1. Init => CalledInv
  BY DEF Init, CalledInv
<1> QED
  BY <1>1, CalledStep, PTL DEF Spec

\* ReplayTenantEvents is never stuck before its end, for any trail, any pages and
\* any list of upcasters.
THEOREM ReplayIsNeverStuck == Spec => []NeverStuck
<1>1. ReplayInv /\ CalledInv /\ CodecInv => NeverStuck
  <2> SUFFICES ASSUME ReplayInv, CalledInv, CodecInv, pc \in {"list", "next", "normalize"}
               PROVE  CanGoOn
    BY DEF NeverStuck
  <2>1. CASE pc = "list"
    BY <2>1 DEF CanGoOn
  <2>2. CASE pc = "next"
    BY <2>2 DEF CanGoOn, ReplayInv, PageInv
  <2>3. CASE pc = "normalize"
    <3>1. codec \in {"loop", "done", "failed"} /\ CodecTypeOK
      BY <2>3 DEF CalledInv, CodecInv, CodecTypeOK
    <3>2. v \in Int /\ Current \in Int
      BY <3>1, CodecAssumption DEF CodecTypeOK
    <3>3. v >= Current \/ v < Current
      BY <3>2
    <3>4. Positions(v) = {} \/ \E i \in DOMAIN listed : i \in Positions(v) /\ Effective(i)
      BY <3>1, LastOneCounts
    <3> QED
      BY <2>3, <3>1, <3>3, <3>4 DEF CanGoOn
  <2> QED
    BY <2>1, <2>2, <2>3
<1> QED
  BY <1>1, ReplayInvariant, AlwaysCalled, ReplayImplementsCodec, CodecInvariant, PTL

\* What Apply hands over is one of the events that are left, and the last of them
\* that the cursor has passed.
LEMMA ApplyHandsOver ==
    ASSUME ReplayInv, Apply
    PROVE  Left' \subseteq Left /\ Left' # Left /\ ~ FirstPage'
<1>0. PICK m : m = Max(page)
  OBVIOUS
<1>1. /\ pc = "normalize" /\ UNCHANGED <<store, horizon>> /\ afterID' = m
  BY <1>0 DEF Apply
<1>2. page # {} /\ \A j \in page : j \in Expected /\ Ahead(j)
  BY <1>1 DEF ReplayInv, PageInv
<1>3. afterID \in Nat /\ horizon \in Nat
  BY DEF ReplayInv, ReplayTypes
<1>4. Expected \subseteq 1..horizon /\ Expected' = Expected
  BY <1>1 DEF Expected, store
<1>5. m \in page
  <2>1. page \in SUBSET (1..horizon)
    BY <1>2, <1>4
  <2> QED
    BY <1>0, <1>2, <1>3, <2>1, MaxIsGreatest
<1>6. m \in Expected /\ Ahead(m) /\ m \in 1..horizon
  BY <1>2, <1>4, <1>5
<1>7. m \in Nat /\ m > 0
  BY <1>3, <1>6
<1>8. \A i \in Expected : Ahead(i)' => Ahead(i)
  <2> SUFFICES ASSUME NEW i \in Expected, Ahead(i)' PROVE Ahead(i)
    OBVIOUS
  <2>1. i \in Nat /\ i < m
    BY <1>1, <1>3, <1>4, <1>7 DEF Ahead
  <2> QED
    BY <1>3, <1>6, <1>7, <2>1 DEF Ahead
<1>9. ~ Ahead(m)'
  BY <1>1, <1>3, <1>4, <1>6, <1>7 DEF Ahead
<1>10. ~ FirstPage'
  BY <1>1, <1>7 DEF FirstPage
<1> QED
  BY <1>4, <1>6, <1>8, <1>9, <1>10 DEF Left

\* The other steps of a replay hand over nothing and come closer to the next event,
\* except that a round of the loop only comes to the next version.
LEMMA OthersComeCloser ==
    ASSUME ReplayInv, CodecInv, List \/ CallNormalize \/ Normalizing \/ GiveUp \/ Fail
    PROVE  /\ ~ FirstPage'
           /\ ~ FirstPage => Left' = Left
           /\ \/ Stage' < Stage
              \/ Stage' = Stage /\ ~ FirstPage /\ v < Current /\ (Forward => v < v')
<1>1. CASE List
  <2>1. /\ pc = "list" /\ pc' \in {"next", "done"} /\ UNCHANGED <<store, afterID>>
        /\ afterID # 0 => horizon' = horizon
    BY <1>1 DEF List
  <2>2. Stage = 4 /\ Stage' \in {0, 3}
    BY <2>1 DEF Stage
  <2>3. ~ FirstPage'
    BY <2>1 DEF FirstPage
  <2>4. ~ FirstPage => Left' = Left
    BY <2>1 DEF FirstPage, Left, Expected, Ahead, store
  <2> QED
    BY <2>2, <2>3, <2>4
<1>2. CASE CallNormalize
  <2>1. pc = "next" /\ pc' = "normalize" /\ codec' = "loop" /\ UNCHANGED <<store, afterID, horizon>>
    BY <1>2 DEF CallNormalize, Normalize
  <2>2. Stage = 3 /\ Stage' = 2
    BY <2>1 DEF Stage
  <2> QED
    BY <2>1, <2>2 DEF FirstPage, Left, Expected, Ahead, store
<1>3. CASE Normalizing
  <2>1. pc = "normalize" /\ pc' = pc /\ UNCHANGED <<store, afterID, horizon>> /\ CodecStep
    BY <1>3 DEF Normalizing, replay
  <2>2. ~ FirstPage /\ ~ FirstPage' /\ Left' = Left
    BY <2>1 DEF FirstPage, Left, Expected, Ahead, store
  <2>3. CASE Missing \/ UpcastFails \/ Finish
    <3>1. codec = "loop" /\ codec' # "loop"
      BY <2>3 DEF Missing, UpcastFails, Finish
    <3>2. Stage = 2 /\ Stage' = 1
      BY <2>1, <3>1 DEF Stage
    <3> QED
      BY <2>2, <3>2
  <2>4. CASE Round
    <3>1. PICK i \in DOMAIN listed : UpcastOnce(i)
      BY <2>4 DEF Round
    <3>2. /\ codec = "loop" /\ codec' = "loop" /\ v < Current
          /\ listed[i].from = v /\ Effective(i) /\ v' = listed[i].to
      BY <3>1 DEF UpcastOnce, Positions
    <3>3. Stage' = Stage
      BY <2>1, <3>2 DEF Stage
    <3>4. listed \in Seq(Upcasters) /\ v \in Int
      BY CodecAssumption DEF CodecInv, CodecTypeOK
    <3>8. listed[i] \in Upcasters
      BY <3>4
    <3>5. listed[i].to \in Int
      BY <3>8, CodecAssumption DEF Upcasters
    <3>6. Forward => listed[i].to > listed[i].from
      BY <3>2 DEF Forward
    <3>7. Forward => v < v'
      BY <3>2, <3>4, <3>5, <3>6
    <3> QED
      BY <2>2, <3>2, <3>3, <3>7
  <2> QED
    BY <2>1, <2>3, <2>4 DEF CodecStep
<1>4. CASE GiveUp \/ Fail
  <2>1. /\ pc \in {"list", "normalize"} /\ pc' = "failed"
        /\ UNCHANGED <<store, afterID, horizon>>
    BY <1>4 DEF GiveUp, Fail
  <2>2. Stage \in {4, 2, 1} /\ Stage' = 0
    BY <2>1 DEF Stage
  <2>3. Left' = Left /\ ~ FirstPage'
    BY <2>1 DEF FirstPage, Left, Expected, Ahead, store
  <2> QED
    BY <2>2, <2>3
<1> QED
  BY <1>1, <1>2, <1>3, <1>4

\* What other calls append is not for this replay.
LEMMA MutationsAreLater ==
    ASSUME ReplayInv, ReplayInv', Mutate
    PROVE  UNCHANGED <<Left, Stage, v>>
<1>1. UNCHANGED <<codecVars, replay>>
  BY DEF Mutate
<1>2. UNCHANGED <<pc, codec, v, afterID, horizon>>
  BY <1>1 DEF codecVars, replay
<1>3. PICK r \in Records, after \in Images : Store!Mutate(FreshId, r, after)
  BY DEF Mutate
<1>4. trail \in Seq(Events) /\ horizon \in 0..Len(trail) /\ trail' \in Seq(Events)
  BY DEF ReplayInv, StoreOK, ReplayTypes
<1> DEFINE ev == Store!NewEvent(FreshId, r, version[r] + 1, value[r], after)
<1>5. trail' = Append(trail, ev)
  BY <1>3 DEF Store!Mutate
<1> HIDE DEF ev
<1>6. \A i \in 1..horizon : trail'[i] = trail[i]
  BY <1>4, <1>5
<1>7. Expected' = Expected
  BY <1>2, <1>6 DEF Expected
<1>8. Left' = Left
  BY <1>2, <1>7 DEF Left, Ahead
<1> QED
  BY <1>2, <1>8 DEF Stage

\* A replay only advances: ReplayTenantEvents hands over an event, comes closer to the
\* next one or to the current schema version, and is given nothing more to do.
THEOREM ReplayOnlyAdvances == Spec => OnlyAdvances
<1>1. ASSUME ReplayInv, ReplayInv', CodecInv, Next
      PROVE  Advance
  <2>1. Mutate => UNCHANGED <<Left, Stage, v>>
    BY <1>1, MutationsAreLater
  <2>2. CASE List \/ CallNormalize \/ Normalizing \/ GiveUp \/ Fail
    BY <1>1, <2>1, <2>2, OthersComeCloser DEF Advance
  <2>3. CASE Apply
    <3>1. ~ FirstPage
      BY <2>3 DEF Apply, FirstPage
    <3> QED
      BY <1>1, <2>1, <2>3, <3>1, ApplyHandsOver DEF Advance
  <2>4. CASE ~ (Proceed \/ Fail)
    BY <2>1, <2>4 DEF Advance
  <2> QED
    BY <2>2, <2>3, <2>4 DEF Proceed
<1>2. ReplayInv /\ ReplayInv' /\ CodecInv /\ [Next]_vars => [Advance]_vars
  BY <1>1
<1> QED
  BY <1>2, ReplayInvariant, ReplayImplementsCodec, CodecInvariant, PTL DEF Spec, OnlyAdvances

=============================================================================
