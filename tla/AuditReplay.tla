---------------------------- MODULE AuditReplay ----------------------------
(***************************************************************************)
(* internal/core/usecase/replay.go: ReplayTenantEvents pages through the   *)
(* audit trail of one tenant, brings every event to the current schema     *)
(* version (EventCodec) and hands it to a projection, while the record     *)
(* store (RecordLog) goes on appending events of this and of other         *)
(* tenants. A replay may fail at any event and is then run again.          *)
(***************************************************************************)
EXTENDS AuditTrail, EventCodec, RecordEvents

CONSTANTS
    Owned,      \* the records of the tenant
    WrittenAs,  \* the schema version that every event was written with
    OccurredAt, \* the time that every event was stamped with
    BatchSize,  \* batchSize
    MaxRuns     \* bound: replays in a behaviour

ASSUME ReplayAssumption ==
    /\ Owned \subseteq Records
    /\ WrittenAs \in [EventIds -> Versions]
    /\ OccurredAt \in [EventIds -> Nat]
    /\ BatchSize \in Int
    /\ MaxRuns \in Nat

VARIABLES
    value, version, trail, outbox, \* the record store
    pc,         \* where the replay is
    afterID,    \* its cursor
    page,       \* the events of the current page it has not applied
    runs,       \* replays so far
    \* History, which the code does not keep:
    applied,    \* the events this replay has applied, in order
    horizon     \* the length of the trail when it read its first page

store == <<value, version, trail, outbox>>
replay == <<pc, afterID, page, runs, applied, horizon>>
vars == <<store, codecVars, replay>>

Store == INSTANCE RecordLog

Init ==
    /\ Store!Init
    /\ CodecInit
    /\ pc = "idle"
    /\ afterID = 0
    /\ page = {}
    /\ runs = 0
    /\ applied = <<>>
    /\ horizon = 0

\* uuid.NewString: an id that no event has. Which one does not matter.
UnusedIds == EventIds \ {trail[i].event_id : i \in DOMAIN trail}
FreshId == CHOOSE e \in UnusedIds : TRUE

\* The record store commits a mutation.
Mutate ==
    /\ UnusedIds # {}
    /\ \E r \in Records, after \in Images : Store!Mutate(FreshId, r, after)
    /\ UNCHANGED <<codecVars, replay>>

\* ReplayTenantEvents is called.
Start ==
    /\ pc \in {"idle", "done", "failed"}
    /\ runs < MaxRuns
    /\ pc' = "list"
    /\ afterID' = 0
    /\ page' = {}
    /\ runs' = runs + 1
    /\ applied' = <<>>
    /\ horizon' = 0
    /\ UNCHANGED <<store, codecVars>>

\* audit.List returns the next page; an empty one ends the replay.
List ==
    /\ pc = "list"
    /\ page' = Page(trail, Owned, afterID, BatchSize)
    /\ pc' = IF page' = {} THEN "done" ELSE "next"
    /\ horizon' = IF afterID = 0 THEN Len(trail) ELSE horizon
    /\ UNCHANGED <<store, codecVars, afterID, runs, applied>>

\* The next event of the page is given to Normalize ...
CallNormalize ==
    /\ pc = "next"
    /\ Normalize(WrittenAs[trail[Max(page)].event_id])
    /\ pc' = "normalize"
    /\ UNCHANGED <<store, afterID, page, runs, applied, horizon>>

Normalizing ==
    /\ pc = "normalize"
    /\ CodecStep
    /\ UNCHANGED <<store, replay>>

\* Mutant: the cursor is not moved.
ApplyKeepsCursor ==
    /\ pc = "normalize"
    /\ codec = "done"
    /\ applied' = <<Max(page)>>
    /\ page' = page \ {Max(page)}
    /\ pc' = IF page' = {} THEN "list" ELSE "next"
    /\ UNCHANGED <<store, codecVars, afterID, runs, horizon>>

\* ... and what it returns to applyFn; then the cursor moves to the event.
Apply ==
    /\ pc = "normalize"
    /\ codec = "done"
    /\ applied' = Append(applied, Max(page))
    /\ afterID' = Max(page)
    /\ page' = page \ {Max(page)}
    /\ pc' = IF page' = {} THEN "list" ELSE "next"
    /\ UNCHANGED <<store, codecVars, runs, horizon>>

\* Listing or applying an event returns an error, and so does the replay.
Fail ==
    /\ pc = "list" \/ (pc = "normalize" /\ codec = "done")
    /\ pc' = "failed"
    /\ UNCHANGED <<store, codecVars, afterID, page, runs, applied, horizon>>

\* Normalize returns an error, and so does the replay.
GiveUp ==
    /\ pc = "normalize"
    /\ codec = "failed"
    /\ pc' = "failed"
    /\ UNCHANGED <<store, codecVars, afterID, page, runs, applied, horizon>>

Proceed == List \/ CallNormalize \/ Normalizing \/ Apply \/ GiveUp

Next == Mutate \/ Start \/ Proceed \/ Fail

\* The replay goes on; nobody has to write, to start a replay or to fail.
Spec == Init /\ [][Next]_vars /\ WF_vars(Proceed)

-----------------------------------------------------------------------------
(***************************************************************************)
(* Properties.                                                             *)
(***************************************************************************)

\* A replay hands over every event that the tenant had when it read its first
\* page, each of them once, and no event of another tenant or of a later time,
\* though the trail grows between its pages and wherever the page boundaries fall.
AppliedExactlyOnce ==
    LET expected == {i \in 1..horizon : trail[i].rec \in Owned}
        done == {applied[n] : n \in DOMAIN applied}
    IN pc \in {"list", "next", "normalize", "done"} =>
         /\ done \subseteq expected
         /\ \A m, n \in DOMAIN applied : m # n => applied[m] # applied[n]
         /\ pc = "done" => done = expected

\* "Replay consumes events in stable order (`occurred_at`, then `event_id`)."
\* (specs/phase2/replay-projection.md:9): an event is never handed over after one
\* that was stamped later.
HandedInStableOrder ==
    \A m, n \in DOMAIN applied : m < n =>
        OccurredAt[trail[applied[m]].event_id] <= OccurredAt[trail[applied[n]].event_id]

\* A replay comes to its end, though the trail may grow at any time, if the
\* upcasters that count lead to higher versions. (Otherwise Normalize may go round
\* for ever.)
ReplayEnds == (Forward /\ pc = "list") ~> pc \in {"done", "failed"}

=============================================================================
