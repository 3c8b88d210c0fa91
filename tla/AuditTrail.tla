----------------------------- MODULE AuditTrail -----------------------------
(***************************************************************************)
(* Reading the audit trail: AuditService.List over                         *)
(* AuditTrailRepository.List (internal/core/usecase/audit_service.go,      *)
(* internal/adapters/sqlite/event_repositories.go). The id of an event is  *)
(* its position in the trail; a page is the set of its ids, served from    *)
(* the highest down.                                                       *)
(***************************************************************************)
EXTENDS Integers, Sequences, FiniteSets

\* AuditService.List: the limit that is used for a requested one.
ClampLimit(limit) ==
    CASE limit <= 0 -> 100
      [] limit > 1000 -> 1000
      [] limit \in 1..1000 -> limit

\* Mutant: the cursor itself is served again.
UpToCursor(trail, owned, after) ==
    {i \in DOMAIN trail : trail[i].rec \in owned /\ (after > 0 => i <= after)}

\* The events of a tenant's records below the cursor; 0 is no cursor.
BelowCursor(trail, owned, after) ==
    {i \in DOMAIN trail : trail[i].rec \in owned /\ (after > 0 => i < after)}

\* AuditTrailRepository.List: ORDER BY id DESC LIMIT.
Page(trail, owned, after, limit) ==
    LET below == BelowCursor(trail, owned, after)
    IN {i \in below : Cardinality({j \in below : j > i}) < ClampLimit(limit)}

=============================================================================
