---------------------------- MODULE MCAuditReplay ----------------------------
(***************************************************************************)
(* A small instance of AuditReplay: a record of the tenant and one of      *)
(* another tenant, four mutations, pages of two events and two replays.    *)
(* The current schema version is 3; the events are of older, of the        *)
(* current and of a newer version, and the upcasters are any two between   *)
(* these versions, or none: there may be gaps, jumps and loops.            *)
(***************************************************************************)
EXTENDS AuditReplay

CONSTANTS r1, other, v1

MCOwned == {r1}
MCRecords == {r1, other}
MCValues == {v1}
MCEventIds == 1..4

MCVersions == 1..4
MCWrittenAs == <<1, 3, 2, 4>>
\* Two of the events are committed in the other order than they were stamped.
MCOccurredAt == <<1, 3, 2, 4>>
MCOlder == [from : {1, 2}, to : MCVersions]
MCRegistries == {<<>>} \cup {<<u>> : u \in MCOlder} \cup {<<u, w>> : u, w \in MCOlder}

=============================================================================
