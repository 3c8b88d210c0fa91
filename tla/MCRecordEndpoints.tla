-------------------------- MODULE MCRecordEndpoints --------------------------
(***************************************************************************)
(* A small instance of RecordEndpoints: three calls, single ones on one    *)
(* record and bulk ones with two items, one of which names it twice.       *)
(* One document is enough: the times tell which call wrote a row.          *)
(***************************************************************************)
EXTENDS RecordEndpoints

CONSTANTS r1, r2, v1

MCRecords == {r1, r2}
MCValues == {v1}

Put(r) == [rec |-> r, after |-> v1]
Remove(r) == [rec |-> r, after |-> NoValue]

MCBodies == {<<Put(r1)>>, <<Remove(r1)>>, <<Put(r2), Put(r1)>>, <<Remove(r1), Remove(r1)>>}

MCEventIds == 1..6

=============================================================================
