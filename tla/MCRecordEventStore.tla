------------------------- MODULE MCRecordEventStore -------------------------
(***************************************************************************)
(* A small instance of RecordEventStore: two records, two documents, three *)
(* mutations of any kind (so that a record can be created, updated and     *)
(* deleted, or all three race for one record) and one fault, anywhere.     *)
(***************************************************************************)
EXTENDS RecordEventStore, TLC

CONSTANTS r1, r2, v1, v2, q1, q2, q3

MCRecords == {r1, r2}
MCValues == {v1, v2}
MCRequests == {q1, q2, q3}

=============================================================================
