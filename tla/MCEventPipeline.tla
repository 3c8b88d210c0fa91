--------------------------- MODULE MCEventPipeline ---------------------------
(***************************************************************************)
(* A small instance of EventPipeline: one record, so that all events race  *)
(* for its copy, one document (the record exists or does not), and two     *)
(* mutations, stamped at the times 0 and 1 in any order, for batches of    *)
(* one or two rows with two attempts each.                                 *)
(***************************************************************************)
EXTENDS EventPipeline

CONSTANTS r1, v1

MCRecords == {r1}
MCValues == {v1}
MCEventIds == 1..MaxRows

=============================================================================
