----------------------------- MODULE MCPowerLoss -----------------------------
(***************************************************************************)
(* A small instance of PowerLoss: one record with one document (it exists  *)
(* or does not), three mutations and two power failures, so that a version *)
(* is given out again and lost once more.                                  *)
(***************************************************************************)
EXTENDS PowerLoss

CONSTANTS r1, v1

MCRecords == {r1}
MCValues == {v1}
MCEventIds == 1..MaxEvents

=============================================================================
