-------------------------- MODULE MCBulkIdempotency --------------------------
(***************************************************************************)
(* A small instance of BulkIdempotency: three calls (a request, its retry  *)
(* and a call with another list or to the other endpoint) and two faults.  *)
(* A scope and a list may be taken by any number of the calls.             *)
(***************************************************************************)
EXTENDS BulkIdempotency, TLC

CONSTANTS c1, c2, c3

MCCalls == {c1, c2, c3}
MCScopes == {"upsert", "delete"}
MCLists == {<<"a", "b">>, <<"b">>}

\* Calls differ only in their names.
MCSymmetry == Permutations(MCCalls)

=============================================================================
