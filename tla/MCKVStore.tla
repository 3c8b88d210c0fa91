----------------------------- MODULE MCKVStore -----------------------------
(***************************************************************************)
(* A small instance of KVStore: two keys, three requests of any kind and   *)
(* one fault, anywhere. One content is enough: the timestamps tell which   *)
(* put wrote a row.                                                        *)
(***************************************************************************)
EXTENDS KVStore, TLC

CONSTANTS k1, k2, v1

MCKeys == {k1, k2}
MCContents == {v1}

=============================================================================
