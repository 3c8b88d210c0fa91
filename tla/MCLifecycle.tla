---------------------------- MODULE MCLifecycle ----------------------------
(***************************************************************************)
(* A small instance of Lifecycle: two requests, four tenants, two runs,    *)
(* two migrations and two faults.                                          *)
(*                                                                         *)
(* The names of KeySpace are chosen to be mistaken for one another: of the *)
(* four tenants one is a path below another and one is "idempotency" (the  *)
(* letter i), collections begin like each other, ids and tokens have       *)
(* slashes, an item is called "idempotency" and may have the category of a *)
(* collection.                                                             *)
(***************************************************************************)
EXTENDS KeySpace

CONSTANTS r1, r2

MCRequests == {r1, r2}

MCLetters == {"a", "b", "i"}
MCIdempotency == <<"i">>
MCTenants == {<<"a">>, <<"a", "/", "b">>, <<"b">>, <<"i">>}
MCCollections == {<<"b">>, <<"b", "a">>}
MCIds == {<<"b">>, <<"b", "/", "b">>, <<"b", "/", "b", "/", "b">>}
MCAskedPrefixes == {<<>>, <<"b", "/">>}
MCOperations == {<<"b">>}
MCTokens == {<<"b">>, <<"b", "/", "b">>}
MCItemKeys == {<<"i">>}
MCItemCategories == {<<"a", "/", "b">>}

=============================================================================
