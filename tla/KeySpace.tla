------------------------------ MODULE KeySpace ------------------------------
(***************************************************************************)
(* The keys of kv_entries. Records (recordKey of                           *)
(* internal/adapters/sqlite/record_event_store.go), stored responses       *)
(* (idempotencyKey of internal/adapters/httpapi/handler.go) and KV items   *)
(* (the key of the URL) are rows of one table, told apart by nothing but   *)
(* how their names are joined with slashes.                                *)
(*                                                                         *)
(* A string is a sequence of characters. Only the slash matters: a name    *)
(* that is a segment of a URL has none, one that comes from the            *)
(* configuration, a JSON body, a query or a header may have any number of  *)
(* them. A name begins with the tenant that a request is authenticated as  *)
(* (Lifecycle); a call reads or writes the row of its key, so that who     *)
(* meets whom is decided by the keys alone.                                *)
(***************************************************************************)
EXTENDS Lifecycle, Sequences

CONSTANTS
    Letters,        \* the characters that keys may have, but for the slash
    Slash,
    Idempotency,    \* "idempotency"
    Collections,    \* collections, from the URL
    Ids,            \* record ids, from the URL or from the body of a bulk call
    AskedPrefixes,  \* the prefixes that listings ask for, from the query
    Operations,     \* "bulk-upsert", "bulk-delete"
    Tokens,         \* idempotency keys, from the header
    ItemKeys,       \* keys of the KV API, from the URL
    ItemCategories  \* categories of KV items, from the body

Words == Seq(Letters)
Strings == Seq(Letters \cup {Slash})

ASSUME CharactersAssumption == Slash \notin Letters

\* Nothing checks the tenants: they may have slashes, and one may be "idempotency".
ASSUME NamesAssumption ==
    /\ Idempotency \in Words
    /\ \A w \in Tenants : w \in Strings
    /\ \A w \in Collections : w \in Words
    /\ \A w \in Operations : w \in Words
    /\ \A w \in ItemKeys : w \in Words
    /\ \A w \in Ids : w \in Strings
    /\ \A w \in AskedPrefixes : w \in Strings
    /\ \A w \in Tokens : w \in Strings
    /\ \A w \in ItemCategories : w \in Strings

Join(u, w) == u \o <<Slash>> \o w

RecordKey(t, c, id) == Join(t, Join(c, id))
RecordPrefix(t, c) == Join(t, Join(c, <<>>))
RecordCategory(t, c) == Join(t, c)

\* Mutant: the key of a response names no tenant and nothing that tells it from
\* the key of a record.
ResponseKeyShort(t, c, o, token) == Join(t, Join(c, token))

ResponseKey(t, c, o, token) == Join(Idempotency, Join(t, Join(c, Join(o, token))))
ResponseCategory(t) == Join(Idempotency, t)

\* The tenants that requests have been authenticated as, over the runs.
Served == {caller[r] : r \in Requests} \ {NoTenant}

\* What their calls may name.
RecordNames == Served \X Collections \X Ids
ResponseNames == Served \X Collections \X Operations \X Tokens

KeyOfRecord(n) == RecordKey(n[1], n[2], n[3])
KeyOfResponse(n) == ResponseKey(n[1], n[2], n[3], n[4])

\* The rows that their calls may write (UpsertWithEvents, writeIdempotentResponse and
\* Repository.Upsert), without their values.
RecordRow(n) == [key |-> KeyOfRecord(n), category |-> RecordCategory(n[1], n[2])]
ResponseRow(n) == [key |-> KeyOfResponse(n), category |-> ResponseCategory(n[1])]
KeyedRows ==
    {RecordRow(n) : n \in RecordNames} \cup {ResponseRow(n) : n \in ResponseNames}
      \cup [key : ItemKeys, category : ItemCategories]

StartsWith(w, p) == Len(p) <= Len(w) /\ SubSeq(w, 1, Len(p)) = p
After(w, p) == SubSeq(w, Len(p) + 1, Len(w))

\* Mutant: the keys of a listing are not bounded by the collection's prefix.
SelectedByCategory(r, t, c, p) == r.category = RecordCategory(t, c)

\* RecordEventStore.List selects a row by its category and by its key, which has
\* to begin with the prefix of the collection and the one asked for. (The upper
\* bound, the prefix and U+FFFF, is above all the keys that begin with it:
\* ValidateKey lets only ASCII through.)
Selected(r, t, c, p) ==
    /\ r.category = RecordCategory(t, c)
    /\ StartsWith(r.key, RecordPrefix(t, c) \o p)

\* The selected rows of a table and the ids that are cut out of their keys.
Listing(rows, t, c, p) ==
    {<<r, After(r.key, RecordPrefix(t, c))>> : r \in {r \in rows : Selected(r, t, c, p)}}

(***************************************************************************)
(* Properties.                                                             *)
(***************************************************************************)

\* The tenant u is called like a path below the tenant t.
Below(u, t) == StartsWith(u, Join(t, <<>>))

Nested(t, u) == Below(t, u) \/ Below(u, t)

Reserved(t) == t = Idempotency \/ Below(t, Idempotency)

\* Two names of any kind have one key, so that a call meets the row of another,
\* only if one tenant is called like a path below the other or if the tenant of
\* a record is called like the place of the stored responses. (recordKey and
\* idempotencyKey; nothing checks the tenants of the configuration for it.)
KeysApart ==
    /\ \A m, n \in RecordNames :
          KeyOfRecord(m) = KeyOfRecord(n) => m = n \/ Nested(m[1], n[1])
    /\ \A m, n \in ResponseNames :
          KeyOfResponse(m) = KeyOfResponse(n) => m = n \/ Nested(m[1], n[1])
    /\ \A m \in RecordNames, n \in ResponseNames :
          KeyOfRecord(m) = KeyOfResponse(n) => Reserved(m[1])
    /\ \A k \in ItemKeys :
          /\ \A n \in RecordNames : KeyOfRecord(n) # k
          /\ \A n \in ResponseNames : KeyOfResponse(n) # k

\* A listing (RecordEventStore.List) shows exactly the records of its collection
\* whose ids begin with the prefix, each under its id: none of another tenant,
\* nested or not, or collection, no stored response and no KV item, whatever
\* category its client gave it. Only a tenant that is called like the place of
\* the stored responses may see them. (A row is listed on its own account, so
\* that what holds of all the rows that calls write holds in every table.)
ListingExact ==
    \A t \in Served, c \in Collections, p \in AskedPrefixes :
        ~ Reserved(t) =>
            Listing(KeyedRows, t, c, p) =
                {<<RecordRow(<<t, c, id>>), id>> : id \in {id \in Ids : StartsWith(id, p)}}

=============================================================================
