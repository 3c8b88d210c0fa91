---------------------------- MODULE RecordListing ----------------------------
(***************************************************************************)
(* The listing endpoints (listRecords over RecordService.List and          *)
(* RecordEventStore.List, scan over KVService.Scan and Repository.Scan)    *)
(* and the loop of N8N.md, Pattern D, that reads a collection in pages:    *)
(* start without a cursor, fetch a page, make the last key the cursor,     *)
(* stop at an empty page. Rows are put and deleted between the pages.      *)
(*                                                                         *)
(* The request carries a JSON filter, which may not be a valid one.         *)
(*                                                                         *)
(* Keys are numbers in the order of their bytes. A row has a category and  *)
(* a document, of which only what the JSON filter looks at is kept.        *)
(***************************************************************************)
EXTENDS RecordFilter, Integers, FiniteSets

CONSTANTS
    NumKeys,       \* the number of keys that a row of kv_entries may have
    Categories,    \* the categories of rows
    Rows,          \* the rows that clients put
    NoRow,         \* there is no row with the key
    Starts,        \* the rows that a client finds and the query it begins with
    DefaultLimit,  \* 100 in the code
    MaxLimit,      \* 1000 in the code
    MaxChanges     \* bound: rows put and deleted while a client reads

Keys == 1..NumKeys

\* A listing of records names its collection by a category and by the keys
\* that begin with its prefix; a scan may leave out both.
AnyCategory == "any"

ASSUME BoundsAssumption ==
    /\ NumKeys \in Nat
    /\ MaxLimit \in Nat
    /\ DefaultLimit \in 1..MaxLimit
    /\ MaxChanges \in Nat

Queries == {s.query : s \in Starts}

ASSUME QueryAssumption ==
    \A q \in Queries : q.prefixed \subseteq Keys /\ q.limit \in Int

ASSUME ServedAssumption ==
    /\ Rows \subseteq [category : Categories, found : Documents]
    /\ NoRow \notin Rows
    /\ AnyCategory \notin Categories
    /\ \A s \in Starts : s.rows \in [Keys -> Rows \cup {NoRow}]
    /\ \A q \in Queries :
        /\ q.endpoint \in {"records", "scan"}
        /\ q.category \in Categories \cup {AnyCategory}
        /\ q.endpoint = "records" => q.category # AnyCategory
        /\ q.endpoint = "scan" => q.filter = NoFilter
        /\ DOMAIN q.filter = {"path", "op", "value"}
        /\ q.filter.path \in Seq(Chars)
    /\ "absent" \notin Texts

VARIABLES
    rows,     \* the committed rows
    query,    \* what the client asks for, page after page
    after,    \* its cursor, 0 without one
    reading,  \* "fetch", or how the reading ended
    changes,  \* rows put and deleted so far
    \* History, which the code does not keep:
    listed,    \* the keys the client was given
    misplaced, \* the keys it was given after the same or a higher one
    steady     \* the keys that the query has selected all the time

listingVars == <<rows, query, after, reading, changes, listed, misplaced, steady>>

-----------------------------------------------------------------------------

\* The limit that RecordService.List and KVService.Scan apply.
ClampLimit(limit) ==
    IF limit <= 0 THEN DefaultLimit ELSE IF limit > MaxLimit THEN MaxLimit ELSE limit

\* Mutant: the cursor is taken to be the first key that was not listed.
BeyondFrom(S, cursor) == {k \in S : k >= cursor}

\* key > after; there is no such condition without a cursor, and every key is
\* beyond 0.
Beyond(S, cursor) == {k \in S : k > cursor}

\* Mutant: ORDER BY key DESC.
LastKeys(S, n) == {k \in S : Cardinality({j \in S : j >= k}) <= n}

\* ORDER BY key ASC LIMIT n; a page is the set of its keys, served in their order.
FirstKeys(S, n) == {k \in S : Cardinality({j \in S : j <= k}) <= n}

LastKey(page) == CHOOSE k \in page : \A j \in page : j <= k

InCategory(r, category, k) ==
    r[k] # NoRow /\ (category = AnyCategory \/ r[k].category = category)

\* RecordEventStore.List: the conditions on category, prefix and document.
SelectedRecords(r, q) ==
    {k \in q.prefixed : InCategory(r, q.category, k) /\ Accepts(WithDefault(q.filter), r[k].found)}

\* Repository.Scan: the conditions on category and prefix.
SelectedItems(r, q) == {k \in q.prefixed : InCategory(r, q.category, k)}

Selected(r, q) == IF q.endpoint = "records" THEN SelectedRecords(r, q) ELSE SelectedItems(r, q)

Page(r, q, cursor) == FirstKeys(Beyond(Selected(r, q), cursor), ClampLimit(q.limit))

-----------------------------------------------------------------------------

ListingInit ==
    /\ \E s \in Starts : rows = s.rows /\ query = s.query
    /\ after = 0
    /\ reading = "fetch"
    /\ changes = 0
    /\ listed = {}
    /\ misplaced = {}
    /\ steady = Selected(rows, query)

\* RecordService.List: a filter that is not valid is answered with 400.
Reject ==
    /\ reading = "fetch"
    /\ ~ IsValid(query.filter)
    /\ reading' = "invalid"
    /\ UNCHANGED <<rows, query, after, changes, listed, misplaced, steady>>

\* One page, read in a transaction of its own. The store answers an operator that
\* it has no condition for with an error.
Fetch ==
    LET served == IsKnown(WithDefault(query.filter))
        page == IF served THEN Page(rows, query, after) ELSE {}
    IN /\ reading = "fetch"
       /\ IsValid(query.filter)
       /\ IF page = {}
          THEN /\ reading' = IF served THEN "done" ELSE "failed"
               /\ UNCHANGED <<after, listed, misplaced>>
          ELSE /\ after' = LastKey(page)
               /\ listed' = listed \cup page
               /\ misplaced' = misplaced \cup
                    {k \in page : \E j \in listed : j >= k}
               /\ UNCHANGED reading
       /\ UNCHANGED <<rows, query, changes, steady>>

\* Somebody puts or deletes a row between two pages.
Change(k, row) ==
    /\ reading = "fetch"
    /\ after > 0
    /\ changes < MaxChanges
    /\ row # rows[k]
    /\ rows' = [rows EXCEPT ![k] = row]
    /\ steady' = steady \cap Selected(rows', query)
    /\ changes' = changes + 1
    /\ UNCHANGED <<query, after, reading, listed, misplaced>>

ListingNext == Reject \/ Fetch \/ \E k \in Keys, row \in Rows \cup {NoRow} : Change(k, row)

ListingSpec == ListingInit /\ [][ListingNext]_listingVars

-----------------------------------------------------------------------------
(***************************************************************************)
(* Properties.                                                             *)
(***************************************************************************)

\* Every row that the query selected from the first page to the last is listed,
\* whatever was put and deleted around it: no page leaves a gap, and the empty
\* page comes only after everything else.
SteadyRowsListed == reading = "done" => steady \subseteq listed

\* Over all pages the keys ascend: no row is listed twice, not even one that was
\* deleted and put again behind the cursor, and the client can stop after any
\* page and go on from there.
ListedInOrder == misplaced = {}

\* Where the segments of a path may begin and end: its dots, and the places just
\* before and after it.
Boundaries(path) == {i \in 0..(Len(path) + 1) : i \in {0, Len(path) + 1} \/ path[i] = Dot}

\* The segments are what lies between neighbouring boundaries, from the beginning
\* of the path to the boundary m.
CutUpTo(path, segments, m) ==
    \E cut \in [0..Len(segments) -> Boundaries(path)] :
        /\ cut[0] = 0
        /\ cut[Len(segments)] = m
        /\ \A k \in 1..Len(segments) :
            /\ cut[k - 1] < cut[k]
            /\ (cut[k - 1] + 1)..(cut[k] - 1) \cap Boundaries(path) = {}
            /\ segments[k] = SubSeq(path, cut[k - 1] + 1, cut[k] - 1)

\* A path is refused exactly when a dot stands at its beginning, at its end or next
\* to another one; any other path is cut into the texts between its dots, and
\* nothing of it is lost or repeated (SplitJSONPath).
SplitAtDots ==
    LET path == query.filter.path
        segments == SplitPath(path)
    IN IF \E i \in Boundaries(path) : i + 1 \in Boundaries(path)
       THEN segments = <<>>
       ELSE CutUpTo(path, segments, Len(path) + 1)

\* A filter that passed the validation never fails in the store: Validate works
\* on a copy, so that the operator it assumes has to be filled in again.
ValidFilterServed == reading # "failed"

=============================================================================
