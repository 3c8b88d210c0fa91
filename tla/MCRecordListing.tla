-------------------------- MODULE MCRecordListing --------------------------
(***************************************************************************)
(* Two kinds of instances. Clients that page, with limits below and above  *)
(* what is allowed, begin with any rows on four keys: 1 to 3 carry the     *)
(* prefix of the collection, 4 is the key of a KV item that may have the   *)
(* category of the collection all the same. And every filter with a path   *)
(* of up to four characters meets one document of every kind.              *)
(***************************************************************************)
EXTENDS RecordListing, TLC

CONSTANT MaxPath  \* bound: the length of a path

MCTexts == {"x", "xy"}
MCSubstring(s, t) == s = t \/ (s = "x" /\ t = "xy")

MCCategories == {"a", "b"}
Row(category, found) == [category |-> category, found |-> found]
PagedRows == {Row("a", "x"), Row("a", "absent"), Row("b", "x")}
Samples == <<Row("a", "x"), Row("a", "xy"), Row("a", "null"), Row("a", "absent")>>
MCRows == PagedRows \cup {Row("a", "null")} \cup {Samples[k] : k \in DOMAIN Samples}

Query(endpoint, category, prefixed, limit, filter) ==
    [endpoint |-> endpoint, category |-> category, prefixed |-> prefixed,
     limit |-> limit, filter |-> filter]

PagedQueries ==
    {Query("records", "a", 1..3, 1, NoFilter),
     Query("records", "a", 2..3, -1, NoFilter),
     Query("records", "a", 1..3, 9, [path |-> <<"a">>, op |-> "", value |-> "x"]),
     Query("scan", "a", 1..4, 0, NoFilter),
     Query("scan", AnyCategory, 1..4, 3, NoFilter)}

AllFilters ==
    Filters(UNION {[1..n -> Chars] : n \in 0..MaxPath}, MCTexts \cup {NoText})

MCStarts ==
    [rows : [1..4 -> PagedRows \cup {NoRow}], query : PagedQueries]
      \cup [rows : {Samples}, query : {Query("records", "a", 1..4, 2, f) : f \in AllFilters}]

=============================================================================
