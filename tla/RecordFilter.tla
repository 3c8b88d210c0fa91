---------------------------- MODULE RecordFilter ----------------------------
(***************************************************************************)
(* The JSON filter of a record listing: JSONPathFilter of                  *)
(* internal/core/domain/record_query.go and the conditions that            *)
(* RecordEventStore.List makes of it. A path is a sequence of characters,  *)
(* of which only three kinds are told apart. A document is reduced to what *)
(* its value at the path is: "absent", "null" or a text.                   *)
(***************************************************************************)
EXTENDS Naturals, SequencesExt

CONSTANTS
    Texts,        \* the scalars, as CAST(... AS TEXT) renders them
    Substring(_, _) \* the first text occurs in the second one

Dot == "."
Chars == {Dot, "a", "#"}  \* "a": fits pathSegmentPattern, "#": does not

NoPath == <<>>
NoText == "none"
NoFilter == [path |-> NoPath, op |-> "", value |-> NoText]

Filters(Paths, Values) ==
    [path : Paths, op : {"", "eq", "ne", "contains", "exists", "like"}, value : Values]

-----------------------------------------------------------------------------

\* One round of the loop of SplitJSONPath.
ReadChar(a, ch) ==
    IF ~ a.ok \/ (ch = Dot /\ a.current = <<>>) THEN [a EXCEPT !.ok = FALSE]
    ELSE IF ch = Dot
    THEN [a EXCEPT !.segments = Append(@, a.current), !.current = <<>>]
    ELSE [a EXCEPT !.current = Append(@, ch)]

\* What the loop has found after every prefix of the path.
ReadUpTo(path) ==
    LET read[n \in 0..Len(path)] ==
            IF n = 0 THEN [ok |-> TRUE, segments |-> <<>>, current |-> <<>>]
            ELSE ReadChar(read[n - 1], path[n])
    IN read

\* Mutant: the segment after the last dot is not checked.
SplitPathLenient(path) ==
    LET end == ReadUpTo(path)[Len(path)]
    IN IF end.ok THEN Append(end.segments, end.current) ELSE <<>>

\* SplitJSONPath: the segments between the dots, none at all if one is empty.
SplitPath(path) ==
    LET end == ReadUpTo(path)[Len(path)]
    IN IF end.ok /\ end.current # <<>> THEN Append(end.segments, end.current) ELSE <<>>

\* JSONPathFilter.Validate. The default operator it fills in stays with its own
\* copy of the filter.
IsValid(f) ==
    IF f.path = NoPath THEN f.op = "" /\ f.value = NoText
    ELSE LET segments == SplitPath(f.path)
         IN /\ segments # <<>>
            /\ \A segment \in ToSet(segments) : "#" \notin ToSet(segment)
            /\ \/ f.op \in {"", "eq", "ne", "contains"} /\ f.value # NoText
               \/ f.op = "exists" /\ f.value = NoText

\* Mutant: the default operator is left to Validate.
WithoutDefault(f) == f

\* The filter that RecordService.List hands to the store.
WithDefault(f) == IF f.op = "" /\ f.path # NoPath THEN [f EXCEPT !.op = "eq"] ELSE f

\* The operators that the store has a condition for.
IsKnown(f) == f.path = NoPath \/ f.op \in {"eq", "ne", "contains", "exists"}

\* The condition of List: json_extract yields NULL for what is absent and for
\* JSON null, and NULL satisfies neither = nor <>; json_type tells them apart.
Accepts(f, found) ==
    \/ f.path = NoPath
    \/ f.op = "eq" /\ found \in Texts /\ found = f.value
    \/ f.op = "ne" /\ found \in Texts /\ found # f.value
    \/ f.op = "contains" /\ found \in Texts /\ Substring(f.value, found)
    \/ f.op = "exists" /\ found # "absent"

Documents == Texts \cup {"absent", "null"}

=============================================================================
