------------------------------ MODULE RecordLog ------------------------------
(***************************************************************************)
(* What the record store promises its callers, without transactions,       *)
(* connections or failures: every record has a current value and a         *)
(* version, and every successful mutation, in ONE step,                    *)
(*   - replaces the value,                                                 *)
(*   - raises the record's version by exactly one,                         *)
(*   - appends one event to the audit trail, with the value it replaced    *)
(*     and the value it wrote, and                                         *)
(*   - appends the envelope of that event to the outbox.                   *)
(* RecordEventStore, the translation of the code, is shown to implement    *)
(* this specification.                                                     *)
(***************************************************************************)
EXTENDS RecordEvents, Sequences

VARIABLES
    value,    \* the current value of every record
    version,  \* the number of mutations of every record
    trail,    \* the audit events, oldest first
    outbox    \* the envelopes to deliver, oldest first

vars == <<value, version, trail, outbox>>

Init ==
    /\ value = [r \in Records |-> NoValue]
    /\ version = [r \in Records |-> 0]
    /\ trail = <<>>
    /\ outbox = <<>>

\* A record is written, or deleted (after = NoValue) if it exists. Deleting a
\* record that does not exist changes nothing and leaves no event. An event
\* id is used once.
Mutate(e, r, after) ==
    LET ev == NewEvent(e, r, version[r] + 1, value[r], after)
    IN /\ \A i \in DOMAIN trail : trail[i].event_id # e
       /\ after = NoValue => value[r] # NoValue
       /\ value' = [value EXCEPT ![r] = after]
       /\ version' = [version EXCEPT ![r] = @ + 1]
       /\ trail' = Append(trail, ev)
       /\ outbox' = Append(outbox, EnvelopeOf(ev))

Next == \E e \in EventIds, r \in Records, after \in Images : Mutate(e, r, after)

Spec == Init /\ [][Next]_vars

=============================================================================
