---------------------------- MODULE RecordEvents ----------------------------
(***************************************************************************)
(* The rows and messages that a mutation of a record leaves behind: the    *)
(* audit event and the envelope that goes to the outbox. JSON documents,   *)
(* actors, timestamps and correlation ids are left out.                    *)
(***************************************************************************)
EXTENDS Naturals

CONSTANTS
    Records,  \* the aggregates: (tenant, collection, id) triples
    Values,   \* the JSON documents a record may hold
    NoValue,  \* a record that does not exist
    EventIds  \* the uuids of the events

ASSUME NoValueAssumption == NoValue \notin Values

Images == Values \cup {NoValue}

Actions == {"record.created", "record.updated", "record.deleted"}

\* The event type of a mutation that replaces `before` by `after`.
ActionOf(before, after) ==
    CASE after = NoValue  -> "record.deleted"
      [] after # NoValue /\ before = NoValue -> "record.created"
      [] after # NoValue /\ before # NoValue -> "record.updated"

\* A row of audit_events. Its id is its position in the table.
Events ==
    [event_id : EventIds, rec : Records, version : Nat,
     action : Actions, before : Images, after : Images]

NewEvent(e, r, n, before, after) ==
    [event_id |-> e, rec |-> r, version |-> n,
     action |-> ActionOf(before, after), before |-> before, after |-> after]

\* Mutant: the envelope carries the row that was loaded first.
EnvelopeOfBefore(ev) ==
    [event_id |-> ev.event_id, rec |-> ev.rec, version |-> ev.version,
     action |-> ev.action, payload |-> ev.before]

\* The message stored in the outbox row of an event: it carries the document
\* that was written as its payload and not the one that was replaced.
Envelopes ==
    [event_id : EventIds, rec : Records, version : Nat,
     action : Actions, payload : Images]

EnvelopeOf(ev) ==
    [event_id |-> ev.event_id, rec |-> ev.rec, version |-> ev.version,
     action |-> ev.action, payload |-> ev.after]

=============================================================================
