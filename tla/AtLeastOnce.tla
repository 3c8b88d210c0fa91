----------------------------- MODULE AtLeastOnce -----------------------------
(***************************************************************************)
(* What the outbox promises the consumers of its events: an event stays    *)
(* pending, and may be published any number of times, until it is settled: *)
(* acknowledged, but only after it reached the consumer, or given up. A    *)
(* settled event is never published again and never changes its state.     *)
(***************************************************************************)
EXTENDS Naturals, Sequences

VARIABLES
    state,     \* the state of every event, in the order they were enqueued
    published, \* how often each was published
    received   \* the events that reached the consumer while they were published

vars == <<state, published, received>>

Init == state = <<>> /\ published = <<>> /\ received = {}

Enqueue ==
    /\ state' = Append(state, "pending")
    /\ published' = Append(published, 0)
    /\ UNCHANGED received

Publish(i) ==
    /\ state[i] = "pending"
    /\ published' = [published EXCEPT ![i] = @ + 1]
    /\ received' \in {received, received \cup {i}}
    /\ UNCHANGED state

Acknowledge(i) ==
    /\ state[i] = "pending"
    /\ i \in received
    /\ state' = [state EXCEPT ![i] = "dispatched"]
    /\ UNCHANGED <<published, received>>

GiveUp(i) ==
    /\ state[i] = "pending"
    /\ state' = [state EXCEPT ![i] = "dead"]
    /\ UNCHANGED <<published, received>>

Next ==
    \/ Enqueue
    \/ \E i \in DOMAIN state : Publish(i) \/ Acknowledge(i) \/ GiveUp(i)

Spec == Init /\ [][Next]_vars

=============================================================================
