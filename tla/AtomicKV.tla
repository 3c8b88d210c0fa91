------------------------------ MODULE AtomicKV ------------------------------
(***************************************************************************)
(* What the KV API promises its clients: every operation takes effect at   *)
(* one instant between its call and its answer, and is answered with what  *)
(* it did at that instant; or it has no effect at all. The timestamp of an *)
(* operation is the time of its call.                                      *)
(***************************************************************************)
EXTENDS KVRows

CONSTANTS
    Calls,     \* the operations that clients call
    NoOp,      \* nothing was called
    NoOutcome  \* nothing was answered yet

VARIABLES
    table,    \* the rows
    clock,    \* the time
    op,       \* what was called
    stamp,    \* when it was called
    stage,    \* how far the call is
    outcome   \* what it did

vars == <<table, clock, op, stamp, stage, outcome>>

Init ==
    /\ table = [k \in Keys |-> NoRow]
    /\ clock = 0
    /\ op = [c \in Calls |-> NoOp]
    /\ stamp = [c \in Calls |-> 0]
    /\ stage = [c \in Calls |-> "new"]
    /\ outcome = [c \in Calls |-> NoOutcome]

Call(c, o) ==
    /\ stage[c] = "new"
    /\ clock' = clock + 1
    /\ op' = [op EXCEPT ![c] = o]
    /\ stamp' = [stamp EXCEPT ![c] = clock']
    /\ stage' = [stage EXCEPT ![c] = "called"]
    /\ UNCHANGED <<table, outcome>>

TakeEffect(c) ==
    /\ stage[c] = "called"
    /\ table' = Effect(table, op[c], stamp[c])
    /\ outcome' = [outcome EXCEPT ![c] = Outcome(table, op[c], stamp[c])]
    /\ stage' = [stage EXCEPT ![c] = "done"]
    /\ UNCHANGED <<clock, op, stamp>>

Return(c) ==
    /\ stage[c] = "done"
    /\ stage' = [stage EXCEPT ![c] = "returned"]
    /\ UNCHANGED <<table, clock, op, stamp, outcome>>

\* A call comes to nothing; a crash drops any number of them at once.
Drop(C) ==
    /\ \A c \in C : stage[c] \in {"new", "called"}
    /\ stage' = [c \in Calls |-> IF c \in C THEN "dropped" ELSE stage[c]]
    /\ UNCHANGED <<table, clock, op, stamp, outcome>>

Next ==
    \/ \E c \in Calls, o \in Ops : Call(c, o)
    \/ \E c \in Calls : TakeEffect(c) \/ Return(c)
    \/ \E C \in SUBSET Calls : Drop(C)

Spec == Init /\ [][Next]_vars

=============================================================================
