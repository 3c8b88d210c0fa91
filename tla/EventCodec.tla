----------------------------- MODULE EventCodec -----------------------------
(***************************************************************************)
(* internal/core/usecase/event_codec.go: Normalize brings the payload of   *)
(* an event from the schema version it was written with to the current     *)
(* one, one upcaster after the other. The program registers no upcaster of *)
(* its own: any list of them may be given to NewEventCodec, with versions  *)
(* that skip, overstep or go back. AuditReplay calls it event by event.    *)
(*                                                                         *)
(* A payload is the version whose format it has. An upcaster that is given *)
(* a payload of the format it reads produces one of the format it names.   *)
(***************************************************************************)
EXTENDS Integers, Sequences, FiniteSetsExt

CONSTANTS
    Current,     \* CurrentEventSchemaVersion
    Versions,    \* schema versions, past and future
    Registries,  \* the lists of upcasters that NewEventCodec may be given
    Broken       \* a payload that was read in a format it does not have

Upcasters == [from : Versions, to : Versions]

ASSUME CodecAssumption ==
    /\ Current \in Versions
    /\ Versions \subseteq Int
    /\ Registries \subseteq Seq(Upcasters)
    /\ Broken \notin Versions

VARIABLES
    listed,   \* the upcasters that were given to NewEventCodec, in order
    start,    \* envelope.SchemaVersion
    v,        \* the version Normalize has come to
    payload,  \* the payload it has come to
    codec     \* what Normalize does: nothing yet, its loop, or how it returned

codecVars == <<listed, start, v, payload, codec>>

CodecTypeOK ==
    /\ listed \in Registries
    /\ start \in Versions
    /\ v \in Versions
    /\ payload \in Versions \cup {Broken}
    /\ codec \in {"idle", "loop", "done", "failed"}

-----------------------------------------------------------------------------

CodecInit ==
    /\ listed \in Registries
    /\ start = Current
    /\ v = Current
    /\ payload = Current
    /\ codec = "idle"

\* Normalize is called with an event, written in the format of version w.
Normalize(w) ==
    /\ codec # "loop"
    /\ start' = w
    /\ v' = w
    /\ payload' = w
    /\ codec' = "loop"
    /\ UNCHANGED listed

\* The entries NewEventCodec was given for a version; the last one counts.
Positions(w) == {i \in DOMAIN listed : listed[i].from = w}
Effective(i) == \A j \in DOMAIN listed : listed[j].from = listed[i].from => j <= i

\* What an upcaster makes of a payload.
Upcast(u, p) == IF p = u.from THEN u.to ELSE Broken

\* Mutant: the version is counted up instead of being asked of the upcaster.
UpcastCounting(i) ==
    /\ codec = "loop"
    /\ v < Current
    /\ i \in Positions(v)
    /\ Effective(i)
    /\ payload' = Upcast(listed[i], payload)
    /\ v' = v + 1
    /\ UNCHANGED <<listed, start, codec>>

\* One round of the loop.
UpcastOnce(i) ==
    /\ codec = "loop"
    /\ v < Current
    /\ i \in Positions(v)
    /\ Effective(i)
    /\ payload' = Upcast(listed[i], payload)
    /\ v' = listed[i].to
    /\ UNCHANGED <<listed, start, codec>>

\* There is no upcaster for the version.
Missing ==
    /\ codec = "loop"
    /\ v < Current
    /\ Positions(v) = {}
    /\ codec' = "failed"
    /\ UNCHANGED <<listed, start, v, payload>>

\* The upcaster returns an error.
UpcastFails ==
    /\ codec = "loop"
    /\ v < Current
    /\ Positions(v) # {}
    /\ codec' = "failed"
    /\ UNCHANGED <<listed, start, v, payload>>

\* The loop ends; the envelope gets the version and the payload.
Finish ==
    /\ codec = "loop"
    /\ v >= Current
    /\ codec' = "done"
    /\ UNCHANGED <<listed, start, v, payload>>

Round == \E i \in DOMAIN listed : UpcastOnce(i)

CodecStep == Round \/ Missing \/ UpcastFails \/ Finish

CodecNext == CodecStep \/ \E w \in Versions : Normalize(w)

CodecSpec == CodecInit /\ [][CodecNext]_codecVars

-----------------------------------------------------------------------------
(***************************************************************************)
(* Properties.                                                             *)
(***************************************************************************)

\* The payload always has the format that the version says: no upcaster is ever
\* handed a payload of another version than the one it reads, whatever versions
\* the chain skips or goes back to and however often one was registered.
PayloadHasVersion == payload = v

\* The upcasters that count move on, and none of them jumps over the current
\* version.
Forward == \A i \in DOMAIN listed : Effective(i) => listed[i].to > listed[i].from
WithinCurrent ==
    \A i \in DOMAIN listed : listed[i].from < Current => listed[i].to <= Current

\* What Normalize returns says truly which format its payload has: an old event
\* has been brought to the current version, whatever versions the chain skips or
\* goes back to, and never to one before it. It is not of the current version in
\* two cases only, in which Normalize reports no error: the event is newer than the
\* program, and then it is returned as it is, or an upcaster jumps over the current
\* version.
NormalizedIsCurrent ==
    codec = "done" =>
        /\ payload = v
        /\ v >= Current
        /\ start >= Current => v = start
        /\ start <= Current /\ WithinCurrent => v = Current

=============================================================================
