---------------------------- MODULE DirectRecord ----------------------------
(***************************************************************************)
(* What a direct call of the events service promises to a reconcile: an    *)
(* event is stored only after a call for it began, a call answers success  *)
(* only when its event is stored, a failing call leaves open whether it    *)
(* is, and a caller moves on to its next event only after a success.  The  *)
(* executor's event batcher claims these delivery semantics for itself.    *)
(***************************************************************************)
EXTENDS Naturals

CONSTANTS
    Callers,    \* the reconciles that emit events, one event at a time
    LastEvent   \* bound: how many events each of them emits

VARIABLES
    event,      \* the event a caller emits now, by its number
    tried,      \* whether a call for that event was ever made
    calling,    \* whether a call is in progress
    recorded    \* the events stored in action_events, as <<caller, number>>

vars == <<event, tried, calling, recorded>>

Init ==
    /\ event = [c \in Callers |-> 1]
    /\ tried = [c \in Callers |-> FALSE]
    /\ calling = [c \in Callers |-> FALSE]
    /\ recorded = {}

Call(c) ==
    /\ ~calling[c]
    /\ event[c] <= LastEvent
    /\ calling' = [calling EXCEPT ![c] = TRUE]
    /\ tried' = [tried EXCEPT ![c] = TRUE]
    /\ UNCHANGED <<event, recorded>>

\* One statement may store the events of several callers, and a call that
\* was given up may still be served.
Store(S) ==
    /\ recorded' = recorded \cup {<<c, event[c]>> : c \in S}
    /\ UNCHANGED <<event, tried, calling>>

Succeed(c) ==
    /\ calling[c]
    /\ <<c, event[c]>> \in recorded
    /\ event' = [event EXCEPT ![c] = @ + 1]
    /\ tried' = [tried EXCEPT ![c] = FALSE]
    /\ calling' = [calling EXCEPT ![c] = FALSE]
    /\ UNCHANGED recorded

\* Some calls end without an answer or with an error.
Fail(S) ==
    /\ calling' = [c \in Callers |-> calling[c] /\ c \notin S]
    /\ UNCHANGED <<event, tried, recorded>>

Next ==
    \/ \E c \in Callers : Call(c) \/ Succeed(c)
    \/ \E S \in SUBSET {c \in Callers : tried[c]} : Store(S)
    \/ \E S \in SUBSET Callers : Fail(S)

Spec == Init /\ [][Next]_vars
=============================================================================
