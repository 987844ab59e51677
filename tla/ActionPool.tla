----------------------------- MODULE ActionPool -----------------------------
(***************************************************************************)
(* What the reconcile loop is promised by the background dispatcher,       *)
(* without goroutines, locks or channels: a pool that runs at most Slots   *)
(* actions at a time and at most one per resource, in which every action   *)
(* that was started leaves exactly one outcome in the history of its       *)
(* resource, in the order in which the actions of that resource started.   *)
(***************************************************************************)
EXTENDS Naturals, Sequences, FiniteSets

CONSTANTS
    Key,        \* resources an action can be about: (kind, name) pairs
    Slots,      \* actions that may run at the same time
    MaxStarts   \* bound of the model: actions started, for each resource

Outcome == {"applied", "failed"}

VARIABLES
    running,    \* the resources whose action is being applied
    starts,     \* per resource, how many actions were started
    history     \* per resource, the recorded outcomes: <<which start, outcome>>

vars == <<running, starts, history>>

Init ==
    /\ running = {}
    /\ starts = [k \in Key |-> 0]
    /\ history = [k \in Key |-> <<>>]

Start(k) ==
    /\ k \notin running
    /\ Cardinality(running) < Slots
    /\ starts[k] < MaxStarts[k]
    /\ running' = running \cup {k}
    /\ starts' = [starts EXCEPT ![k] = @ + 1]
    /\ UNCHANGED history

Finish(k, o) ==
    /\ k \in running
    /\ running' = running \ {k}
    /\ history' = [history EXCEPT ![k] = Append(@, <<starts[k], o>>)]
    /\ UNCHANGED starts

Next == \E k \in Key : Start(k) \/ (\E o \in Outcome : Finish(k, o))

Spec == Init /\ [][Next]_vars
=============================================================================
