----------------------------- MODULE Dispatcher -----------------------------
(***************************************************************************)
(* reconcile.Dispatcher: the goroutines that apply actions in the          *)
(* background, the semaphore channel that bounds them, and the registry of *)
(* in-flight keys that keeps two actions of one resource apart.            *)
(*                                                                         *)
(* A worker is one goroutine started by Submit.  The body of Submit is one *)
(* step: it holds d.mu throughout, so nobody changes the registry under    *)
(* it, and of the channel it makes a single non-blocking send.  A worker   *)
(* takes its steps without the lock, except the deletion of its key.       *)
(*                                                                         *)
(* What the events and the caller are is left to the modules that use this *)
(* one: DispatcherHistory, which states what the dispatcher guarantees on  *)
(* its own, and Engine, which puts the reconcile loop in front of it.      *)
(***************************************************************************)
EXTENDS Integers, FiniteSets

CONSTANTS
    Key,            \* actionKey: the (kind, name) pairs
    Worker,         \* goroutines; as many as there are keys never run short
    Concurrency,    \* the limit handed to NewDispatcher, any integer
    NoKey           \* what a goroutine that does not run works on

defaultConcurrency == 4

\* NewDispatcher sizes the channel; a limit that is not positive is defaulted.
Slots == IF Concurrency <= 0 THEN defaultConcurrency ELSE Concurrency

ASSUME DispatcherAssumption ==
    /\ IsFiniteSet(Worker)
    /\ Concurrency \in Int
    /\ NoKey \notin Key

Outcome == {"applied", "failed"}
None == "none"

VARIABLES
    inflight,   \* d.inflight
    sem,        \* number of tokens in the channel d.sem
    wg,         \* counter of d.wg
    pc,         \* where each goroutine is
    job,        \* the key each goroutine works on
    outcome     \* what Apply returned to each goroutine

poolVars == <<inflight, sem, wg, pc, job, outcome>>

PoolInit ==
    /\ inflight = {}
    /\ sem = 0
    /\ wg = 0
    /\ pc = [w \in Worker |-> "idle"]
    /\ job = [w \in Worker |-> NoKey]
    /\ outcome = [w \in Worker |-> None]

\* The process is gone, and the dispatcher with it.
PoolLost ==
    /\ inflight' = {}
    /\ sem' = 0
    /\ wg' = 0
    /\ pc' = [w \in Worker |-> "idle"]
    /\ job' = [w \in Worker |-> NoKey]
    /\ outcome' = [w \in Worker |-> None]

-----------------------------------------------------------------------------
(* Submit, under d.mu. *)

\* The key is in flight: the action is dropped.
SkipRunning(k) == k \in inflight /\ UNCHANGED poolVars

\* Mutant: a full channel makes Submit wait instead of dropping the action.
SkipNever(k) == FALSE

\* The channel is full: the action is dropped.
SkipFull(k) == k \notin inflight /\ sem >= Slots /\ UNCHANGED poolVars

\* A goroutine that does not run yet: which one makes no difference.
Fresh == CHOOSE w \in Worker : pc[w] = "idle"

\* The slot is taken, the key registered and the goroutine started.
Launch(k) ==
    /\ \E w \in Worker : pc[w] = "idle"
    /\ sem' = sem + 1
    /\ inflight' = inflight \cup {k}
    /\ pc' = [pc EXCEPT ![Fresh] = "apply"]
    /\ job' = [job EXCEPT ![Fresh] = k]
    /\ UNCHANGED outcome

\* Mutants of Accept: the channel is not looked at; the registry is not looked at;
\* the wait group is not told.
AcceptUnbounded(k) == k \notin inflight /\ Launch(k) /\ wg' = wg + 1
AcceptUnchecked(k) == sem < Slots /\ Launch(k) /\ wg' = wg + 1
AcceptUncounted(k) == k \notin inflight /\ sem < Slots /\ Launch(k) /\ wg' = wg

\* The key is not in flight and the channel has room: the action starts.
Accept(k) == k \notin inflight /\ sem < Slots /\ Launch(k) /\ wg' = wg + 1

-----------------------------------------------------------------------------
(* The goroutine of an accepted action. *)

\* Mutant: the key is forgotten as soon as Apply has returned.
ApplyForgets(w, o) ==
    /\ pc[w] = "apply"
    /\ outcome' = [outcome EXCEPT ![w] = o]
    /\ pc' = [pc EXCEPT ![w] = "record"]
    /\ inflight' = inflight \ {job[w]}
    /\ UNCHANGED <<sem, wg, job>>

\* a.Apply(ctx) returns, with or without an error.
Apply(w, o) ==
    /\ pc[w] = "apply"
    /\ outcome' = [outcome EXCEPT ![w] = o]
    /\ pc' = [pc EXCEPT ![w] = "record"]
    /\ UNCHANGED <<inflight, sem, wg, job>>

\* The applied or failed event is handed to the sink.
Record(w) ==
    /\ pc[w] = "record"
    /\ pc' = [pc EXCEPT ![w] = "release"]
    /\ UNCHANGED <<inflight, sem, wg, job, outcome>>

\* Mutant: a failed action keeps its slot.
ReleaseApplied(w) ==
    /\ pc[w] = "release"
    /\ sem' = IF outcome[w] = "failed" THEN sem ELSE sem - 1
    /\ pc' = [pc EXCEPT ![w] = "forget"]
    /\ UNCHANGED <<inflight, wg, job, outcome>>

\* Deferred: the slot is given back first, outside the lock ...
Release(w) ==
    /\ pc[w] = "release"
    /\ sem' = sem - 1
    /\ pc' = [pc EXCEPT ![w] = "forget"]
    /\ UNCHANGED <<inflight, wg, job, outcome>>

\* The goroutine ends, and with it its variables.
Leave(w) ==
    /\ pc[w] = "forget"
    /\ pc' = [pc EXCEPT ![w] = "idle"]
    /\ job' = [job EXCEPT ![w] = NoKey]
    /\ outcome' = [outcome EXCEPT ![w] = None]
    /\ UNCHANGED sem

\* Mutants of Forget: a failed action keeps its key, or is not counted down.
ForgetApplied(w) ==
    Leave(w) /\ wg' = wg - 1 /\ inflight' =
        IF outcome[w] = "failed" THEN inflight ELSE inflight \ {job[w]}
ForgetUncounted(w) ==
    Leave(w) /\ inflight' = inflight \ {job[w]} /\ wg' =
        IF outcome[w] = "failed" THEN wg ELSE wg - 1

\* ... then the key is forgotten, under the lock, and the goroutine is done.
Forget(w) == Leave(w) /\ inflight' = inflight \ {job[w]} /\ wg' = wg - 1

-----------------------------------------------------------------------------
Registered(w) == pc[w] # "idle"
HoldsSlot(w) == pc[w] \in {"apply", "record", "release"}
Unrecorded(w) == pc[w] \in {"apply", "record"}

Busy == {w \in Worker : Registered(w)}
SlotHolders == {w \in Worker : HoldsSlot(w)}
Applying == {w \in Worker : Unrecorded(w)}

\* The variables keep their types, and the semaphore channel never overflows
\* nor underflows.
PoolTypeOK ==
    /\ inflight \in SUBSET Key
    /\ sem \in 0..Slots
    /\ wg \in Nat
    /\ pc \in [Worker -> {"idle", "apply", "record", "release", "forget"}]
    /\ job \in [Worker -> Key \cup {NoKey}]
    /\ outcome \in [Worker -> Outcome \cup {None}]

\* Two goroutines never work on the same resource, from the submission until
\* the key is forgotten: "an action already running is not started again".
OneWorkerPerKey ==
    \A v, w \in Worker : Registered(v) /\ Registered(w) /\ job[v] = job[w] => v = w

\* The pool is bounded: never more goroutines inside Apply than slots, although
\* the slot is returned outside the lock and before the key is forgotten.
Bounded == Cardinality(Applying) <= Slots
=============================================================================
