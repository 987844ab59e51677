-------------------------- MODULE DispatcherHistory -------------------------
(***************************************************************************)
(* The dispatcher with its event sink and its one caller, which submits    *)
(* any action at any time until it waits for the rest, as reconcileLoop    *)
(* does on its way out.  Every start of an action gets a ticket, so that   *)
(* the history of a resource can be compared with the starts.              *)
(***************************************************************************)
EXTENDS Dispatcher, Sequences

CONSTANT MaxStarts  \* bound of the model: actions started, for each key

ASSUME HistoryAssumption == MaxStarts \in [Key -> Nat]

VARIABLES
    caller,     \* the goroutine that submits and finally calls Wait
    starts,     \* per key, how many actions were started
    ticket,     \* which start of its key each goroutine works on
    history     \* per key, what the sink was handed: <<which start, outcome>>

callVars == <<starts, ticket, history>>
vars == <<poolVars, caller, callVars>>

Init ==
    /\ PoolInit
    /\ caller = "submitting"
    /\ starts = [k \in Key |-> 0]
    /\ ticket = [w \in Worker |-> 0]
    /\ history = [k \in Key |-> <<>>]

SubmitDropped(k) ==
    /\ caller = "submitting"
    /\ SkipRunning(k) \/ SkipFull(k)
    /\ UNCHANGED <<caller, callVars>>

SubmitStarted(k) ==
    /\ caller = "submitting"
    /\ starts[k] < MaxStarts[k]
    /\ Accept(k)
    /\ starts' = [starts EXCEPT ![k] = @ + 1]
    /\ ticket' = [ticket EXCEPT ![Fresh] = starts[k] + 1]
    /\ UNCHANGED <<caller, history>>

Returned(w, o) == Apply(w, o) /\ UNCHANGED <<caller, callVars>>

\* Mutant: an action that failed leaves no event.
RecordedApplied(w) ==
    /\ Record(w)
    /\ history' = IF outcome[w] = "failed" THEN history
                  ELSE [history EXCEPT ![job[w]] = Append(@, <<ticket[w], outcome[w]>>)]
    /\ UNCHANGED <<caller, starts, ticket>>

Recorded(w) ==
    /\ Record(w)
    /\ history' = [history EXCEPT ![job[w]] = Append(@, <<ticket[w], outcome[w]>>)]
    /\ UNCHANGED <<caller, starts, ticket>>

Released(w) == Release(w) /\ UNCHANGED <<caller, callVars>>

Forgotten(w) == Forget(w) /\ UNCHANGED <<caller, callVars>>

CallWait == caller = "submitting" /\ caller' = "waiting" /\ UNCHANGED <<poolVars, callVars>>

\* Wait returns once the counter is zero.
Wait == caller = "waiting" /\ wg = 0 /\ caller' = "done" /\ UNCHANGED <<poolVars, callVars>>

Work(w) ==
    \/ \E o \in Outcome : Returned(w, o)
    \/ Recorded(w)
    \/ Released(w)
    \/ Forgotten(w)

Next ==
    \/ \E k \in Key : SubmitDropped(k) \/ SubmitStarted(k)
    \/ CallWait
    \/ Wait
    \/ \E w \in Worker : Work(w)

Spec == Init /\ [][Next]_vars

\* Goroutines are scheduled, and Apply returns: every wait on a Proxmox task
\* carries a timeout.  Nothing is assumed of the caller, except that a Wait
\* that may return does.
Fairness == (\A w \in Worker : WF_vars(Work(w))) /\ WF_vars(Wait)

FairSpec == Spec /\ Fairness

-----------------------------------------------------------------------------
\* The dispatcher's own variables, and those of its caller, keep their types.
TypeOK ==
    /\ PoolTypeOK
    /\ caller \in {"submitting", "waiting", "done"}
    /\ starts \in [Key -> Nat]
    /\ ticket \in [Worker -> Nat]
    /\ history \in [Key -> Seq(Nat \X Outcome)]

\* Each started action hands one event to the sink, and the events of a resource
\* are in the order of its starts; only a running action has not recorded yet.
OneOutcomePerStart ==
    \A k \in Key :
        /\ \A i \in DOMAIN history[k] : history[k][i][1] = i
        /\ Len(history[k]) =
             IF \E w \in Worker : Unrecorded(w) /\ job[w] = k THEN starts[k] - 1 ELSE starts[k]

\* When Wait has returned, nothing is left in flight, every slot is free, and
\* every started action is in the history.
WaitMeansQuiet ==
    caller = "done" =>
        /\ inflight = {} /\ sem = 0
        /\ \A k \in Key : Len(history[k]) = starts[k]

\* A key in flight is eventually forgotten, so that the resource can be
\* acted upon again, whatever its action returned.
EventuallyForgotten == \A k \in Key : k \in inflight ~> k \notin inflight

\* A caller that stops submitting is not held back for ever by Wait.
WaitReturns == caller = "waiting" ~> caller = "done"

\* The dispatcher implements the pool: an action runs from its submission
\* until its event is recorded.
running == {job[w] : w \in Applying}

Pool == INSTANCE ActionPool
    WITH running <- running, starts <- starts, history <- history

PoolSpec == Pool!Spec
=============================================================================
