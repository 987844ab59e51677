------------------------------- MODULE Engine -------------------------------
(***************************************************************************)
(* App.reconcileLoop and Engine.Scan in front of the Dispatcher: every     *)
(* pass reads the effective configuration, plans, sets the status, records *)
(* the transitions in the history one by one, and submits the actions the  *)
(* policy allows, one by one, while the goroutines of earlier passes are   *)
(* still applying theirs.                                                  *)
(*                                                                         *)
(* A resource is what its reconciler would say of it now.  The reading of  *)
(* the repository and of the cluster is one step: the resources are        *)
(* independent of one another here.  What an action does to the cluster,   *)
(* call by call, and what a failed one leaves behind, is not modelled in   *)
(* this module: a failed action changes nothing.                           *)
(***************************************************************************)
EXTENDS Dispatcher

CONSTANTS
    Rank,           \* the order in which the actions of the resources are planned
    Options,        \* reconcile.Options that can be saved from the web UI
    Incomplete,     \* a configuration that is not Complete()
    NotSaved,       \* no settings row: ErrNotConfigured
    FileConfig,     \* a.cfg, what the daemon was started with
    FirstWorld,     \* the resources when the daemon starts, as World values
    MaxUpsets,      \* bound: changes made by somebody else, failed reads of the
                    \* settings, failed passes, events that cannot be recorded and
                    \* crashes, taken together
    MaxSaves        \* bound: settings saved

\* What the plan would hold for a resource, and what it holds for none.
Intended == [missing |-> "create", drifted |-> "update", orphan |-> "delete",
             reboot |-> "report"]   \* Informational: never applied
World == DOMAIN Intended \cup {"synced", "gone"}

ASSUME EngineAssumption ==
    /\ Rank \in [Key -> Nat] /\ \A k, l \in Key : Rank[k] = Rank[l] => k = l
    /\ Options \subseteq [auto : BOOLEAN, dry : BOOLEAN, prune : BOOLEAN]
    /\ FileConfig \in Options \cup {Incomplete}
    /\ Incomplete \notin Options /\ NotSaved \notin Options
    /\ FirstWorld \in [Key -> World]

VARIABLES
    world,      \* the resources now
    saved,      \* the settings row
    loop,       \* where reconcileLoop is
    opts,       \* the options of the engine of this pass
    events,     \* the transitions recordStatus has not recorded yet: their types
    queue,      \* the planned actions Scan has not looked at yet: their types
    act,        \* the type of the action each goroutine applies
    snap,       \* the status snapshot
    last,       \* per resource, the last of its recorded state transitions
    lost,       \* resources whose latest transition could not be recorded
    dropped,    \* resources whose action met a full pool and may yet be started
    spent       \* how much of each bound is used

loopVars == <<loop, opts, events, queue>>
engineVars == <<world, saved, loopVars, act, snap, last, lost, dropped, spent>>
vars == <<poolVars, engineVars>>

Spend(what, max) == spent[what] < max /\ spent' = [spent EXCEPT ![what] = @ + 1]

NoOptions == [auto |-> FALSE, dry |-> FALSE, prune |-> FALSE]
NoActions == [k \in {} |-> "none"]
NoEvents == [k \in {} |-> "none"]
NewStore == [configured |-> FALSE, error |-> FALSE, inSync |-> FALSE,
             state |-> [k \in Key |-> "none"]]

Init ==
    /\ PoolInit
    /\ loop = "idle" /\ opts = NoOptions /\ events = NoEvents /\ queue = NoActions
    /\ act = [w \in Worker |-> None]
    /\ snap = NewStore
    /\ dropped = {}
    /\ world = FirstWorld
    /\ saved = NotSaved
    /\ last = [k \in Key |-> "none"] /\ lost = {}
    /\ spent = [upset |-> 0, save |-> 0]

-----------------------------------------------------------------------------
(* The beginning of a pass: effectiveConfig. *)

EffectiveConfig == IF saved = NotSaved THEN FileConfig ELSE saved

\* The settings in the database, or the file's when there are none.
ReadSettings(c) == c = EffectiveConfig /\ UNCHANGED spent

\* They cannot be read or decrypted: the pass runs on the file configuration.
SettingsUnreadable(c) == c = FileConfig /\ Spend("upset", MaxUpsets)

\* A configured daemon gets a new engine with the options read.
BeginPass ==
    /\ loop = "idle"
    /\ \E c \in Options :
        /\ ReadSettings(c) \/ SettingsUnreadable(c)
        /\ opts' = c
    /\ loop' = "scan"
    /\ UNCHANGED <<poolVars, world, saved, events, queue, act, snap, last, lost, dropped>>

\* An incomplete one replaces the snapshot by an empty one, and says so.
Unconfigured ==
    /\ loop = "idle"
    /\ ReadSettings(Incomplete) \/ SettingsUnreadable(Incomplete)
    /\ snap' = [NewStore EXCEPT !.error = TRUE]
    /\ UNCHANGED <<poolVars, world, saved, loopVars, act, last, lost, dropped>>

-----------------------------------------------------------------------------
(* Scan: computePlan, recordStatus or recordError. *)

Due(k) == world[k] \in DOMAIN Intended

Plan == [k \in {k \in Key : Due(k)} |-> Intended[world[k]]]

State(k) ==
    CASE Due(k) -> "OutOfSync" [] world[k] = "gone" -> "none" [] OTHER -> "Synced"

\* Mutant: a resource that is new to the snapshot is not logged at all.
TransitionOfKnown(prev, now) ==
    CASE prev = "OutOfSync" /\ now = "Synced" -> "synced"
      [] prev = "Synced" /\ now = "OutOfSync" -> "drifted"
      [] prev # "none" /\ now = "none" -> "removed"
      [] OTHER -> "none"

\* The event to record for a resource by comparing with the previous snapshot;
\* a resource that is new and Synced is not logged.
Transition(prev, now) ==
    CASE prev = "OutOfSync" /\ now = "Synced" -> "synced"
      [] prev # "OutOfSync" /\ now = "OutOfSync" -> "drifted"
      [] prev # "none" /\ now = "none" -> "removed"
      [] OTHER -> "none"

Transitions ==
    LET event(k) == Transition(snap.state[k], State(k))
    IN  [k \in {k \in Key : event(k) # "none"} |-> event(k)]

\* The pass records these events, then goes on with these actions; with neither
\* it ends, and its engine with it.
GoOn(evs, actions) ==
    /\ events' = evs /\ queue' = actions
    /\ loop' = CASE DOMAIN evs # {} -> "record"
                 [] DOMAIN evs = {} /\ DOMAIN actions # {} -> "dispatch"
                 [] OTHER -> "idle"
    /\ opts' = IF DOMAIN evs = {} /\ DOMAIN actions = {} THEN NoOptions ELSE opts

\* The snapshot is there, and broadcast, before any event is recorded.
RecordStatus ==
    snap' = [configured |-> TRUE, error |-> FALSE, inSync |-> DOMAIN Plan = {},
             state |-> [k \in Key |-> State(k)]]

\* Mutant: a failed pass keeps what the last one said of the whole.
RecordErrorOnly ==
    snap' = [snap EXCEPT !.configured = TRUE, !.error = TRUE]

RecordError ==
    snap' = [snap EXCEPT !.configured = TRUE, !.error = TRUE, !.inSync = FALSE]

\* The source or a reconciler fails: the resources of the last pass are kept.
ScanFails ==
    /\ loop = "scan"
    /\ Spend("upset", MaxUpsets)
    /\ RecordError
    /\ GoOn(NoEvents, NoActions)
    /\ UNCHANGED <<poolVars, world, saved, act, last, lost, dropped>>

\* What is due is shown; the actions are looked at when AutoSync is on.
ScanPlans ==
    /\ loop = "scan"
    /\ RecordStatus
    /\ GoOn(Transitions, IF opts.auto THEN Plan ELSE NoActions)
    /\ dropped' = {k \in dropped : Due(k)}
    /\ UNCHANGED <<poolVars, world, saved, act, last, lost, spent>>

\* One event reaches the history, or AppendEvent fails, which is only logged:
\* no later pass tries again, it compares with the snapshot of this one.
RecordEvent(k) ==
    /\ loop = "record"
    /\ \/ /\ last' = [last EXCEPT ![k] = events[k]]
          /\ lost' = lost \ {k}
          /\ UNCHANGED spent
       \/ /\ Spend("upset", MaxUpsets)
          /\ lost' = lost \cup {k}
          /\ UNCHANGED last
    /\ GoOn([l \in DOMAIN events \ {k} |-> events[l]], queue)
    /\ UNCHANGED <<poolVars, world, saved, act, snap, dropped>>

-----------------------------------------------------------------------------
(* Scan: the loop over the actions of the plan. *)

\* Mutant: the prune switch is not looked at.
HeldBackUnpruned(type) == type = "report" \/ opts.dry

\* Policy: informational actions, deletions without prune, and any dry run.
HeldBack(type) == type = "report" \/ (type = "delete" /\ ~opts.prune) \/ opts.dry

\* The next action in the order of the plan.
IsNext(k) == \A l \in DOMAIN queue : Rank[k] <= Rank[l]

\* Scan goes on to the action after it; the loop sleeps after the last one.
NextAction(k) ==
    /\ GoOn(NoEvents, [l \in DOMAIN queue \ {k} |-> queue[l]])
    /\ UNCHANGED <<world, saved, snap, last, lost, spent>>

PassOver(k) ==
    /\ IsNext(k) /\ HeldBack(queue[k])
    /\ NextAction(k)
    /\ dropped' = dropped \ {k}
    /\ UNCHANGED <<poolVars, act>>

Submit(k) ==
    /\ IsNext(k) /\ ~HeldBack(queue[k])
    /\ \/ /\ Accept(k)
          /\ act' = [act EXCEPT ![Fresh] = queue[k]]
          /\ dropped' = dropped \ {k}
       \/ SkipRunning(k) /\ UNCHANGED <<act, dropped>>
       \/ SkipFull(k) /\ dropped' = dropped \cup {k} /\ UNCHANGED act
    /\ NextAction(k)

-----------------------------------------------------------------------------
(* The goroutines, and what their action does to the resource. *)

\* What an action that succeeds can make of a resource, which need no longer be
\* in the state the action was planned from.
Effect(type, v) ==
    CASE type = "create" /\ v = "missing" -> {"synced"}
      [] type = "create" /\ v = "gone" -> {"orphan"}
      [] type = "update" /\ v = "drifted" -> {"synced", "reboot"}
      [] type = "delete" /\ v = "orphan" -> {"gone"}
      [] type = "delete" /\ v \in {"synced", "drifted", "reboot"} -> {"missing"}
      [] OTHER -> {v}

Finish(w, o) ==
    /\ Apply(w, o)
    /\ \E v \in IF o = "applied" THEN Effect(act[w], world[job[w]]) ELSE {world[job[w]]} :
          world' = [world EXCEPT ![job[w]] = v]
    /\ UNCHANGED <<saved, loopVars, act, snap, last, lost, dropped, spent>>

\* The applied and failed events are DispatcherHistory's subject.
Wind(w) ==
    /\ \/ Record(w) /\ UNCHANGED act
       \/ Release(w) /\ UNCHANGED act
       \/ Forget(w) /\ act' = [act EXCEPT ![w] = None]
    /\ UNCHANGED <<world, saved, loopVars, snap, last, lost, dropped, spent>>

-----------------------------------------------------------------------------
(* What happens around the daemon. *)

\* A commit, or somebody at the cluster, changes what is due for a resource.
Drift(k) ==
    /\ Spend("upset", MaxUpsets)
    /\ \E v \in World \ {world[k]} : world' = [world EXCEPT ![k] = v]
    /\ UNCHANGED <<poolVars, saved, loopVars, act, snap, last, lost, dropped>>

SaveSettings ==
    /\ Spend("save", MaxSaves)
    /\ \E o \in Options \ {saved} : saved' = o
    /\ UNCHANGED <<poolVars, world, loopVars, act, snap, last, lost, dropped>>

\* The process ends, at any point: Run waits neither for the loop nor for the
\* goroutines.  The database and the cluster stay.
Restart ==
    /\ Spend("upset", MaxUpsets)
    /\ PoolLost
    /\ loop' = "idle" /\ opts' = NoOptions /\ events' = NoEvents /\ queue' = NoActions
    /\ act' = [w \in Worker |-> None]
    /\ snap' = NewStore
    /\ lost' = {} /\ dropped' = {}
    /\ UNCHANGED <<world, saved, last>>

Loop ==
    \/ BeginPass \/ Unconfigured
    \/ ScanFails \/ ScanPlans
    \/ \E k \in DOMAIN events : RecordEvent(k)
    \/ loop = "dispatch" /\ \E k \in DOMAIN queue : PassOver(k) \/ Submit(k)

Next ==
    \/ Loop
    \/ \E w \in Worker : Wind(w) \/ (\E o \in Outcome : Finish(w, o))
    \/ \E k \in Key : Drift(k)
    \/ SaveSettings
    \/ Restart

Spec == Init /\ [][Next]_vars

\* The loop goes on and so do the goroutines around their actions, while the
\* actions themselves may hang.  That the loop goes on is an assumption: neither
\* a git fetch or clone nor a request to the Proxmox API carries a timeout.
LoopFairness == WF_vars(Loop) /\ \A w \in Worker : WF_vars(Wind(w))

HangingSpec == Spec /\ LoopFairness

\* Every action returns, for the waits on Proxmox tasks carry a timeout and the
\* requests are assumed to be answered.
Return(w) == \E o \in Outcome : Finish(w, o)
ReturningSpec == HangingSpec /\ \A w \in Worker : WF_vars(Return(w))

\* Moreover no action hangs or fails for ever: one that is tried again and again
\* works in the end.
Succeed(k) == \E w \in Worker : job[w] = k /\ Finish(w, "applied")
Working == \A k \in Key : SF_vars(Succeed(k))

-----------------------------------------------------------------------------
\* The variables of the loop, the status and the pool keep their types.
TypeOK ==
    /\ PoolTypeOK
    /\ world \in [Key -> World]
    /\ saved \in Options \cup {NotSaved}
    /\ loop \in {"idle", "scan", "record", "dispatch"}
    /\ opts \in Options \cup {NoOptions}
    /\ DOMAIN events \subseteq Key
    /\ events \in [DOMAIN events -> {"drifted", "synced", "removed"}]
    /\ loop = "record" <=> DOMAIN events # {}
    /\ DOMAIN queue \subseteq Key
    /\ queue \in [DOMAIN queue -> {"create", "update", "delete", "report"}]
    /\ loop = "dispatch" => DOMAIN queue # {}
    /\ DOMAIN queue # {} => loop \in {"record", "dispatch"}
    /\ act \in [Worker -> {"create", "update", "delete", None}]
    /\ snap \in [configured : BOOLEAN, error : BOOLEAN, inSync : BOOLEAN,
                 state : [Key -> {"none", "Synced", "OutOfSync"}]]
    /\ last \in [Key -> {"none", "drifted", "synced", "removed"}]
    /\ lost \in SUBSET Key /\ dropped \in SUBSET Key
    /\ spent \in [upset : Nat, save : Nat]

\* What the web page says of the whole agrees with what it says of the parts:
\* a snapshot is in sync only when it is the result of a pass that worked and
\* every resource in it is Synced, and it lists an OutOfSync one otherwise.
SnapshotConsistent ==
    /\ snap.inSync => snap.configured /\ ~snap.error
    /\ snap.configured /\ ~snap.error =>
         (snap.inSync <=> \A k \in Key : snap.state[k] # "OutOfSync")

\* A resource shown as OutOfSync has "drifted" as the last transition of its
\* history, through failed passes, passes without a configuration, restarts and
\* resources that come and go; unless the pass that shows it has yet to record
\* that event, or has failed to, and then nothing ever does.
OutOfSyncIsExplained ==
    \A k \in Key : snap.state[k] = "OutOfSync" =>
        \/ last[k] = "drifted"
        \/ k \in DOMAIN events /\ events[k] = "drifted"
        \/ k \in lost

\* What is started is allowed by the options the pass began with, whatever is
\* saved meanwhile: nothing without AutoSync or in a dry run, no deletion
\* without Prune.  And it is accounted for before it is started: the status
\* shows the resource as OutOfSync, and the history says that it drifted unless
\* that could not be recorded.
Policy ==
    [][\A w \in Worker :
         act[w] = None /\ act'[w] # None =>
            /\ opts.auto /\ ~opts.dry
            /\ act'[w] = "delete" => opts.prune
            /\ snap.state[job'[w]] = "OutOfSync"
            /\ last[job'[w]] = "drifted" \/ job'[w] \in lost]_vars

\* Drift is reported whatever the goroutines do, even if every action hangs:
\* a resource that stays due is shown as OutOfSync once there is a configuration.
DriftReported ==
    \A k \in Key : Due(k) /\ EffectiveConfig # Incomplete
                        ~> ~Due(k) \/ snap.state[k] = "OutOfSync"

Live(c) == c \in Options /\ c.auto /\ ~c.dry /\ c.prune
Settled(k) == ~Due(k) \/ Intended[world[k]] = "report"

\* With AutoSync on and every switch open, and no action that fails or hangs for ever, the
\* cluster converges and the status shows it, after any drift, failed pass, crash
\* and failed or stale action.
Converges ==
    Working /\ <>[]Live(EffectiveConfig) =>
        <>[](\A k \in Key : Settled(k) /\ snap.state[k] = State(k))

\* "when the pool is full, extra actions are dropped and picked up on a later
\* scan": an action that was dropped is started, unless it is no longer due.
PickedUp ==
    \A k \in Key : k \in dropped ~> k \notin dropped \/ ~Live(EffectiveConfig)

\* It is, as long as no action fails or hangs for ever.
PickedUpIfWorking == Working => PickedUp
=============================================================================
