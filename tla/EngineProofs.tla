---------------------------- MODULE EngineProofs ----------------------------
(***************************************************************************)
(* Proofs about Engine, for any resources, options and bounds, and for a   *)
(* dispatcher of any size: what the pass records of a plan agrees with     *)
(* itself and with the history, and what it submits is allowed.            *)
(***************************************************************************)
EXTENDS Engine, PoolProofs

\* Scan looks at the actions of a plan only when AutoSync is on, and all of them
\* are for resources the snapshot of the same pass shows as OutOfSync.
Planned ==
    DOMAIN queue # {} => opts.auto /\ \A k \in DOMAIN queue : snap.state[k] = "OutOfSync"

\* The event of a resource that is shown as OutOfSync is that it drifted.
EventOfShown ==
    \A k \in DOMAIN events : snap.state[k] = "OutOfSync" => events[k] = "drifted"

IInv ==
    /\ TypeOK
    /\ PoolInv
    /\ Planned
    /\ SnapshotConsistent
    /\ OutOfSyncIsExplained
    /\ EventOfShown

Types == {"create", "update", "delete", "report"}
SnapType == [configured : BOOLEAN, error : BOOLEAN, inSync : BOOLEAN,
             state : [Key -> {"none", "Synced", "OutOfSync"}]]
EventTypes == {"drifted", "synced", "removed"}
LastType == [Key -> {"none", "drifted", "synced", "removed"}]

-----------------------------------------------------------------------------
(* The operators. *)

LEMMA IntendedTypes ==
    /\ DOMAIN Intended = {"missing", "drifted", "orphan", "reboot"}
    /\ \A v \in DOMAIN Intended : Intended[v] \in Types
    /\ World = {"missing", "drifted", "orphan", "reboot", "synced", "gone"}
BY DEF Intended, World, Types

LEMMA StateOfResource ==
    ASSUME NEW k \in Key
    PROVE  /\ Due(k) => State(k) = "OutOfSync"
           /\ ~Due(k) => State(k) \in {"none", "Synced"}
<1>1. ASSUME Due(k) PROVE State(k) = "OutOfSync"
  <2>1. world[k] # "gone"
    BY <1>1, IntendedTypes DEF Due
  <2> QED
    BY <1>1, <2>1, Zenon DEF State
<1>2. ASSUME ~Due(k) PROVE State(k) \in {"none", "Synced"}
  <2>1. CASE world[k] = "gone"
    BY <1>2, <2>1, Zenon DEF State
  <2>2. CASE world[k] # "gone"
    BY <1>2, <2>2, Zenon DEF State
  <2> QED
    BY <2>1, <2>2
<1> QED
  BY <1>1, <1>2

\* The events of a pass, of whichever resources.
LEMMA TransitionsType ==
    /\ DOMAIN Transitions \subseteq Key
    /\ Transitions \in [DOMAIN Transitions -> EventTypes]
<1> DEFINE event(k) == Transition(snap.state[k], State(k))
<1>1. \A k \in Key : event(k) \in EventTypes \cup {"none"}
  BY Zenon DEF Transition, EventTypes
<1>2. Transitions = [k \in {k \in Key : event(k) # "none"} |-> event(k)]
  BY DEF Transitions
<1> HIDE DEF event
<1> QED
  BY <1>1, <1>2

\* A resource that is OutOfSync now has drifted, unless it was OutOfSync before.
LEMMA BecomesOutOfSync ==
    ASSUME NEW k \in Key, State(k) = "OutOfSync", snap.state[k] # "OutOfSync"
    PROVE  k \in DOMAIN Transitions /\ Transitions[k] = "drifted"
<1> DEFINE event(l) == Transition(snap.state[l], State(l))
<1>1. "OutOfSync" # "Synced" /\ "OutOfSync" # "none"
  OBVIOUS
<1>2. event(k) = "drifted"
  BY <1>1, Zenon DEF Transition
<1>3. Transitions = [l \in {l \in Key : event(l) # "none"} |-> event(l)]
  BY DEF Transitions
<1> HIDE DEF event
<1> QED
  BY <1>2, <1>3

\* A resource that was OutOfSync and still is has no event.
LEMMA StaysOutOfSync ==
    ASSUME NEW k \in Key, State(k) = "OutOfSync", snap.state[k] = "OutOfSync"
    PROVE  k \notin DOMAIN Transitions
<1> DEFINE event(l) == Transition(snap.state[l], State(l))
<1>1. "OutOfSync" # "Synced" /\ "OutOfSync" # "none"
  OBVIOUS
<1>2. event(k) = "none"
  BY <1>1, Zenon DEF Transition
<1>3. Transitions = [l \in {l \in Key : event(l) # "none"} |-> event(l)]
  BY DEF Transitions
<1> HIDE DEF event
<1> QED
  BY <1>2, <1>3

LEMMA EffectType ==
    ASSUME NEW type, NEW v \in World, NEW x \in Effect(type, v)
    PROVE  x \in World
<1>1. x \in {"synced", "orphan", "reboot", "gone", "missing", v}
  BY Zenon DEF Effect
<1> QED
  BY <1>1, IntendedTypes

LEMMA PlanType ==
    ASSUME TypeOK
    PROVE  /\ DOMAIN Plan \subseteq Key
           /\ Plan \in [DOMAIN Plan -> Types]
           /\ \A k \in Key : k \in DOMAIN Plan <=> Due(k)
BY IntendedTypes DEF Plan, Due, TypeOK, Types

-----------------------------------------------------------------------------
(* The initial states, and steps that leave the snapshot alone. *)

LEMMA InitIInv == Init => IInv
<1> SUFFICES ASSUME Init PROVE IInv
  OBVIOUS
<1>1. PoolInv
  BY PoolEmpty DEF Init
<1>2. TypeOK
  BY <1>1, EngineAssumption
     DEF Init, TypeOK, PoolInv, NoOptions, NoActions, NoEvents, NewStore
<1>3. Planned /\ SnapshotConsistent /\ OutOfSyncIsExplained /\ EventOfShown
  BY DEF Init, Planned, SnapshotConsistent, OutOfSyncIsExplained, EventOfShown, NewStore,
         NoActions, NoEvents
<1> QED
  BY <1>1, <1>2, <1>3 DEF IInv

LEMMA StatusStays ==
    ASSUME IInv, UNCHANGED <<events, snap, last, lost>>
    PROVE  SnapshotConsistent' /\ OutOfSyncIsExplained' /\ EventOfShown'
BY DEF IInv, SnapshotConsistent, OutOfSyncIsExplained, EventOfShown

\* What TypeOK says of the loop.
LoopType(where, ops, evs, acts) ==
    /\ where \in {"idle", "scan", "record", "dispatch"}
    /\ ops \in Options \cup {NoOptions}
    /\ DOMAIN evs \subseteq Key /\ evs \in [DOMAIN evs -> EventTypes]
    /\ where = "record" <=> DOMAIN evs # {}
    /\ DOMAIN acts \subseteq Key /\ acts \in [DOMAIN acts -> Types]
    /\ where = "dispatch" => DOMAIN acts # {}
    /\ DOMAIN acts # {} => where \in {"record", "dispatch"}

LoopTypeOK == LoopType(loop, opts, events, queue)

LEMMA LoopTypes == ASSUME TypeOK PROVE LoopTypeOK
BY DEF TypeOK, LoopTypeOK, LoopType, Types, EventTypes

\* Going on with some events and actions, or with none, keeps the loop's types.
LEMMA GoOnType ==
    ASSUME TypeOK, NEW evs, NEW actions, GoOn(evs, actions),
           DOMAIN evs \subseteq Key, evs \in [DOMAIN evs -> EventTypes],
           DOMAIN actions \subseteq Key, actions \in [DOMAIN actions -> Types]
    PROVE  /\ LoopTypeOK'
           /\ events' = evs /\ queue' = actions
           /\ DOMAIN actions # {} => opts' = opts
<1>1. /\ events' = evs /\ queue' = actions
      /\ opts' = IF DOMAIN evs = {} /\ DOMAIN actions = {} THEN NoOptions ELSE opts
      /\ loop' = CASE DOMAIN evs # {} -> "record"
                   [] DOMAIN evs = {} /\ DOMAIN actions # {} -> "dispatch"
                   [] OTHER -> "idle"
  BY DEF GoOn
<1>2. /\ DOMAIN evs # {} => loop' = "record"
      /\ DOMAIN evs = {} /\ DOMAIN actions # {} => loop' = "dispatch"
      /\ DOMAIN evs = {} /\ DOMAIN actions = {} => loop' = "idle"
  <2>1. CASE DOMAIN evs # {}
    BY <1>1, <2>1, Zenon
  <2>2. CASE DOMAIN evs = {} /\ DOMAIN actions # {}
    BY <1>1, <2>2, Zenon
  <2>3. CASE DOMAIN evs = {} /\ DOMAIN actions = {}
    BY <1>1, <2>3, Zenon
  <2> QED
    BY <2>1, <2>2, <2>3
<1>3. opts' \in Options \cup {NoOptions}
  BY <1>1 DEF TypeOK
<1>4. LoopTypeOK'
  <2>1. LoopType(loop', opts', evs, actions)
    BY <1>2, <1>3 DEF LoopType
  <2> QED
    BY <1>1, <2>1 DEF LoopTypeOK
<1> QED
  BY <1>1, <1>4

LEMMA NothingType ==
    /\ DOMAIN NoActions = {} /\ NoActions \in [DOMAIN NoActions -> Types]
    /\ DOMAIN NoEvents = {} /\ NoEvents \in [DOMAIN NoEvents -> EventTypes]
BY DEF NoActions, NoEvents

LEMMA SpentType ==
    ASSUME TypeOK, NEW what \in {"upset", "save"}, NEW max, Spend(what, max)
    PROVE  spent' \in [upset : Nat, save : Nat]
BY DEF Spend, TypeOK

-----------------------------------------------------------------------------
(* One lemma per action. *)

LEMMA BeginPassIInv == IInv /\ BeginPass => IInv'
<1> SUFFICES ASSUME IInv, BeginPass PROVE IInv'
  OBVIOUS
<1>1. PICK c \in Options : (ReadSettings(c) \/ SettingsUnreadable(c)) /\ opts' = c
  BY DEF BeginPass
<1>2. TypeOK /\ PoolInv
  BY DEF IInv
<1>3. PoolInv'
  BY <1>2, PoolStays DEF BeginPass
<1>4. spent' \in [upset : Nat, save : Nat]
  BY <1>1, <1>2, SpentType DEF ReadSettings, SettingsUnreadable, TypeOK
<1>5. TypeOK'
  BY <1>1, <1>2, <1>3, <1>4 DEF BeginPass, TypeOK, PoolInv
<1>6. Planned'
  BY <1>2 DEF BeginPass, Planned, TypeOK
<1> QED
  BY <1>3, <1>5, <1>6, StatusStays DEF BeginPass, IInv

LEMMA UnconfiguredIInv == IInv /\ Unconfigured => IInv'
<1> SUFFICES ASSUME IInv, Unconfigured PROVE IInv'
  OBVIOUS
<1>1. TypeOK /\ PoolInv
  BY DEF IInv
<1>2. PoolInv'
  BY <1>1, PoolStays DEF Unconfigured
<1>3. spent' \in [upset : Nat, save : Nat]
  BY <1>1, SpentType DEF Unconfigured, ReadSettings, SettingsUnreadable, TypeOK
<1>4. /\ snap' \in SnapType
      /\ ~snap'.inSync /\ ~snap'.configured
      /\ \A k \in Key : snap'.state[k] = "none"
  BY DEF Unconfigured, NewStore, SnapType
<1>5. TypeOK'
  BY <1>1, <1>2, <1>3, <1>4 DEF Unconfigured, TypeOK, PoolInv, SnapType, loopVars
<1>6. Planned'
  BY <1>1 DEF Unconfigured, Planned, loopVars, TypeOK
<1>7. SnapshotConsistent' /\ OutOfSyncIsExplained' /\ EventOfShown'
  BY <1>1, <1>4
     DEF Unconfigured, SnapshotConsistent, OutOfSyncIsExplained, EventOfShown, loopVars, TypeOK
<1> QED
  BY <1>2, <1>5, <1>6, <1>7 DEF IInv

\* The resources of the last pass are kept, its verdict is not.
LEMMA ScanFailsIInv == IInv /\ ScanFails => IInv'
<1> SUFFICES ASSUME IInv, ScanFails PROVE IInv'
  OBVIOUS
<1>1. TypeOK /\ PoolInv /\ OutOfSyncIsExplained
  BY DEF IInv
<1>2. PoolInv'
  BY <1>1, PoolStays DEF ScanFails
<1>3. spent' \in [upset : Nat, save : Nat]
  BY <1>1, SpentType DEF ScanFails
<1>4. /\ snap' \in SnapType /\ last' = last /\ lost' = lost
      /\ ~snap'.inSync /\ snap'.error /\ snap'.state = snap.state
  BY <1>1 DEF ScanFails, RecordError, TypeOK, SnapType
<1>5. LoopTypeOK' /\ queue' = NoActions /\ events' = NoEvents
  BY <1>1, NothingType, GoOnType DEF ScanFails
<1>6. TypeOK'
  BY <1>1, <1>2, <1>3, <1>4, <1>5
     DEF ScanFails, TypeOK, PoolInv, SnapType, LoopTypeOK, LoopType, Types, EventTypes
<1>7. Planned'
  BY <1>5, NothingType DEF Planned
<1>8. DOMAIN events = {}
  BY <1>1 DEF TypeOK, ScanFails
<1>9. SnapshotConsistent' /\ OutOfSyncIsExplained' /\ EventOfShown'
  BY <1>1, <1>4, <1>5, <1>8, NothingType
     DEF SnapshotConsistent, OutOfSyncIsExplained, EventOfShown
<1> QED
  BY <1>2, <1>6, <1>7, <1>9 DEF IInv

\* What a pass shows of its plan: in sync exactly if nothing is due.
LEMMA RecordStatusConsistent ==
    ASSUME TypeOK, RecordStatus
    PROVE  /\ snap' \in SnapType
           /\ \A k \in Key : snap'.state[k] = State(k)
           /\ SnapshotConsistent'
<1>1. snap' = [configured |-> TRUE, error |-> FALSE, inSync |-> DOMAIN Plan = {},
               state |-> [k \in Key |-> State(k)]]
  BY DEF RecordStatus
<1>2. /\ snap'.configured /\ ~snap'.error
      /\ snap'.inSync <=> DOMAIN Plan = {}
      /\ \A k \in Key : snap'.state[k] = State(k)
  BY <1>1
<1>3. \A k \in Key : State(k) \in {"none", "Synced", "OutOfSync"}
  BY StateOfResource
<1>4. snap' \in SnapType
  <2>1. [k \in Key |-> State(k)] \in [Key -> {"none", "Synced", "OutOfSync"}]
    BY <1>3
  <2> QED
    BY <1>1, <2>1 DEF SnapType
<1>5. SnapshotConsistent'
  <2>1. \A k \in Key : Due(k) <=> State(k) = "OutOfSync"
    BY StateOfResource
  <2>2. (\A k \in Key : State(k) # "OutOfSync") <=> DOMAIN Plan = {}
    BY <2>1, PlanType
  <2> QED
    BY <1>2, <2>2 DEF SnapshotConsistent
<1> QED
  BY <1>2, <1>4, <1>5

\* Whatever becomes OutOfSync has its event among those to record; whatever was
\* OutOfSync already is explained as it was before, no event being left of an
\* earlier pass.
LEMMA ScanPlansIInv == IInv /\ ScanPlans => IInv'
<1> SUFFICES ASSUME IInv, ScanPlans PROVE IInv'
  OBVIOUS
<1> DEFINE actions == IF opts.auto THEN Plan ELSE NoActions
<1>1. TypeOK /\ PoolInv /\ OutOfSyncIsExplained
  BY DEF IInv
<1>2. PoolInv'
  BY <1>1, PoolStays DEF ScanPlans
<1>3. DOMAIN actions \subseteq Key /\ actions \in [DOMAIN actions -> Types]
  BY <1>1, PlanType, NothingType
<1>4. GoOn(Transitions, actions)
  BY DEF ScanPlans
<1>5. DOMAIN actions # {} => opts.auto /\ actions = Plan
  BY NothingType
<1> HIDE DEF actions
<1>6. /\ LoopTypeOK' /\ events' = Transitions /\ queue' = actions
      /\ DOMAIN actions # {} => opts' = opts
  BY <1>1, <1>3, <1>4, TransitionsType, GoOnType
<1>7. snap' \in SnapType /\ SnapshotConsistent' /\ \A k \in Key : snap'.state[k] = State(k)
  BY <1>1, RecordStatusConsistent DEF ScanPlans
<1>8. Planned'
  <2>1. ASSUME NEW k \in DOMAIN queue' PROVE snap'.state[k] = "OutOfSync"
    <3>1. k \in Key /\ Due(k)
      BY <1>1, <1>5, <1>6, <2>1, PlanType
    <3> QED
      BY <1>7, <3>1, StateOfResource
  <2> QED
    BY <1>5, <1>6, <2>1 DEF Planned
<1>9. TypeOK'
  BY <1>1, <1>2, <1>6, <1>7
     DEF ScanPlans, TypeOK, PoolInv, SnapType, LoopTypeOK, LoopType, Types, EventTypes
<1>10. OutOfSyncIsExplained'
  <2> SUFFICES ASSUME NEW k \in Key, snap'.state[k] = "OutOfSync"
               PROVE  \/ last'[k] = "drifted"
                      \/ k \in DOMAIN events' /\ events'[k] = "drifted"
                      \/ k \in lost'
    BY DEF OutOfSyncIsExplained
  <2>1. State(k) = "OutOfSync" /\ last' = last /\ lost' = lost
    BY <1>7 DEF ScanPlans
  <2>2. CASE snap.state[k] = "OutOfSync"
    <3>1. DOMAIN events = {}
      BY <1>1 DEF ScanPlans, TypeOK
    <3> QED
      BY <1>1, <2>1, <2>2, <3>1 DEF OutOfSyncIsExplained
  <2>3. CASE snap.state[k] # "OutOfSync"
    BY <1>6, <2>1, <2>3, BecomesOutOfSync
  <2> QED
    BY <2>2, <2>3
<1>11. EventOfShown'
  <2> SUFFICES ASSUME NEW k \in DOMAIN events', snap'.state[k] = "OutOfSync"
               PROVE  events'[k] = "drifted"
    BY DEF EventOfShown
  <2>1. k \in Key /\ k \in DOMAIN Transitions
    BY <1>6, TransitionsType
  <2>2. State(k) = "OutOfSync"
    BY <1>7, <2>1
  <2> QED
    BY <1>6, <2>1, <2>2, StaysOutOfSync, BecomesOutOfSync
<1> QED
  BY <1>2, <1>7, <1>8, <1>9, <1>10, <1>11 DEF IInv

\* An event leaves those to record for the history, or is lost.
LEMMA RecordEventIInv ==
    ASSUME IInv, NEW k \in DOMAIN events, RecordEvent(k)
    PROVE  IInv'
<1> DEFINE rest == [l \in DOMAIN events \ {k} |-> events[l]]
<1>1. TypeOK /\ PoolInv /\ OutOfSyncIsExplained /\ Planned /\ k \in Key
  BY DEF IInv, TypeOK
<1>2. PoolInv'
  BY <1>1, PoolStays DEF RecordEvent
<1>3. LoopTypeOK
  BY <1>1, LoopTypes
<1>4. DOMAIN rest \subseteq Key /\ rest \in [DOMAIN rest -> EventTypes]
  BY <1>3 DEF LoopTypeOK, LoopType
<1>5. /\ DOMAIN rest = DOMAIN events \ {k}
      /\ \A l \in DOMAIN rest : rest[l] = events[l]
  OBVIOUS
<1>6. GoOn(rest, queue)
  BY DEF RecordEvent
<1> HIDE DEF rest
<1>7. /\ LoopTypeOK' /\ events' = rest /\ queue' = queue
      /\ DOMAIN queue # {} => opts' = opts
  BY <1>1, <1>3, <1>4, <1>6, GoOnType DEF LoopTypeOK, LoopType
<1>8. /\ last' \in LastType /\ lost' \in SUBSET Key
      /\ spent' \in [upset : Nat, save : Nat]
  <2>1. CASE last' = [last EXCEPT ![k] = events[k]] /\ lost' = lost \ {k} /\ UNCHANGED spent
    BY <1>1, <1>3, <2>1 DEF TypeOK, LastType, LoopTypeOK, LoopType, EventTypes
  <2>2. CASE Spend("upset", MaxUpsets) /\ lost' = lost \cup {k} /\ UNCHANGED last
    BY <1>1, <2>2, SpentType DEF TypeOK, LastType
  <2> QED
    BY <2>1, <2>2 DEF RecordEvent
<1>9. TypeOK'
  BY <1>1, <1>2, <1>7, <1>8
     DEF RecordEvent, TypeOK, PoolInv, LastType, LoopTypeOK, LoopType, Types, EventTypes
<1>10. Planned' /\ SnapshotConsistent'
  BY <1>1, <1>7 DEF IInv, RecordEvent, Planned, SnapshotConsistent
<1>11. OutOfSyncIsExplained'
  <2> SUFFICES ASSUME NEW l \in Key, snap'.state[l] = "OutOfSync"
               PROVE  \/ last'[l] = "drifted"
                      \/ l \in DOMAIN events' /\ events'[l] = "drifted"
                      \/ l \in lost'
    BY DEF OutOfSyncIsExplained
  <2>1. \/ last[l] = "drifted"
        \/ l \in DOMAIN events /\ events[l] = "drifted"
        \/ l \in lost
    BY <1>1 DEF OutOfSyncIsExplained, RecordEvent
  <2>2. CASE l # k
    <3>1. last'[l] = last[l] /\ (l \in lost => l \in lost')
      BY <1>1, <2>2 DEF RecordEvent, TypeOK
    <3> QED
      BY <1>5, <1>7, <2>1, <2>2, <3>1
  <2>3. CASE l = k
    <3>1. k \in lost' \/ last'[k] = events[k]
      BY <1>1 DEF RecordEvent, TypeOK
    <3>2. events[k] = "drifted"
      BY <1>1, <2>3 DEF IInv, EventOfShown, RecordEvent
    <3> QED
      BY <2>3, <3>1, <3>2
  <2> QED
    BY <2>2, <2>3
<1>12. EventOfShown'
  BY <1>1, <1>5, <1>7 DEF IInv, EventOfShown, RecordEvent
<1> QED
  BY <1>2, <1>9, <1>10, <1>11, <1>12 DEF IInv

\* Going on to the next action, whatever became of this one.
LEMMA NextActionType ==
    ASSUME IInv, loop = "dispatch", NEW k \in DOMAIN queue, NextAction(k)
    PROVE  LoopTypeOK' /\ Planned' /\ UNCHANGED events
<1> DEFINE rest == [l \in DOMAIN queue \ {k} |-> queue[l]]
<1>1. TypeOK /\ Planned
  BY DEF IInv
<1>2. DOMAIN rest \subseteq Key /\ rest \in [DOMAIN rest -> Types]
  BY <1>1 DEF TypeOK, Types
<1>3. GoOn(NoEvents, rest) /\ UNCHANGED snap
  BY DEF NextAction
<1>4. DOMAIN rest = DOMAIN queue \ {k}
  OBVIOUS
<1> HIDE DEF rest
<1>5. /\ LoopTypeOK' /\ events' = NoEvents /\ queue' = rest
      /\ DOMAIN rest # {} => opts' = opts
  BY <1>1, <1>2, <1>3, NothingType, GoOnType
<1>6. events = NoEvents
  <2>1. DOMAIN events = {} /\ events \in [DOMAIN events -> EventTypes]
    BY <1>1 DEF TypeOK, EventTypes
  <2> QED
    BY <2>1, NothingType
<1> QED
  BY <1>1, <1>3, <1>4, <1>5, <1>6 DEF Planned

LEMMA PassOverIInv ==
    ASSUME IInv, loop = "dispatch", NEW k \in DOMAIN queue, PassOver(k)
    PROVE  IInv'
<1>1. TypeOK /\ PoolInv
  BY DEF IInv
<1>2. PoolInv'
  BY <1>1, PoolStays DEF PassOver
<1>3. NextAction(k)
  BY DEF PassOver
<1>4. TypeOK'
  BY <1>1, <1>2, <1>3, NextActionType
     DEF PassOver, NextAction, TypeOK, PoolInv, LoopTypeOK, LoopType, Types, EventTypes
<1> QED
  BY <1>2, <1>3, <1>4, NextActionType, StatusStays DEF NextAction, IInv

LEMMA SubmitIInv ==
    ASSUME IInv, loop = "dispatch", NEW k \in DOMAIN queue, Submit(k)
    PROVE  IInv'
<1>1. TypeOK /\ PoolInv /\ k \in Key /\ queue[k] \in Types \ {"report"}
  BY DEF IInv, TypeOK, Types, Submit, HeldBack
<1>2. PoolInv'
  BY <1>1, AcceptPoolInv, PoolStays DEF Submit, SkipRunning, SkipFull
<1>3. NextAction(k)
  BY DEF Submit
<1>4. act' \in [Worker -> {"create", "update", "delete", None}] /\ dropped' \in SUBSET Key
  BY <1>1 DEF Submit, TypeOK, Types
<1>5. TypeOK'
  BY <1>1, <1>2, <1>3, <1>4, NextActionType
     DEF NextAction, TypeOK, PoolInv, LoopTypeOK, LoopType, Types, EventTypes
<1> QED
  BY <1>2, <1>3, <1>5, NextActionType, StatusStays DEF NextAction, IInv

\* Steps in which the pass and the status stay as they are.
LEMMA BesideThePass ==
    ASSUME IInv, PoolInv', UNCHANGED <<loopVars, snap, last, lost>>,
           world' \in [Key -> World], saved' \in Options \cup {NotSaved},
           act' \in [Worker -> {"create", "update", "delete", None}],
           dropped' \in SUBSET Key, spent' \in [upset : Nat, save : Nat]
    PROVE  IInv'
<1>1. TypeOK /\ Planned
  BY DEF IInv
<1>2. TypeOK' /\ Planned'
  BY <1>1 DEF TypeOK, PoolInv, Planned, loopVars
<1> QED
  BY <1>2, StatusStays DEF IInv, loopVars

LEMMA FinishIInv ==
    ASSUME IInv, NEW w \in Worker, NEW o \in Outcome, Finish(w, o)
    PROVE  IInv'
<1>1. TypeOK /\ PoolInv
  BY DEF IInv
<1>2. PoolInv'
  BY <1>1, ApplyPoolInv DEF Finish
<1>3. job[w] \in Key
  BY <1>1 DEF Finish, Apply, PoolInv, Carried, Registered
<1>4. PICK v : /\ v \in IF o = "applied" THEN Effect(act[w], world[job[w]]) ELSE {world[job[w]]}
               /\ world' = [world EXCEPT ![job[w]] = v]
  BY DEF Finish
<1>5. v \in World
  <2>1. world[job[w]] \in World
    BY <1>1, <1>3 DEF TypeOK
  <2> QED
    BY <1>4, <2>1, EffectType
<1>6. world' \in [Key -> World]
  BY <1>1, <1>4, <1>5 DEF TypeOK
<1> QED
  BY <1>1, <1>2, <1>6, BesideThePass DEF Finish, TypeOK

LEMMA WindIInv ==
    ASSUME IInv, NEW w \in Worker, Wind(w)
    PROVE  IInv'
<1>1. TypeOK /\ PoolInv
  BY DEF IInv
<1>2. PoolInv'
  BY <1>1, RecordPoolInv, ReleasePoolInv, ForgetPoolInv DEF Wind
<1>3. act' \in [Worker -> {"create", "update", "delete", None}]
  BY <1>1 DEF Wind, TypeOK
<1> QED
  BY <1>1, <1>2, <1>3, BesideThePass DEF Wind, TypeOK

LEMMA DriftIInv ==
    ASSUME IInv, NEW k \in Key, Drift(k)
    PROVE  IInv'
<1>1. TypeOK /\ PoolInv
  BY DEF IInv
<1>2. PoolInv' /\ spent' \in [upset : Nat, save : Nat]
  BY <1>1, PoolStays, SpentType DEF Drift
<1>3. world' \in [Key -> World]
  BY <1>1 DEF Drift, TypeOK
<1> QED
  BY <1>1, <1>2, <1>3, BesideThePass DEF Drift, TypeOK

LEMMA SaveIInv == IInv /\ SaveSettings => IInv'
<1> SUFFICES ASSUME IInv, SaveSettings PROVE IInv'
  OBVIOUS
<1>1. TypeOK /\ PoolInv
  BY DEF IInv
<1>2. PoolInv' /\ spent' \in [upset : Nat, save : Nat]
  BY <1>1, PoolStays, SpentType DEF SaveSettings
<1> QED
  BY <1>1, <1>2, BesideThePass DEF SaveSettings, TypeOK

LEMMA RestartIInv == IInv /\ Restart => IInv'
<1> SUFFICES ASSUME IInv, Restart PROVE IInv'
  OBVIOUS
<1>1. TypeOK
  BY DEF IInv
<1>2. PoolInv'
  BY PoolLostInv DEF Restart
<1>3. spent' \in [upset : Nat, save : Nat]
  BY <1>1, SpentType DEF Restart
<1>4. /\ snap' \in SnapType /\ ~snap'.inSync /\ ~snap'.configured
      /\ \A k \in Key : snap'.state[k] = "none"
  BY DEF Restart, NewStore, SnapType
<1>5. act' \in [Worker -> {"create", "update", "delete", None}]
  BY DEF Restart
<1>6. TypeOK'
  BY <1>1, <1>2, <1>3, <1>4, <1>5, NothingType
     DEF Restart, TypeOK, PoolInv, SnapType, Types, EventTypes
<1>7. Planned'
  BY NothingType DEF Restart, Planned
<1>8. SnapshotConsistent' /\ OutOfSyncIsExplained' /\ EventOfShown'
  BY <1>4, NothingType
     DEF Restart, SnapshotConsistent, OutOfSyncIsExplained, EventOfShown
<1> QED
  BY <1>2, <1>6, <1>7, <1>8 DEF IInv

\* Every step of the specification preserves the inductive invariant.
LEMMA NextIInv == IInv /\ [Next]_vars => IInv'
<1> SUFFICES ASSUME IInv, [Next]_vars PROVE IInv'
  OBVIOUS
<1>1. CASE Loop
  BY <1>1, BeginPassIInv, UnconfiguredIInv, ScanFailsIInv, ScanPlansIInv,
     RecordEventIInv, PassOverIInv, SubmitIInv DEF Loop
<1>2. ASSUME NEW w \in Worker, Wind(w) \/ \E o \in Outcome : Finish(w, o) PROVE IInv'
  BY <1>2, WindIInv, FinishIInv
<1>3. ASSUME NEW k \in Key, Drift(k) PROVE IInv'
  BY <1>3, DriftIInv
<1>4. CASE SaveSettings
  BY <1>4, SaveIInv
<1>5. CASE Restart
  BY <1>5, RestartIInv
<1>6. CASE UNCHANGED vars
  <2>1. PoolInv'
    BY <1>6, PoolStays DEF vars, IInv
  <2>2. TypeOK
    BY DEF IInv
  <2> QED
    BY <1>6, <2>1, <2>2, BesideThePass DEF vars, engineVars, TypeOK
<1> QED
  BY <1>1, <1>2, <1>3, <1>4, <1>5, <1>6 DEF Next

-----------------------------------------------------------------------------

THEOREM Invariance == Spec => []IInv
BY InitIInv, NextIInv, PTL DEF Spec

\* The pass, the status and the dispatcher under it keep their types, through
\* any settings, failures and crashes.
THEOREM TypeCorrect == Spec => []TypeOK
BY Invariance, PTL DEF IInv

\* The snapshot never contradicts itself: recordStatus and recordError say "in
\* sync" of the whole exactly when they say it of every part.
THEOREM StatusIsConsistent == Spec => []SnapshotConsistent
BY Invariance, PTL DEF IInv

\* Whatever is shown as OutOfSync has "drifted" as its last transition in the
\* history, or the pass that shows it has yet to record that, or its recording
\* has failed: failed and unconfigured passes and crashes lose no other.
THEOREM DriftIsLogged == Spec => []OutOfSyncIsExplained
BY Invariance, PTL DEF IInv

\* Scan starts only what the options of its pass allow, whatever is saved while
\* it goes through the plan, and only after the status has shown why and the
\* history has been told, or could not be.
THEOREM PolicyIsKept == Spec => Policy
<1>1. IInv /\ [Next]_vars =>
         [\A w \in Worker :
            act[w] = None /\ act'[w] # None =>
               /\ opts.auto /\ ~opts.dry
               /\ act'[w] = "delete" => opts.prune
               /\ snap.state[job'[w]] = "OutOfSync"
               /\ last[job'[w]] = "drifted" \/ job'[w] \in lost]_vars
  <2> SUFFICES ASSUME IInv, Next, NEW w \in Worker, act[w] = None, act'[w] # None
               PROVE  /\ opts.auto /\ ~opts.dry
                      /\ act'[w] = "delete" => opts.prune
                      /\ snap.state[job'[w]] = "OutOfSync"
                      /\ last[job'[w]] = "drifted" \/ job'[w] \in lost
    OBVIOUS
  <2>1. TypeOK /\ PoolInv /\ Planned /\ OutOfSyncIsExplained
    BY DEF IInv
  <2>2. PICK k \in DOMAIN queue : loop = "dispatch" /\ Submit(k)
    <3>1. ASSUME NEW v \in Worker, Wind(v) PROVE act'[w] = None
      BY <3>1, <2>1 DEF Wind, TypeOK
    <3>2. ASSUME NEW v \in Worker, NEW o \in Outcome, Finish(v, o) PROVE FALSE
      BY <3>2 DEF Finish
    <3>3. ~Restart /\ ~SaveSettings /\ \A k \in Key : ~Drift(k)
      BY DEF Restart, SaveSettings, Drift
    <3>4. Loop
      BY <3>1, <3>2, <3>3 DEF Next
    <3>5. /\ ~BeginPass /\ ~Unconfigured /\ ~ScanFails /\ ~ScanPlans
          /\ \A k : ~RecordEvent(k) /\ ~PassOver(k)
      BY DEF BeginPass, Unconfigured, ScanFails, ScanPlans, RecordEvent, PassOver
    <3> QED
      BY <3>4, <3>5 DEF Loop
  <2>3. Accept(k) /\ act' = [act EXCEPT ![Fresh] = queue[k]]
    BY <2>1, <2>2 DEF Submit, TypeOK
  <2>4. w = Fresh /\ act'[w] = queue[k]
    BY <2>1, <2>3 DEF TypeOK
  <2>5. job'[w] = k /\ k \in Key
    BY <2>1, <2>3, <2>4 DEF Accept, Launch, TypeOK, PoolTypeOK
  <2>6. opts.auto /\ snap.state[k] = "OutOfSync"
    BY <2>1, <2>2 DEF Planned
  <2>7. DOMAIN events = {}
    BY <2>1, <2>2 DEF TypeOK
  <2>8. last[k] = "drifted" \/ k \in lost
    BY <2>1, <2>5, <2>6, <2>7 DEF OutOfSyncIsExplained
  <2>9. ~HeldBack(queue[k])
    BY <2>2 DEF Submit
  <2> QED
    BY <2>4, <2>5, <2>6, <2>8, <2>9 DEF HeldBack
<1> QED
  BY <1>1, Invariance, PTL DEF Spec, Policy
=============================================================================
