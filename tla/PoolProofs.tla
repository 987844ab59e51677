----------------------------- MODULE PoolProofs -----------------------------
(***************************************************************************)
(* Lemmas about the dispatcher's own steps, whoever submits: an inductive  *)
(* invariant of the semaphore, the wait group, the registry and the        *)
(* goroutines.  DispatcherProofs and EngineProofs rest on it.              *)
(***************************************************************************)
EXTENDS Dispatcher, FiniteSetTheorems, TLAPS

\* Every token in the channel is held by one goroutine, the wait group counts
\* the goroutines, and a key is registered exactly while one works on it.
Accounting ==
    /\ sem = Cardinality(SlotHolders)
    /\ wg = Cardinality(Busy)
    /\ inflight = {job[w] : w \in Busy}

\* What a goroutine carries fits where it is.
Carried ==
    \A w \in Worker :
        /\ Registered(w) => job[w] \in Key
        /\ pc[w] = "record" => outcome[w] \in Outcome

PoolInv ==
    /\ PoolTypeOK
    /\ Accounting
    /\ Carried
    /\ OneWorkerPerKey

-----------------------------------------------------------------------------

LEMMA SlotsPositive == Slots \in Nat \ {0}
BY DispatcherAssumption DEF Slots, defaultConcurrency

LEMMA WorkersFinite == ASSUME NEW S \in SUBSET Worker
                       PROVE  IsFiniteSet(S) /\ Cardinality(S) \in Nat
BY DispatcherAssumption, FS_Subset, FS_CardinalityType

LEMMA SetsOfWorkers ==
    /\ SlotHolders \in SUBSET Worker
    /\ Busy \in SUBSET Worker
    /\ Applying \in SUBSET SlotHolders
    /\ SlotHolders \in SUBSET Busy
BY DEF SlotHolders, Busy, Applying, HoldsSlot, Registered, Unrecorded

\* A dispatcher without goroutines satisfies the invariant.
LEMMA PoolEmpty == PoolInit => PoolInv
<1> SUFFICES ASSUME PoolInit PROVE PoolInv
  OBVIOUS
<1> USE DEF PoolInit
<1>1. SlotHolders = {} /\ Busy = {}
  BY DEF SlotHolders, Busy, HoldsSlot, Registered
<1>2. PoolTypeOK
  BY SlotsPositive DEF PoolTypeOK
<1>3. Accounting
  BY <1>1, FS_EmptySet DEF Accounting
<1>4. Carried /\ OneWorkerPerKey
  BY DEF Carried, OneWorkerPerKey, Registered
<1> QED
  BY <1>2, <1>3, <1>4 DEF PoolInv

\* So does one that a new process makes.
LEMMA PoolLostInv == PoolLost => PoolInv'
<1> SUFFICES ASSUME PoolLost PROVE PoolInv'
  OBVIOUS
<1> USE DEF PoolLost
<1>1. SlotHolders' = {} /\ Busy' = {}
  BY DEF SlotHolders, Busy, HoldsSlot, Registered
<1>2. PoolTypeOK'
  BY SlotsPositive DEF PoolTypeOK
<1>3. Accounting'
  BY <1>1, FS_EmptySet DEF Accounting
<1>4. Carried' /\ OneWorkerPerKey'
  BY DEF Carried, OneWorkerPerKey, Registered
<1> QED
  BY <1>2, <1>3, <1>4 DEF PoolInv

LEMMA PoolStays == PoolInv /\ UNCHANGED poolVars => PoolInv'
BY DEF PoolInv, poolVars, PoolTypeOK, Accounting, Carried, OneWorkerPerKey,
       SlotHolders, Busy, HoldsSlot, Registered

\* What Submit's accepting branch does: a goroutine that was idle takes a slot
\* for a key nobody works on.
LEMMA AcceptTakes ==
    ASSUME PoolInv, NEW k \in Key, Accept(k)
    PROVE  /\ Fresh \in Worker /\ pc[Fresh] = "idle"
           /\ k \notin inflight /\ sem < Slots
           /\ sem' = sem + 1 /\ wg' = wg + 1 /\ inflight' = inflight \cup {k}
           /\ UNCHANGED outcome
           /\ pc'[Fresh] = "apply" /\ job'[Fresh] = k
           /\ \A w \in Worker \ {Fresh} : pc'[w] = pc[w] /\ job'[w] = job[w]
           /\ \A w \in Busy : job[w] # k
<1>1. Fresh \in Worker /\ pc[Fresh] = "idle"
  BY DEF Fresh, Accept, Launch
<1>2. \A w \in Busy : job[w] # k
  BY DEF PoolInv, Accounting, Accept
<1> QED
  BY <1>1, <1>2 DEF PoolInv, PoolTypeOK, Accept, Launch

LEMMA AcceptPoolInv ==
    ASSUME PoolInv, NEW k \in Key, Accept(k)
    PROVE  PoolInv'
<1>1. PICK g \in Worker : g = Fresh
  BY AcceptTakes
<1>2. /\ k \notin inflight /\ sem < Slots
      /\ sem' = sem + 1 /\ wg' = wg + 1 /\ inflight' = inflight \cup {k}
      /\ pc[g] = "idle" /\ UNCHANGED outcome
      /\ pc'[g] = "apply" /\ job'[g] = k
      /\ \A w \in Worker \ {g} : pc'[w] = pc[w] /\ job'[w] = job[w]
      /\ \A w \in Busy : job[w] # k
  BY <1>1, AcceptTakes
<1>3. PoolTypeOK /\ Accounting /\ Carried /\ OneWorkerPerKey
  BY DEF PoolInv
<1>4. SlotHolders' = SlotHolders \cup {g} /\ g \notin SlotHolders
  BY <1>2 DEF SlotHolders, HoldsSlot
<1>5. Busy' = Busy \cup {g} /\ g \notin Busy
  BY <1>2 DEF Busy, Registered
<1>6. PoolTypeOK'
  <2>1. sem' \in 0..Slots
    BY <1>2, <1>3, SlotsPositive DEF PoolTypeOK
  <2>2. pc' \in [Worker -> {"idle", "apply", "record", "release", "forget"}]
    BY <1>3 DEF PoolTypeOK, Accept, Launch
  <2>3. job' \in [Worker -> Key \cup {NoKey}]
    BY <1>3 DEF PoolTypeOK, Accept, Launch
  <2> QED
    BY <2>1, <2>2, <2>3, <1>2, <1>3 DEF PoolTypeOK
<1>7. Accounting'
  <2>1. Cardinality(SlotHolders') = Cardinality(SlotHolders) + 1
    BY <1>4, SetsOfWorkers, WorkersFinite, FS_AddElement
  <2>2. Cardinality(Busy') = Cardinality(Busy) + 1
    BY <1>5, SetsOfWorkers, WorkersFinite, FS_AddElement
  <2>3. inflight' = {job[w] : w \in Busy}'
    <3>1. \A w \in Busy : job'[w] = job[w]
      BY <1>2, <1>5, SetsOfWorkers
    <3>2. {job'[w] : w \in Busy \cup {g}} = {job[w] : w \in Busy} \cup {k}
      BY <1>2, <3>1
    <3> QED
      BY <1>2, <1>3, <1>5, <3>2 DEF Accounting
  <2> QED
    BY <2>1, <2>2, <2>3, <1>2, <1>3 DEF Accounting
<1>8. Carried'
  BY <1>2, <1>3 DEF Carried, Registered
<1>9. OneWorkerPerKey'
  BY <1>2, <1>3, <1>5 DEF OneWorkerPerKey, Registered, Busy
<1> QED
  BY <1>6, <1>7, <1>8, <1>9 DEF PoolInv

\* Apply returns: only the place of the goroutine and its outcome change.
LEMMA ApplyPoolInv ==
    ASSUME PoolInv, NEW w \in Worker, NEW o \in Outcome, Apply(w, o)
    PROVE  PoolInv'
<1> USE DEF Apply
<1>1. PoolTypeOK /\ Accounting /\ Carried /\ OneWorkerPerKey
  BY DEF PoolInv
<1>2. /\ pc[w] = "apply" /\ pc'[w] = "record" /\ outcome'[w] = o
      /\ \A v \in Worker \ {w} : pc'[v] = pc[v] /\ outcome'[v] = outcome[v]
  BY <1>1 DEF PoolTypeOK
<1>3. \A v \in Worker : /\ Registered(v)' <=> Registered(v)
                        /\ HoldsSlot(v)' <=> HoldsSlot(v)
  BY <1>2 DEF Registered, HoldsSlot
<1>4. SlotHolders' = SlotHolders /\ Busy' = Busy
  BY <1>3 DEF SlotHolders, Busy
<1>5. PoolTypeOK'
  BY <1>1 DEF PoolTypeOK
<1>6. Accounting' /\ Carried' /\ OneWorkerPerKey'
  BY <1>1, <1>2, <1>3, <1>4 DEF Accounting, Carried, OneWorkerPerKey
<1> QED
  BY <1>5, <1>6 DEF PoolInv

\* The event is recorded: the goroutine goes on.
LEMMA RecordPoolInv ==
    ASSUME PoolInv, NEW w \in Worker, Record(w)
    PROVE  PoolInv'
<1> USE DEF Record
<1>1. PoolTypeOK /\ Accounting /\ Carried /\ OneWorkerPerKey
  BY DEF PoolInv
<1>2. /\ pc[w] = "record" /\ pc'[w] = "release"
      /\ \A v \in Worker \ {w} : pc'[v] = pc[v]
  BY <1>1 DEF PoolTypeOK
<1>3. \A v \in Worker : /\ Registered(v)' <=> Registered(v)
                        /\ HoldsSlot(v)' <=> HoldsSlot(v)
  BY <1>2 DEF Registered, HoldsSlot
<1>4. SlotHolders' = SlotHolders /\ Busy' = Busy
  BY <1>3 DEF SlotHolders, Busy
<1>5. PoolTypeOK'
  BY <1>1 DEF PoolTypeOK
<1>6. Accounting' /\ Carried' /\ OneWorkerPerKey'
  BY <1>1, <1>2, <1>3, <1>4 DEF Accounting, Carried, OneWorkerPerKey
<1> QED
  BY <1>5, <1>6 DEF PoolInv

\* The slot is returned: one holder less, one token less.
LEMMA ReleasePoolInv ==
    ASSUME PoolInv, NEW w \in Worker, Release(w)
    PROVE  PoolInv'
<1> USE DEF Release
<1>1. PoolTypeOK /\ Accounting /\ Carried /\ OneWorkerPerKey
  BY DEF PoolInv
<1>2. /\ pc[w] = "release" /\ pc'[w] = "forget"
      /\ \A v \in Worker \ {w} : pc'[v] = pc[v]
  BY <1>1 DEF PoolTypeOK
<1>3. \A v \in Worker : Registered(v)' <=> Registered(v)
  BY <1>2 DEF Registered
<1>4. SlotHolders' = SlotHolders \ {w} /\ w \in SlotHolders /\ Busy' = Busy
  BY <1>2, <1>3 DEF SlotHolders, HoldsSlot, Busy
<1>5. sem' = Cardinality(SlotHolders') /\ sem' \in Nat
  <2>1. Cardinality(SlotHolders \ {w}) = Cardinality(SlotHolders) - 1
    BY <1>4, SetsOfWorkers, WorkersFinite, FS_RemoveElement
  <2>2. Cardinality(SlotHolders \ {w}) \in Nat
    BY SetsOfWorkers, WorkersFinite
  <2> QED
    BY <1>1, <1>4, <2>1, <2>2 DEF Accounting
<1>6. PoolTypeOK'
  <2>1. sem' \in 0..Slots
    BY <1>1, <1>5, SlotsPositive DEF PoolTypeOK
  <2> QED
    BY <1>1, <2>1 DEF PoolTypeOK
<1>7. Accounting'
  BY <1>1, <1>4, <1>5 DEF Accounting
<1>8. Carried' /\ OneWorkerPerKey'
  BY <1>1, <1>2, <1>3 DEF Carried, OneWorkerPerKey
<1> QED
  BY <1>6, <1>7, <1>8 DEF PoolInv

\* The key is forgotten: nobody else works on it, so it leaves the registry
\* exactly when its last goroutine does.
LEMMA ForgetPoolInv ==
    ASSUME PoolInv, NEW w \in Worker, Forget(w)
    PROVE  PoolInv'
<1> USE DEF Forget, Leave
<1>1. PoolTypeOK /\ Accounting /\ Carried /\ OneWorkerPerKey
  BY DEF PoolInv
<1>2. /\ pc[w] = "forget" /\ pc'[w] = "idle" /\ job'[w] = NoKey
      /\ \A v \in Worker \ {w} : /\ pc'[v] = pc[v]
                                  /\ job'[v] = job[v]
                                  /\ outcome'[v] = outcome[v]
  BY <1>1 DEF PoolTypeOK
<1>3. /\ Registered(w) /\ ~Registered(w)'
      /\ \A v \in Worker \ {w} : Registered(v)' <=> Registered(v)
      /\ \A v \in Worker : HoldsSlot(v)' <=> HoldsSlot(v)
  BY <1>2 DEF Registered, HoldsSlot
<1>4. SlotHolders' = SlotHolders /\ Busy' = Busy \ {w} /\ w \in Busy
  BY <1>3 DEF SlotHolders, Busy
<1>5. wg' = Cardinality(Busy') /\ wg' \in Nat
  <2>1. Cardinality(Busy \ {w}) = Cardinality(Busy) - 1
    BY <1>4, SetsOfWorkers, WorkersFinite, FS_RemoveElement
  <2>2. Cardinality(Busy \ {w}) \in Nat
    BY SetsOfWorkers, WorkersFinite
  <2> QED
    BY <1>1, <1>4, <2>1, <2>2 DEF Accounting
<1>6. inflight' = {job[v] : v \in Busy}'
  <2>1. inflight = {job[v] : v \in Busy}
    BY <1>1 DEF Accounting
  <2>2. \A v \in Busy \ {w} : job'[v] = job[v] /\ job[v] # job[w]
    BY <1>1, <1>2, <1>4 DEF OneWorkerPerKey, Busy
  <2>3. {job'[v] : v \in Busy \ {w}} = {job[v] : v \in Busy} \ {job[w]}
    BY <1>4, <2>2
  <2> QED
    BY <1>4, <2>1, <2>3
<1>7. PoolTypeOK'
  <2>1. pc' \in [Worker -> {"idle", "apply", "record", "release", "forget"}] /\ job' \in [Worker -> Key \cup {NoKey}]
    BY <1>1 DEF PoolTypeOK
  <2>2. outcome' \in [Worker -> Outcome \cup {None}]
    BY <1>1 DEF PoolTypeOK
  <2> QED
    BY <1>1, <1>5, <2>1, <2>2 DEF PoolTypeOK
<1>8. Accounting'
  BY <1>1, <1>4, <1>5, <1>6 DEF Accounting
<1>9. Carried' /\ OneWorkerPerKey'
  BY <1>1, <1>2, <1>3 DEF Carried, OneWorkerPerKey
<1> QED
  BY <1>7, <1>8, <1>9 DEF PoolInv
=============================================================================
