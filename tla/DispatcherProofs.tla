-------------------------- MODULE DispatcherProofs --------------------------
(***************************************************************************)
(* Proofs about DispatcherHistory for any number of keys, any finite       *)
(* number of goroutines and any limit handed to NewDispatcher.  What the   *)
(* steps do to the dispatcher's own variables is in PoolProofs.            *)
(***************************************************************************)
EXTENDS DispatcherHistory, PoolProofs

\* A goroutine works on the latest start of its key.
Ticketed == \A w \in Worker : Registered(w) => ticket[w] = starts[job[w]]

\* Once Wait has returned, every goroutine is gone.
Quiet == caller = "done" => Busy = {}

IInv ==
    /\ TypeOK
    /\ PoolInv
    /\ Ticketed
    /\ OneOutcomePerStart
    /\ Quiet

-----------------------------------------------------------------------------

\* The initial states satisfy the inductive invariant.
LEMMA InitIInv == Init => IInv
<1> SUFFICES ASSUME Init PROVE IInv
  OBVIOUS
<1>1. PoolInit /\ PoolInv
  BY PoolEmpty DEF Init
<1>2. \A w \in Worker : ~Registered(w) /\ ~Unrecorded(w)
  BY <1>1 DEF PoolInit, Registered, Unrecorded
<1>3. TypeOK
  <2>1. \A k \in Key : history[k] \in Seq(Nat \X Outcome)
    BY DEF Init
  <2> QED
    BY <1>1, <2>1 DEF Init, TypeOK, PoolInv
<1>4. Ticketed /\ OneOutcomePerStart /\ Quiet
  BY <1>2 DEF Init, Ticketed, OneOutcomePerStart, Quiet
<1> QED
  BY <1>1, <1>3, <1>4 DEF IInv

\* Submit's accepting branch: the goroutine gets the next start of its key.
LEMMA AcceptIInv ==
    ASSUME IInv, NEW k \in Key, SubmitStarted(k)
    PROVE  IInv'
<1>1. PICK f \in Worker : f = Fresh
  BY AcceptTakes DEF IInv, SubmitStarted
<1>2. /\ pc[f] = "idle" /\ pc'[f] = "apply" /\ job'[f] = k
      /\ \A w \in Worker \ {f} : pc'[w] = pc[w] /\ job'[w] = job[w]
      /\ \A w \in Busy : job[w] # k
  BY <1>1, AcceptTakes DEF IInv, SubmitStarted
<1>3. /\ starts' = [starts EXCEPT ![k] = @ + 1]
      /\ ticket' = [ticket EXCEPT ![f] = starts[k] + 1]
      /\ caller = "submitting" /\ UNCHANGED <<caller, history>>
  BY <1>1 DEF SubmitStarted
<1>4. TypeOK /\ PoolInv /\ Ticketed /\ OneOutcomePerStart
  BY DEF IInv
<1>5. PoolInv'
  BY <1>4, AcceptPoolInv DEF SubmitStarted
<1>6. TypeOK'
  <2>1. starts' \in [Key -> Nat] /\ ticket' \in [Worker -> Nat]
    BY <1>3, <1>4 DEF TypeOK
  <2> QED
    BY <2>1, <1>3, <1>4, <1>5 DEF TypeOK, PoolInv
<1>7. Ticketed'
  <2> SUFFICES ASSUME NEW w \in Worker, Registered(w)'
               PROVE  ticket'[w] = starts'[job'[w]]
    BY DEF Ticketed
  <2>1. CASE w = f
    BY <2>1, <1>2, <1>3, <1>4 DEF TypeOK
  <2>2. CASE w # f
    <3>1. Registered(w) /\ job'[w] = job[w] /\ ticket'[w] = ticket[w]
      BY <2>2, <1>2, <1>3, <1>4 DEF Registered, TypeOK
    <3>2. job[w] # k /\ job[w] \in Key
      BY <3>1, <1>2, <1>4 DEF Busy, PoolInv, Carried
    <3> QED
      BY <3>1, <3>2, <1>3, <1>4 DEF Ticketed, TypeOK
  <2> QED
    BY <2>1, <2>2
<1>8. OneOutcomePerStart'
  <2> SUFFICES ASSUME NEW j \in Key
               PROVE  /\ \A i \in DOMAIN history[j] : history[j][i][1] = i
                      /\ Len(history[j]) =
                           IF \E w \in Worker : Unrecorded(w)' /\ job'[w] = j
                           THEN starts'[j] - 1 ELSE starts'[j]
    BY <1>3 DEF OneOutcomePerStart
  <2>1. /\ \A i \in DOMAIN history[j] : history[j][i][1] = i
        /\ Len(history[j]) =
             IF \E w \in Worker : Unrecorded(w) /\ job[w] = j THEN starts[j] - 1 ELSE starts[j]
    BY <1>4 DEF OneOutcomePerStart
  <2>2. CASE j = k
    <3>1. ~ \E w \in Worker : Unrecorded(w) /\ job[w] = k
      BY <1>2 DEF Unrecorded, Busy, Registered
    <3>2. \E w \in Worker : Unrecorded(w)' /\ job'[w] = k
      BY <1>2 DEF Unrecorded
    <3>3. starts'[k] - 1 = starts[k]
      BY <1>3, <1>4 DEF TypeOK
    <3> QED
      BY <3>1, <3>2, <3>3, <2>1, <2>2
  <2>3. CASE j # k
    <3>1. \A w \in Worker : (Unrecorded(w) /\ job[w] = j) <=> (Unrecorded(w)' /\ job'[w] = j)
      BY <2>3, <1>2 DEF Unrecorded
    <3>2. starts'[j] = starts[j]
      BY <2>3, <1>3, <1>4 DEF TypeOK
    <3> QED
      BY <3>1, <3>2, <2>1
  <2> QED
    BY <2>2, <2>3
<1>9. Quiet'
  BY <1>3 DEF Quiet
<1> QED
  BY <1>5, <1>6, <1>7, <1>8, <1>9 DEF IInv

\* A step of a goroutine that records no event leaves the history as it is.
LEMMA WorkIInv ==
    ASSUME IInv, PoolInv', UNCHANGED <<caller, callVars>>, Busy' \subseteq Busy,
           \A w \in Worker : /\ Unrecorded(w)' <=> Unrecorded(w)
                             /\ Registered(w)' => Registered(w) /\ job'[w] = job[w]
    PROVE  IInv'
<1>1. TypeOK /\ Ticketed /\ OneOutcomePerStart /\ Quiet
  BY DEF IInv
<1>2. TypeOK'
  BY <1>1 DEF TypeOK, PoolInv, callVars
<1>3. Ticketed'
  BY <1>1 DEF Ticketed, callVars
<1>4. OneOutcomePerStart'
  <2>1. \A k \in Key, w \in Worker : (Unrecorded(w) /\ job[w] = k) <=> (Unrecorded(w)' /\ job'[w] = k)
    BY DEF Unrecorded, Registered
  <2> QED
    BY <1>1, <2>1 DEF OneOutcomePerStart, callVars
<1>5. Quiet'
  BY <1>1 DEF Quiet
<1> QED
  BY <1>2, <1>3, <1>4, <1>5 DEF IInv

LEMMA ApplyIInv ==
    ASSUME IInv, NEW w \in Worker, NEW o \in Outcome, Returned(w, o)
    PROVE  IInv'
<1>1. PoolInv'
  BY ApplyPoolInv DEF IInv, Returned
<1>2. \A v \in Worker : /\ Unrecorded(v)' <=> Unrecorded(v)
                        /\ Registered(v)' => Registered(v) /\ job'[v] = job[v]
  BY DEF IInv, PoolInv, PoolTypeOK, Returned, Apply, Unrecorded, Registered
<1> QED
  BY <1>1, <1>2, WorkIInv DEF Returned, Busy

LEMMA ReleaseIInv ==
    ASSUME IInv, NEW w \in Worker, Released(w)
    PROVE  IInv'
<1>1. PoolInv'
  BY ReleasePoolInv DEF IInv, Released
<1>2. \A v \in Worker : /\ Unrecorded(v)' <=> Unrecorded(v)
                        /\ Registered(v)' => Registered(v) /\ job'[v] = job[v]
  BY DEF IInv, PoolInv, PoolTypeOK, Released, Release, Unrecorded, Registered
<1> QED
  BY <1>1, <1>2, WorkIInv DEF Released, Busy

LEMMA ForgetIInv ==
    ASSUME IInv, NEW w \in Worker, Forgotten(w)
    PROVE  IInv'
<1>1. PoolInv'
  BY ForgetPoolInv DEF IInv, Forgotten
<1>2. \A v \in Worker : /\ Unrecorded(v)' <=> Unrecorded(v)
                        /\ Registered(v)' => Registered(v) /\ job'[v] = job[v]
  BY DEF IInv, PoolInv, PoolTypeOK, Forgotten, Forget, Leave, Unrecorded, Registered
<1> QED
  BY <1>1, <1>2, WorkIInv DEF Forgotten, Busy

\* The event is recorded: the history of the key of this goroutine grows by
\* its latest start, and no other goroutine works on that key.
LEMMA RecordIInv ==
    ASSUME IInv, NEW w \in Worker, Recorded(w)
    PROVE  IInv'
<1> USE DEF Recorded, Record
<1>1. TypeOK /\ PoolTypeOK /\ Carried /\ OneWorkerPerKey /\ Ticketed /\ OneOutcomePerStart /\ Quiet
  BY DEF IInv, PoolInv
<1> DEFINE k == job[w]
           n == ticket[w]
<1>2. /\ pc[w] = "record" /\ pc'[w] = "release"
      /\ \A v \in Worker \ {w} : pc'[v] = pc[v]
  BY <1>1 DEF TypeOK, PoolTypeOK
<1>3. \A v \in Worker : Registered(v)' <=> Registered(v)
  BY <1>2 DEF Registered
<1>4. PoolInv'
  BY RecordPoolInv DEF IInv, Recorded
<1>5. k \in Key /\ n = starts[k] /\ n \in Nat /\ outcome[w] \in Outcome
  BY <1>1, <1>2 DEF Carried, Ticketed, Registered, TypeOK
<1>6. history' = [history EXCEPT ![k] = Append(history[k], <<n, outcome[w]>>)]
  OBVIOUS
<1>7. history[k] \in Seq(Nat \X Outcome)
  BY <1>1, <1>5 DEF TypeOK, PoolTypeOK
<1>8. TypeOK'
  <2>1. Append(history[k], <<n, outcome[w]>>) \in Seq(Nat \X Outcome)
    BY <1>5, <1>7
  <2>2. history' \in [Key -> Seq(Nat \X Outcome)]
    BY <1>1, <1>6, <2>1 DEF TypeOK, PoolTypeOK
  <2> QED
    BY <1>1, <1>4, <2>2 DEF TypeOK, PoolInv
<1>9. Ticketed'
  BY <1>1, <1>2, <1>3 DEF Ticketed
<1>10. OneOutcomePerStart'
  <2> SUFFICES ASSUME NEW j \in Key
               PROVE  /\ \A i \in DOMAIN history'[j] : history'[j][i][1] = i
                      /\ Len(history'[j]) =
                           IF \E v \in Worker : Unrecorded(v)' /\ job[v] = j
                           THEN starts[j] - 1 ELSE starts[j]
    BY DEF OneOutcomePerStart
  <2>1. /\ \A i \in DOMAIN history[j] : history[j][i][1] = i
        /\ Len(history[j]) =
             IF \E v \in Worker : Unrecorded(v) /\ job[v] = j THEN starts[j] - 1 ELSE starts[j]
    BY <1>1 DEF OneOutcomePerStart
  <2>2. CASE j = k
    <3>1. Len(history[k]) = n - 1
      BY <1>2, <1>5, <2>1, <2>2 DEF Unrecorded
    <3>2. ~ \E v \in Worker : Unrecorded(v)' /\ job[v] = k
      <4> SUFFICES ASSUME NEW v \in Worker, Unrecorded(v)', job[v] = k
                   PROVE  FALSE
        OBVIOUS
      <4>1. v # w
        BY <1>2 DEF Unrecorded
      <4>2. Registered(v) /\ Registered(w)
        BY <1>2, <4>1 DEF Unrecorded, Registered
      <4> QED
        BY <1>1, <4>1, <4>2 DEF OneWorkerPerKey
    <3>3. history'[k] = Append(history[k], <<n, outcome[w]>>)
      BY <1>1, <1>5, <1>6 DEF TypeOK, PoolTypeOK
    <3>4. Len(history'[k]) = n
      BY <1>5, <1>7, <3>1, <3>3
    <3>5. \A i \in DOMAIN history'[k] : history'[k][i][1] = i
      <4> SUFFICES ASSUME NEW i \in DOMAIN history'[k]
                   PROVE  history'[k][i][1] = i
        OBVIOUS
      <4>1. i \in 1..n
        BY <1>7, <3>3, <3>4
      <4>2. CASE i = n
        BY <1>5, <1>7, <3>1, <3>3, <4>2
      <4>3. CASE i # n
        <5>1. i \in DOMAIN history[k] /\ history'[k][i] = history[k][i]
          BY <1>5, <1>7, <3>1, <3>3, <4>1, <4>3
        <5> QED
          BY <2>1, <2>2, <5>1
      <4> QED
        BY <4>2, <4>3
    <3> QED
      BY <2>2, <3>2, <3>4, <3>5, <1>5
  <2>3. CASE j # k
    <3>1. history'[j] = history[j]
      BY <2>3, <1>1, <1>6 DEF TypeOK, PoolTypeOK
    <3>2. \A v \in Worker : (Unrecorded(v)' /\ job[v] = j) <=> (Unrecorded(v) /\ job[v] = j)
      BY <1>2, <2>3 DEF Unrecorded
    <3> QED
      BY <2>1, <3>1, <3>2
  <2> QED
    BY <2>2, <2>3
<1>11. Quiet'
  BY <1>1, <1>3 DEF Quiet, Busy
<1> QED
  BY <1>4, <1>8, <1>9, <1>10, <1>11 DEF IInv

\* Steps that change at most the caller.
LEMMA CallerIInv ==
    ASSUME IInv, UNCHANGED <<poolVars, callVars>>, caller' \in {"submitting", "waiting", "done"},
           caller' = "done" => (caller = "done" \/ wg = 0)
    PROVE  IInv'
<1>1. TypeOK /\ PoolInv /\ Accounting /\ Ticketed /\ OneOutcomePerStart /\ Quiet
  BY DEF IInv, PoolInv
<1>2. PoolInv'
  BY <1>1, PoolStays
<1> USE DEF poolVars, callVars
<1>3. TypeOK'
  BY <1>1, <1>2 DEF TypeOK, PoolInv
<1>4. Ticketed' /\ OneOutcomePerStart'
  BY <1>1 DEF Ticketed, OneOutcomePerStart, Registered, Unrecorded
<1>5. Quiet'
  <2>1. wg = 0 => Busy = {}
    BY <1>1, SetsOfWorkers, WorkersFinite, FS_EmptySet DEF Accounting
  <2>2. Busy' = Busy
    BY DEF Busy, Registered
  <2> QED
    BY <1>1, <2>1, <2>2 DEF Quiet
<1> QED
  BY <1>2, <1>3, <1>4, <1>5 DEF IInv

\* Every step of the specification preserves the inductive invariant.
LEMMA NextIInv == IInv /\ [Next]_vars => IInv'
<1> SUFFICES ASSUME IInv, [Next]_vars PROVE IInv'
  OBVIOUS
<1>1. ASSUME NEW k \in Key, SubmitDropped(k) \/ SubmitStarted(k) PROVE IInv'
  <2>1. CASE SubmitStarted(k)
    BY <2>1, AcceptIInv
  <2>2. CASE SubmitDropped(k)
    <3>1. UNCHANGED <<poolVars, callVars>> /\ caller' = "submitting"
      BY <2>2 DEF SubmitDropped, SkipRunning, SkipFull
    <3> QED
      BY <3>1, CallerIInv
  <2> QED
    BY <1>1, <2>1, <2>2
<1>2. CASE CallWait
  BY <1>2, CallerIInv DEF CallWait
<1>3. CASE Wait
  BY <1>3, CallerIInv DEF Wait
<1>4. ASSUME NEW w \in Worker, Work(w) PROVE IInv'
  BY <1>4, ApplyIInv, RecordIInv, ReleaseIInv, ForgetIInv DEF Work
<1>5. CASE UNCHANGED vars
  <2>1. UNCHANGED <<poolVars, callVars>> /\ UNCHANGED caller /\ caller \in {"submitting", "waiting", "done"}
    BY <1>5 DEF vars, IInv, TypeOK, PoolTypeOK
  <2> QED
    BY <2>1, CallerIInv
<1> QED
  BY <1>1, <1>2, <1>3, <1>4, <1>5 DEF Next

-----------------------------------------------------------------------------

THEOREM Invariance == Spec => []IInv
BY InitIInv, NextIInv, PTL DEF Spec

\* The variables keep their types, in every behaviour of Dispatcher: Submit and
\* the goroutine of dispatcher.go never overfill nor underflow the semaphore.
THEOREM TypeCorrect == Spec => []TypeOK
BY Invariance, PTL DEF IInv

\* Two goroutines never work on the same key: the registry d.inflight does what
\* the comment on Dispatcher says of it.
THEOREM MutualExclusion == Spec => []OneWorkerPerKey
BY Invariance, PTL DEF IInv, PoolInv

\* At most Slots goroutines are inside Apply, whatever limit NewDispatcher got.
THEOREM BoundedPool == Spec => []Bounded
<1>1. IInv => Bounded
  <2> SUFFICES ASSUME IInv PROVE Cardinality(Applying) <= Slots
    BY DEF Bounded
  <2>1. Cardinality(Applying) <= Cardinality(SlotHolders)
    BY SetsOfWorkers, WorkersFinite, FS_Subset
  <2>2. Cardinality(SlotHolders) <= Slots
    BY SlotsPositive DEF IInv, PoolInv, Accounting, PoolTypeOK
  <2>3. Cardinality(Applying) \in Nat /\ Cardinality(SlotHolders) \in Nat
    BY SetsOfWorkers, WorkersFinite
  <2> QED
    BY <2>1, <2>2, <2>3, SlotsPositive
<1> QED
  BY <1>1, Invariance, PTL

\* Each start of an action leaves one event, in the order of the starts of its
\* key: Record comes before the key is forgotten.
THEOREM HistoryComplete == Spec => []OneOutcomePerStart
BY Invariance, PTL DEF IInv

\* When Dispatcher.Wait has returned nothing runs and no event is missing.
THEOREM WaitIsFinal == Spec => []WaitMeansQuiet
<1>1. IInv => WaitMeansQuiet
  <2> SUFFICES ASSUME IInv, caller = "done"
               PROVE  /\ inflight = {} /\ sem = 0
                      /\ \A k \in Key : Len(history[k]) = starts[k]
    BY DEF WaitMeansQuiet
  <2>1. Busy = {} /\ SlotHolders = {} /\ \A w \in Worker : ~Unrecorded(w)
    BY SetsOfWorkers DEF IInv, Quiet, Busy, Registered, Unrecorded
  <2>2. inflight = {} /\ sem = 0
    BY <2>1, FS_EmptySet DEF IInv, PoolInv, Accounting
  <2> QED
    BY <2>1, <2>2 DEF IInv, OneOutcomePerStart
<1> QED
  BY <1>1, Invariance, PTL

-----------------------------------------------------------------------------
(* Dispatcher implements ActionPool. *)

LEMMA RunningKeys ==
    ASSUME IInv
    PROVE  /\ running \subseteq inflight
           /\ Cardinality(running) <= sem
<1>1. running = {job[w] : w \in Applying} /\ inflight = {job[w] : w \in Busy}
  BY DEF running, IInv, PoolInv, Accounting
<1>2. Applying \subseteq SlotHolders /\ SlotHolders \subseteq Busy
  BY SetsOfWorkers
<1>3. Cardinality(running) <= Cardinality(Applying)
  <2> DEFINE f == [w \in Applying |-> job[w]]
  <2>1. f \in Surjection(Applying, running)
    BY <1>1 DEF Surjection
  <2> QED
    BY <2>1, SetsOfWorkers, WorkersFinite, FS_Surjection
<1>4. Cardinality(Applying) <= Cardinality(SlotHolders)
  BY SetsOfWorkers, WorkersFinite, FS_Subset
<1>5. Cardinality(running) \in Nat
  <2> DEFINE f == [w \in Applying |-> job[w]]
  <2>1. f \in Surjection(Applying, running)
    BY <1>1 DEF Surjection
  <2>2. IsFiniteSet(running)
    BY <2>1, SetsOfWorkers, WorkersFinite, FS_Surjection
  <2> QED
    BY <2>2, FS_CardinalityType
<1>6. Cardinality(Applying) \in Nat /\ Cardinality(SlotHolders) \in Nat
  BY SetsOfWorkers, WorkersFinite
<1>7. Cardinality(running) <= sem
  BY <1>3, <1>4, <1>5, <1>6 DEF IInv, PoolInv, Accounting
<1> QED
  BY <1>1, <1>2, <1>7

\* Accepting an action is the pool's Start.
LEMMA AcceptStarts ==
    ASSUME IInv, NEW k \in Key, SubmitStarted(k)
    PROVE  Pool!Start(k)
<1>1. PICK f \in Worker : f = Fresh /\ pc[f] = "idle"
  BY DEF Fresh, SubmitStarted, Accept, Launch
<1>2. TypeOK
  BY DEF IInv
<1>3. /\ pc'[f] = "apply" /\ job'[f] = k
      /\ \A w \in Worker \ {f} : pc'[w] = pc[w] /\ job'[w] = job[w]
  BY <1>1, <1>2 DEF SubmitStarted, Accept, Launch, TypeOK, PoolTypeOK
<1>4. Applying' = Applying \cup {f} /\ f \notin Applying
  BY <1>1, <1>3 DEF Applying, Unrecorded
<1>5. running' = running \cup {k}
  <2>1. \A w \in Applying : job'[w] = job[w]
    BY <1>3, <1>4 DEF Applying
  <2>2. {job'[w] : w \in Applying \cup {f}} = {job[w] : w \in Applying} \cup {k}
    BY <1>3, <2>1
  <2> QED
    BY <1>4, <2>2 DEF running
<1>6. k \notin running /\ Cardinality(running) < Slots
  <2>1. Cardinality(running) \in Nat
    <3> DEFINE g == [w \in Applying |-> job[w]]
    <3>1. g \in Surjection(Applying, running)
      BY DEF Surjection, running
    <3> QED
      BY <3>1, SetsOfWorkers, WorkersFinite, FS_Surjection, FS_CardinalityType
  <2>2. k \notin inflight /\ sem < Slots
    BY DEF SubmitStarted, Accept
  <2> QED
    BY <2>1, <2>2, <1>2, RunningKeys, SlotsPositive DEF TypeOK, PoolTypeOK
<1>7. starts[k] < MaxStarts[k] /\ starts' = [starts EXCEPT ![k] = @ + 1] /\ UNCHANGED history
  BY DEF SubmitStarted, Accept, Launch
<1>8. Pool!Cardinality(running) = Cardinality(running)
  BY DEF Pool!Cardinality, Cardinality, Pool!IsFiniteSet, IsFiniteSet
<1> QED
  BY <1>5, <1>6, <1>7, <1>8 DEF Pool!Start

\* Recording the event is the pool's Finish.
LEMMA RecordFinishes ==
    ASSUME IInv, NEW w \in Worker, Recorded(w)
    PROVE  Pool!Finish(job[w], outcome[w]) /\ job[w] \in Key /\ outcome[w] \in Outcome
<1>1. TypeOK /\ Carried /\ Ticketed /\ OneWorkerPerKey
  BY DEF IInv, PoolInv
<1>2. /\ pc[w] = "record" /\ pc'[w] = "release" /\ job' = job
      /\ \A v \in Worker \ {w} : pc'[v] = pc[v]
  BY <1>1 DEF Recorded, Record, TypeOK, PoolTypeOK
<1>3. job[w] \in Key /\ outcome[w] \in Outcome /\ ticket[w] = starts[job[w]]
  BY <1>1, <1>2 DEF Carried, Ticketed, Registered
<1>4. Applying' = Applying \ {w} /\ w \in Applying
  BY <1>2 DEF Applying, Unrecorded
<1>5. running' = running \ {job[w]} /\ job[w] \in running
  <2>1. \A v \in Applying \ {w} : job[v] # job[w]
    BY <1>1, <1>4 DEF OneWorkerPerKey, Applying, Unrecorded, Registered
  <2>2. {job[v] : v \in Applying \ {w}} = {job[v] : v \in Applying} \ {job[w]}
    BY <1>4, <2>1
  <2> QED
    BY <1>2, <1>4, <2>2 DEF running
<1> QED
  BY <1>3, <1>5 DEF Pool!Finish, Recorded

\* Every other step leaves the pool alone.
LEMMA OthersStutter ==
    ASSUME IInv, UNCHANGED <<starts, history>>,
           \A w \in Worker : /\ Unrecorded(w)' <=> Unrecorded(w)
                             /\ Unrecorded(w) => job'[w] = job[w]
    PROVE  UNCHANGED Pool!vars
<1>1. Applying' = Applying
  BY DEF Applying
<1>2. \A w \in Applying : job'[w] = job[w]
  BY DEF Applying
<1>3. running' = running
  BY <1>1, <1>2 DEF running
<1> QED
  BY <1>3 DEF Pool!vars

\* The goroutines, the channel and the registry of dispatcher.go implement the
\* bounded pool that keeps one action per resource and one event per action.
THEOREM Refinement == Spec => PoolSpec
<1>1. Init => Pool!Init
  <2> SUFFICES ASSUME Init PROVE Pool!Init
    OBVIOUS
  <2>1. Applying = {}
    BY DEF Init, PoolInit, Applying, Unrecorded
  <2> QED
    BY <2>1 DEF Init, PoolInit, Pool!Init, running
<1>2. IInv /\ [Next]_vars => [Pool!Next]_(Pool!vars)
  <2> SUFFICES ASSUME IInv, [Next]_vars PROVE [Pool!Next]_(Pool!vars)
    OBVIOUS
  <2>1. TypeOK
    BY DEF IInv
  <2>2. ASSUME UNCHANGED <<poolVars, callVars>> PROVE UNCHANGED Pool!vars
    BY <2>2, OthersStutter DEF poolVars, callVars, Unrecorded
  <2>3. ASSUME NEW k \in Key, SubmitDropped(k) \/ SubmitStarted(k)
        PROVE  [Pool!Next]_(Pool!vars)
    <3>1. CASE SubmitStarted(k)
      BY <3>1, AcceptStarts DEF Pool!Next
    <3>2. CASE SubmitDropped(k)
      BY <3>2, <2>2 DEF SubmitDropped, SkipRunning, SkipFull
    <3> QED
      BY <2>3, <3>1, <3>2
  <2>4. CASE CallWait \/ Wait \/ UNCHANGED vars
    BY <2>4, <2>2 DEF CallWait, Wait, vars
  <2>5. ASSUME NEW w \in Worker, Work(w) PROVE [Pool!Next]_(Pool!vars)
    <3>1. ASSUME NEW o \in Outcome, Returned(w, o) PROVE UNCHANGED Pool!vars
      <4>1. \A v \in Worker : Unrecorded(v)' <=> Unrecorded(v)
        BY <3>1, <2>1 DEF Returned, Apply, Unrecorded, TypeOK, PoolTypeOK
      <4> QED
        BY <3>1, <4>1, OthersStutter DEF Returned, Apply, callVars
    <3>2. ASSUME Recorded(w) PROVE Pool!Next
      BY <3>2, RecordFinishes DEF Pool!Next, Outcome, Pool!Outcome
    <3>3. ASSUME Released(w) PROVE UNCHANGED Pool!vars
      <4>1. \A v \in Worker : Unrecorded(v)' <=> Unrecorded(v)
        BY <3>3, <2>1 DEF Released, Release, Unrecorded, TypeOK, PoolTypeOK
      <4> QED
        BY <3>3, <4>1, OthersStutter DEF Released, Release, callVars
    <3>4. ASSUME Forgotten(w) PROVE UNCHANGED Pool!vars
      <4>1. \A v \in Worker : /\ Unrecorded(v)' <=> Unrecorded(v)
                              /\ Unrecorded(v) => job'[v] = job[v]
        BY <3>4, <2>1 DEF Forgotten, Forget, Leave, Unrecorded, TypeOK, PoolTypeOK
      <4> QED
        BY <3>4, <4>1, OthersStutter DEF Forgotten, Forget, Leave, callVars
    <3> QED
      BY <2>5, <3>1, <3>2, <3>3, <3>4 DEF Work
  <2> QED
    BY <2>3, <2>4, <2>5 DEF Next
<1> QED
  BY <1>1, <1>2, Invariance, PTL DEF Spec, PoolSpec, Pool!Spec
=============================================================================
