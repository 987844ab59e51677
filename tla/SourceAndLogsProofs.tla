------------------------ MODULE SourceAndLogsProofs -------------------------
(* Two components that many goroutines share without a common lock: the    *)
(* directory of the Git source, for any readers, files, repositories and   *)
(* bounds; and the log buffer with its pages, for any goroutines, pages,   *)
(* capacities and bounds.                                                  *)
EXTENDS Checkout, LogBuffer, SequenceTheorems, TLAPS

-----------------------------------------------------------------------------
(* The source. *)

\* What a forced checkout has written so far is of its commit, as long as its
\* reader is alone.
WritesOneCommit ==
    \A r \in Reader : rd[r].alone /\ rd[r].step = "checkout" =>
        \A f \in File \ rd[r].todo : tree[f] = rd[r].target

SourceInv == SourceTypeOK /\ WritesOneCommit /\ LoadsOneCommit

Record == [step : Step, repo : Url \cup {None}, target : Commit \cup {0}, todo : SUBSET File,
           got : Content, alone : BOOLEAN]

\* What the invariant says of one reader d, when there is a clone or not, and the
\* tree is t.
ReaderOK(d, cloned, t) ==
    /\ d \in Record
    /\ d.step # "idle" => d.repo \in Url
    /\ d.step \in Cloning => cloned
    /\ d.step \in {"populate", "checkout", "load"} => d.target \in Commit /\ d.todo # {}
    /\ d.alone /\ d.step = "checkout" => \A f \in File \ d.todo : t[f] = d.target
    /\ d.alone /\ d.step = "load" =>
         \A f \in File : t[f] = d.target /\ (f \notin d.todo => d.got[f] = d.target)

Clones == [origin : Url \cup {None}, tracking : Commit \cup {0}, local : Commit \cup {0}]

\* One reader clones, and one that is alone is.
Apart(readers) ==
    \A r \in Reader :
        /\ readers[r].step \in Cloning =>
              \A o \in Reader \ {r} : readers[o].step \notin Cloning
        /\ readers[r].alone => \A o \in Reader \ {r} : readers[o].step = "idle"

LEMMA SourceInvParts ==
    SourceInv <=>
        /\ head \in [Url -> Commit \cup {Gone}]
        /\ url \in Url
        /\ clone \in Clones \cup {None}
        /\ tree \in Content /\ seen \in Content
        /\ rd \in [Reader -> Record]
        /\ \A r \in Reader : ReaderOK(rd[r], clone # None, tree)
        /\ Apart(rd)
        /\ spent \in [commits : Nat, reads : Nat, upsets : Nat]
BY DEF SourceInv, SourceTypeOK, WritesOneCommit, LoadsOneCommit, ReaderOK, Record, Clones, Apart

\* The same of the next state.
LEMMA SourceInvNext ==
    ASSUME head' \in [Url -> Commit \cup {Gone}], url' \in Url, clone' \in Clones \cup {None},
           tree' \in Content, seen' \in Content, rd' \in [Reader -> Record],
           \A r \in Reader : ReaderOK(rd'[r], clone' # None, tree'), Apart(rd'),
           spent' \in [commits : Nat, reads : Nat, upsets : Nat]
    PROVE  SourceInv'
BY DEF SourceInv, SourceTypeOK, WritesOneCommit, LoadsOneCommit, ReaderOK, Record, Clones, Apart,
       Commit, Content, Step, Cloning

\* A source that is done, or not begun, owes nothing.
LEMMA IdleOK ==
    ASSUME NEW cloned, NEW t
    PROVE  ReaderOK(Idle, cloned, t) /\ Idle.step = "idle" /\ ~Idle.alone
  BY DEF Idle, ReaderOK, Record, Step, Cloning, Content, Empty

\* Spending leaves numbers.
LEMMA SourceSpends ==
    ASSUME spent \in [commits : Nat, reads : Nat, upsets : Nat],
           NEW what \in {"commits", "reads", "upsets"}, NEW bound, Spend(what, bound)
    PROVE  spent' \in [commits : Nat, reads : Nat, upsets : Nat]
  BY DEF Spend

\* What pushes and deletions make of a head.
LEMMA Heads ==
    ASSUME SourceInv, NEW u \in Url, Push(u) \/ DeleteBranch(u)
    PROVE  head' \in [Url -> Commit \cup {Gone}]
<1>1. spent.commits \in Nat /\ spent.commits < MaxCommits /\ MaxCommits \in Nat
  BY CheckoutAssumption DEF SourceInv, SourceTypeOK, Push, DeleteBranch, Spend
<1>2. spent.commits + 2 \in Commit
  BY <1>1 DEF Commit
<1> QED
  BY <1>2 DEF SourceInv, SourceTypeOK, Push, DeleteBranch

\* A step of one reader that leaves it good, and the others as they are or with
\* less to answer for, keeps the invariant: where the tree changes nobody else is
\* alone, and where the clone is made or removed nobody else is cloning.
LEMMA OneReaderMoves ==
    ASSUME SourceInv, NEW r \in Reader, NEW d, rd' = [rd EXCEPT ![r] = d],
           ReaderOK(d, clone' # None, tree'), d.alone => rd[r].alone, rd[r].step # "idle",
           clone' \in Clones \cup {None},
           rd[r].step \in Cloning \/ (clone # None => clone' # None),
           d.step \in Cloning => rd[r].step \in Cloning \/ clone = None,
           tree' \in Content, seen' \in Content,
           spent' \in [commits : Nat, reads : Nat, upsets : Nat], UNCHANGED <<head, url>>
    PROVE  SourceInv'
<1>1. \A o \in Reader \ {r} : rd[o].alone = FALSE
  BY SourceInvParts DEF Record, Apart
<1>2. rd' \in [Reader -> Record]
  BY SourceInvParts DEF ReaderOK
<1>3. \A o \in Reader \ {r} : rd[o].step \in Cloning => rd[r].step \notin Cloning /\ clone # None
  BY SourceInvParts DEF Apart, ReaderOK
<1>4. \A o \in Reader : ReaderOK(rd'[o], clone' # None, tree')
  <2> SUFFICES ASSUME NEW o \in Reader \ {r}
               PROVE  ReaderOK(rd[o], clone' # None, tree')
    BY SourceInvParts
  <2> QED
    BY <1>1, <1>3, SourceInvParts DEF ReaderOK
<1>5. rd'[r] = d /\ \A o \in Reader \ {r} : rd'[o] = rd[o]
  BY SourceInvParts
<1>6. ASSUME NEW p \in Reader, NEW o \in Reader \ {p}, rd'[p].step \in Cloning
      PROVE  rd'[o].step \notin Cloning
  BY <1>3, <1>5, <1>6, SourceInvParts DEF Apart
<1>7. ASSUME NEW p \in Reader, NEW o \in Reader \ {p}, rd'[p].alone
      PROVE  rd'[o].step = "idle"
  BY <1>1, <1>5, <1>7, SourceInvParts DEF Apart
<1>8. Apart(rd')
  BY <1>6, <1>7 DEF Apart
<1> QED
  BY <1>2, <1>4, <1>8, SourceInvParts, SourceInvNext

LEMMA SourceInitInv == SourceInit => SourceInv
<1> SUFFICES ASSUME SourceInit
             PROVE  SourceInv
  OBVIOUS
<1>1. head \in [Url -> Commit \cup {Gone}] /\ url \in Url /\ clone \in Clones \cup {None}
  BY CheckoutAssumption DEF SourceInit, Commit
<1>2. tree \in Content /\ seen \in Content
  BY DEF SourceInit, Content, Empty
<1>3. \A r \in Reader : rd[r] = Idle
  BY DEF SourceInit
<1>4. rd \in [Reader -> Record]
  BY IdleOK DEF SourceInit, ReaderOK
<1>5. spent \in [commits : Nat, reads : Nat, upsets : Nat]
  BY DEF SourceInit
<1>6. "idle" \notin Cloning
  BY DEF Cloning
<1> QED
  BY <1>1, <1>2, <1>3, <1>4, <1>5, <1>6, IdleOK, SourceInvParts DEF Apart

\* Nobody else is alone once another source is made.
LEMMA BeginsInv ==
    ASSUME SourceInv, NEW r \in Reader, Begins(r),
           spent' \in [commits : Nat, reads : Nat, upsets : Nat]
    PROVE  SourceInv'
<1> DEFINE alone == \A p \in Reader : rd[p].step = "idle"
           first == [Idle EXCEPT !.step = "open", !.repo = url, !.alone = alone]
<1>1. /\ rd' = [o \in Reader |-> IF o = r THEN first ELSE [rd[o] EXCEPT !.alone = FALSE]]
      /\ UNCHANGED <<head, url, clone, tree, seen>>
  BY DEF Begins
<1>2. /\ first.step = "open" /\ first.alone = alone
      /\ ReaderOK(first, clone # None, tree)
  <2>1. alone \in BOOLEAN /\ url \in Url
    BY SourceInvParts
  <2> HIDE DEF alone
  <2> QED
    BY <2>1 DEF Idle, ReaderOK, Record, Step, Cloning, Content, Empty
<1> HIDE DEF first, alone
<1>3. ASSUME NEW o \in Reader \ {r}
      PROVE  /\ rd'[o].step = rd[o].step /\ ~rd'[o].alone
             /\ ReaderOK(rd'[o], clone # None, tree)
  <2>1. rd'[o] = [rd[o] EXCEPT !.alone = FALSE]
    BY <1>1
  <2>2. rd[o] \in Record /\ ReaderOK(rd[o], clone # None, tree)
    BY SourceInvParts
  <2> QED
    BY <2>1, <2>2 DEF ReaderOK, Record
<1>4. rd'[r] = first /\ \A o \in Reader : ReaderOK(rd'[o], clone # None, tree)
  BY <1>1, <1>2, <1>3
<1>5. Apart(rd')
  <2>1. "open" \notin Cloning
    BY DEF Cloning
  <2>2. ASSUME NEW p \in Reader, NEW o \in Reader \ {p}, rd'[p].step \in Cloning
        PROVE  rd'[o].step \notin Cloning
    <3>1. p # r /\ rd[p].step \in Cloning
      BY <1>2, <1>3, <1>4, <2>1, <2>2
    <3>2. rd[o].step \notin Cloning
      BY <3>1, SourceInvParts DEF Apart
    <3> QED
      BY <1>2, <1>3, <1>4, <2>1, <3>2
  <2>3. ASSUME NEW p \in Reader, NEW o \in Reader \ {p}, rd'[p].alone
        PROVE  rd'[o].step = "idle"
    <3>1. p = r /\ alone
      BY <1>2, <1>3, <1>4, <2>3
    <3> QED
      BY <1>3, <3>1 DEF alone
  <2> QED
    BY <2>2, <2>3 DEF Apart
<1>6. rd' \in [Reader -> Record]
  BY <1>1, <1>4 DEF ReaderOK
<1> QED
  BY <1>1, <1>4, <1>5, <1>6, SourceInvParts, SourceInvNext

LEMMA NoneIsNoClone == None \notin Clones
  BY CheckoutAssumption DEF Clones, Commit

\* The readers' records, field by field.
LEMMA RecordFields ==
    ASSUME NEW d \in Record
    PROVE  /\ d.step \in Step /\ d.repo \in Url \cup {None} /\ d.target \in Commit \cup {0} /\ d.todo \subseteq File
           /\ d.got \in Content /\ d.alone \in BOOLEAN
  BY DEF Record

LEMMA MovesInv ==
    ASSUME SourceInv, NEW r \in Reader, NEW step \in {"fetch", "resolve", "name", "clone"},
           Moves(r, step), rd[r].step # "idle", clone' \in Clones, tree' \in Content,
           step \in Cloning => rd[r].step \in Cloning \/ clone = None,
           UNCHANGED <<head, url, seen, spent>>
    PROVE  SourceInv'
<1> DEFINE d == [rd[r] EXCEPT !.step = step]
<1>0. clone' # None
  BY NoneIsNoClone
<1>1. rd' = [rd EXCEPT ![r] = d] /\ d.alone = rd[r].alone /\ d.step = step
  BY SourceInvParts DEF Moves, Record
<1>2. ReaderOK(d, clone' # None, tree')
  BY <1>0, SourceInvParts DEF ReaderOK, Record, Step, Cloning
<1> QED
  BY <1>0, <1>1, <1>2, SourceInvParts, OneReaderMoves

\* A reader that gives up, or is done, owes nothing any more; a clone it was
\* making goes with it.
LEMMA EndsInv ==
    ASSUME SourceInv, NEW r \in Reader, Ends(r), rd[r].step # "idle", seen' \in Content,
           spent' \in [commits : Nat, reads : Nat, upsets : Nat],
           \/ UNCHANGED <<clone, tree>>
           \/ rd[r].step \in Cloning /\ clone' = None /\ tree' = Empty,
           UNCHANGED <<head, url>>
    PROVE  SourceInv'
<1>1. rd' = [rd EXCEPT ![r] = Idle] /\ ~Idle.alone /\ Idle.step \notin Cloning
  BY IdleOK DEF Ends, Cloning
<1>2. ReaderOK(Idle, clone' # None, tree')
  BY IdleOK
<1>3. clone' \in Clones \cup {None} /\ tree' \in Content
  BY SourceInvParts DEF Empty, Content
<1> QED
  BY <1>1, <1>2, <1>3, SourceInvParts, OneReaderMoves

LEMMA OpenInv ==
    ASSUME SourceInv, NEW r \in Reader,
           Open(r) \/ CloneBegins(r) \/ CloneNames(r) \/ Fetch(r)
    PROVE  SourceInv'
<1>1. /\ url \in Url /\ head \in [Url -> Commit \cup {Gone}]
      /\ clone \in Clones \cup {None} /\ tree \in Content /\ seen \in Content
      /\ spent \in [commits : Nat, reads : Nat, upsets : Nat]
      /\ rd[r].step # "idle" => rd[r].repo \in Url
      /\ rd[r].step \in Cloning => clone # None
  BY SourceInvParts DEF ReaderOK
<1>2. CASE Open(r)
  <2>1. clone' \in Clones /\ tree' \in Content /\ "fetch" \notin Cloning
    BY <1>1, <1>2 DEF Open, Cloning
  <2> QED
    BY <1>2, <2>1, MovesInv DEF Open
<1>3. CASE CloneBegins(r)
  <2>1. clone' \in Clones /\ tree' \in Content
    BY <1>1, <1>3 DEF CloneBegins, Clones
  <2> QED
    BY <1>3, <2>1, MovesInv DEF CloneBegins
<1>4. CASE CloneNames(r)
  <2>1. rd[r].step \in Cloning /\ rd[r].repo \in Url /\ clone \in Clones
    BY <1>1, <1>4 DEF CloneNames, Cloning
  <2>2. clone' \in Clones /\ tree' \in Content
    BY <1>1, <1>4, <2>1 DEF CloneNames, Clones
  <2> QED
    BY <1>4, <2>1, <2>2, MovesInv DEF CloneNames
<1>5. CASE Fetch(r)
  <2>1. clone \in Clones /\ "resolve" \notin Cloning
    BY <1>1, <1>5 DEF Fetch, Cloning
  <2>2. clone' \in Clones
    <3>1. CASE head[clone.origin] = Gone
      BY <1>5, <2>1, <3>1 DEF Fetch
    <3>2. CASE head[clone.origin] # Gone
      <4>1. head[clone.origin] \in Commit
        BY <1>1, <1>5, <2>1, <3>2 DEF Fetch, Clones
      <4> QED
        BY <1>5, <2>1, <3>2, <4>1 DEF Fetch, Clones
    <3> QED
      BY <3>1, <3>2
  <2> QED
    BY <1>1, <1>5, <2>1, <2>2, MovesInv DEF Fetch
<1> QED
  BY <1>2, <1>3, <1>4, <1>5

\* What begins to write has a commit, and every file still to be written.
LEMMA WritesInv ==
    ASSUME SourceInv, NEW r \in Reader, NEW step \in {"populate", "checkout"},
           NEW target \in Commit, rd[r].step # "idle", clone # None,
           step \in Cloning => rd[r].step \in Cloning,
           rd' = [rd EXCEPT ![r].step = step, ![r].target = target, ![r].todo = File],
           clone' \in Clones, UNCHANGED <<head, url, tree, seen, spent>>
    PROVE  SourceInv'
<1> DEFINE d == [rd[r] EXCEPT !.step = step, !.target = target, !.todo = File]
<1>1. rd' = [rd EXCEPT ![r] = d]
  OBVIOUS
<1>2. rd[r] \in Record /\ clone' # None /\ File # {} /\ rd[r].repo \in Url
  BY SourceInvParts, NoneIsNoClone, CheckoutAssumption DEF ReaderOK
<1>3. /\ d \in Record /\ d.alone = rd[r].alone /\ d.step = step
      /\ d.target = target /\ d.todo = File /\ d.repo = rd[r].repo
  BY <1>2 DEF Record, Step, Cloning
<1>4. ReaderOK(d, clone' # None, tree')
  BY <1>2, <1>3 DEF ReaderOK
<1>5. /\ d.alone => rd[r].alone
      /\ d.step \in Cloning => rd[r].step \in Cloning \/ clone = None
      /\ clone' \in Clones \cup {None} /\ (clone # None => clone' # None)
  BY <1>2, <1>3
<1>6. /\ tree' \in Content /\ seen' \in Content
      /\ spent' \in [commits : Nat, reads : Nat, upsets : Nat]
  BY SourceInvParts
<1> HIDE DEF d
<1> QED
  BY <1>1, <1>4, <1>5, <1>6, OneReaderMoves

LEMMA CloneFetchesInv ==
    ASSUME SourceInv, NEW r \in Reader, CloneFetches(r)
    PROVE  SourceInv'
<1>1. rd[r].step \in Cloning /\ rd[r].step # "idle"
  BY DEF CloneFetches, Cloning
<1>2. rd[r].repo \in Url /\ clone \in Clones /\ clone # None
  BY <1>1, SourceInvParts, NoneIsNoClone DEF ReaderOK
<1>3. head[rd[r].repo] \in Commit
  BY <1>2, SourceInvParts DEF CloneFetches
<1>4. clone' \in Clones
  BY <1>2, <1>3 DEF CloneFetches, Clones
<1> QED
  BY <1>1, <1>2, <1>3, <1>4, WritesInv DEF CloneFetches

LEMMA ResolveInv ==
    ASSUME SourceInv, NEW r \in Reader, Resolve(r)
    PROVE  SourceInv'
<1>1. clone \in Clones /\ clone # None /\ "checkout" \notin Cloning /\ rd[r].step # "idle"
  BY SourceInvParts DEF Resolve, Cloning
<1>2. Candidate \in Commit
  BY <1>1 DEF Resolve, Candidate, Clones
<1> QED
  BY <1>1, <1>2, WritesInv DEF Resolve

\* The file that is written is of the reader's commit; the last one ends the clone
\* or the checkout.
LEMMA CheckoutFileInv ==
    ASSUME SourceInv, NEW r \in Reader, CheckoutFile(r)
    PROVE  SourceInv'
<1>1. PICK f \in rd[r].todo : tree' = [tree EXCEPT ![f] = rd[r].target] /\ rd' = Written(r, f)
  BY DEF CheckoutFile
<1>2. /\ UNCHANGED <<head, url, clone, seen, spent>>
      /\ rd[r].step \in {"populate", "checkout"} /\ clone # None
  BY SourceInvParts DEF CheckoutFile, Writing, ReaderOK, Cloning
<1>3. /\ rd[r] \in Record /\ rd[r].target \in Commit /\ rd[r].todo \subseteq File
      /\ tree \in Content /\ rd[r].alone \in BOOLEAN /\ rd[r].repo \in Url
      /\ rd[r].alone /\ rd[r].step = "checkout" =>
            \A g \in File \ rd[r].todo : tree[g] = rd[r].target
  BY <1>2, SourceInvParts, RecordFields DEF ReaderOK
<1>4. tree' \in Content /\ tree'[f] = rd[r].target /\ \A g \in File \ {f} : tree'[g] = tree[g]
  BY <1>1, <1>3 DEF Content
<1>5. rd[r].alone /\ rd[r].step = "checkout" =>
         \A g \in File : g = f \/ g \notin rd[r].todo => tree'[g] = rd[r].target
  BY <1>3, <1>4
<1>6. ASSUME NEW d, rd' = [rd EXCEPT ![r] = d], ReaderOK(d, clone # None, tree'),
             d.alone = rd[r].alone, d.step \in Cloning => rd[r].step \in Cloning
      PROVE  SourceInv'
  BY <1>2, <1>4, <1>6, SourceInvParts, OneReaderMoves
<1>7. CASE rd[r].todo # {f}
  <2> DEFINE d == [rd[r] EXCEPT !.todo = @ \ {f}]
  <2>1. rd' = [rd EXCEPT ![r] = d]
    BY <1>1, <1>7 DEF Written
  <2>2. /\ d \in Record /\ d.step = rd[r].step /\ d.todo = rd[r].todo \ {f}
        /\ d.target = rd[r].target /\ d.alone = rd[r].alone /\ d.repo = rd[r].repo
    BY <1>3 DEF Record
  <2>3. rd[r].todo \ {f} # {}
    BY <1>1, <1>7
  <2>4. ReaderOK(d, clone # None, tree')
    BY <1>2, <1>3, <1>5, <2>2, <2>3 DEF ReaderOK
  <2> QED
    BY <1>6, <2>1, <2>2, <2>4
<1>8. CASE rd[r].todo = {f} /\ rd[r].step = "populate"
  <2> DEFINE d == [rd[r] EXCEPT !.step = "fetch", !.todo = {}]
  <2>1. rd' = [rd EXCEPT ![r] = d]
    BY <1>1, <1>8 DEF Written
  <2>2. d \in Record /\ d.step = "fetch" /\ d.alone = rd[r].alone /\ d.repo = rd[r].repo
    BY <1>3 DEF Record, Step
  <2>3. ReaderOK(d, clone # None, tree') /\ d.step \notin Cloning
    BY <1>3, <2>2 DEF ReaderOK, Cloning
  <2> QED
    BY <1>6, <2>1, <2>2, <2>3
<1>9. CASE rd[r].todo = {f} /\ rd[r].step = "checkout"
  <2> DEFINE d == [rd[r] EXCEPT !.step = "load", !.todo = File]
  <2>1. rd' = [rd EXCEPT ![r] = d]
    BY <1>1, <1>9 DEF Written
  <2>2. /\ d \in Record /\ d.step = "load" /\ d.todo = File /\ d.repo = rd[r].repo
        /\ d.target = rd[r].target /\ d.alone = rd[r].alone
    BY <1>3 DEF Record, Step
  <2>3. File # {}
    BY CheckoutAssumption
  <2>4. ReaderOK(d, clone # None, tree') /\ d.step \notin Cloning
    BY <1>2, <1>3, <1>5, <1>9, <2>2, <2>3 DEF ReaderOK, Cloning
  <2> QED
    BY <1>6, <2>1, <2>2, <2>4
<1> QED
  BY <1>2, <1>7, <1>8, <1>9

\* What a reader that is alone finds is what it has checked out.
LEMMA LoadFileInv ==
    ASSUME SourceInv, NEW r \in Reader, LoadFile(r)
    PROVE  SourceInv'
<1>1. UNCHANGED <<head, url, clone, tree, spent>> /\ rd[r].step = "load" /\ clone # None
  BY DEF LoadFile
<1>2. /\ rd[r] \in Record /\ rd[r].repo \in Url /\ rd[r].target \in Commit /\ rd[r].todo \subseteq File
      /\ rd[r].got \in Content /\ tree \in Content /\ seen \in Content
      /\ rd[r].alone => \A g \in File : /\ tree[g] = rd[r].target
                                        /\ g \notin rd[r].todo => rd[r].got[g] = rd[r].target
  BY <1>1, SourceInvParts, RecordFields DEF ReaderOK
<1>3. PICK f \in rd[r].todo :
        LET got == [rd[r].got EXCEPT ![f] = tree[f]]
        IN  IF rd[r].todo = {f}
            THEN Ends(r) /\ seen' = IF r = Loop THEN got ELSE seen
            ELSE /\ rd' = [rd EXCEPT ![r].todo = @ \ {f}, ![r].got = got]
                 /\ UNCHANGED seen
  BY DEF LoadFile
<1> DEFINE got == [rd[r].got EXCEPT ![f] = tree[f]]
<1>4. got \in Content /\ got[f] = tree[f] /\ \A g \in File \ {f} : got[g] = rd[r].got[g]
  BY <1>2, <1>3 DEF Content
<1> HIDE DEF got
<1>5. CASE rd[r].todo = {f}
  <2>1. Ends(r) /\ seen' \in Content
    BY <1>2, <1>3, <1>4, <1>5 DEF got
  <2> QED
    BY <1>1, <2>1, SourceInvParts, EndsInv
<1>6. CASE rd[r].todo # {f}
  <2> DEFINE d == [rd[r] EXCEPT !.todo = rd[r].todo \ {f}, !.got = got]
  <2>1. rd' = [rd EXCEPT ![r] = d] /\ UNCHANGED seen
    <3>1. rd' = [rd EXCEPT ![r].todo = rd[r].todo \ {f}, ![r].got = got] /\ UNCHANGED seen
      BY <1>3, <1>6 DEF got
    <3>2. rd \in [Reader -> Record]
      BY SourceInvParts
    <3>3. DOMAIN rd[r] = {"step", "repo", "target", "todo", "got", "alone"}
      BY <3>2 DEF Record
    <3> QED
      BY <3>1, <3>2, <3>3
  <2>2. /\ d \in Record /\ d.step = "load" /\ d.todo = rd[r].todo \ {f}
        /\ d.target = rd[r].target /\ d.alone = rd[r].alone /\ d.got = got
        /\ d.repo = rd[r].repo /\ "load" \notin Cloning
    BY <1>1, <1>2, <1>4 DEF Record, Step, Cloning
  <2>3. rd[r].todo \ {f} # {}
    BY <1>3, <1>6
  <2> HIDE DEF d
  <2>4. d.alone => \A g \in File : /\ tree[g] = d.target
                                   /\ g \notin d.todo => d.got[g] = d.target
    BY <1>2, <1>3, <1>4, <2>2
  <2>5. ReaderOK(d, clone' # None, tree')
    <3>1. /\ tree' = tree /\ clone' # None
          /\ d \in Record /\ d.step = "load" /\ d.target \in Commit /\ d.todo # {}
          /\ d.repo \in Url /\ d.step \notin Cloning
      BY <1>1, <1>2, <2>2, <2>3
    <3> QED
      BY <2>4, <3>1 DEF ReaderOK
  <2> QED
    BY <1>1, <1>2, <2>1, <2>2, <2>5, SourceInvParts, OneReaderMoves
<1> QED
  BY <1>5, <1>6

\* What happens around the source leaves the directory as it is; a restart ends
\* the readers.
LEMMA AroundInv ==
    ASSUME SourceInv, (\E u \in Url : Push(u) \/ DeleteBranch(u)) \/ ChangeUrl \/ Restart
    PROVE  SourceInv'
<1>1. /\ clone' = clone /\ tree' = tree /\ seen' = seen
      /\ rd' = rd \/ rd' = [r \in Reader |-> Idle]
      /\ spent' \in [commits : Nat, reads : Nat, upsets : Nat]
  BY SourceInvParts, SourceSpends DEF Push, DeleteBranch, ChangeUrl, Restart
<1>2. head' \in [Url -> Commit \cup {Gone}] /\ url' \in Url
  BY SourceInvParts, Heads DEF Push, DeleteBranch, ChangeUrl, Restart
<1>3. /\ rd' \in [Reader -> Record]
      /\ \A r \in Reader : ReaderOK(rd'[r], clone' # None, tree')
      /\ Apart(rd')
  <2>1. CASE rd' = rd
    BY <1>1, <2>1, SourceInvParts
  <2>2. CASE rd' = [r \in Reader |-> Idle]
    <3>1. \A r \in Reader : rd'[r] = Idle
      BY <2>2
    <3>2. Idle \in Record
      BY IdleOK DEF ReaderOK
    <3>3. "idle" \notin Cloning
      BY DEF Cloning
    <3> QED
      BY <2>2, <3>1, <3>2, <3>3, IdleOK DEF Apart
  <2> QED
    BY <1>1, <2>1, <2>2
<1>4. clone' \in Clones \cup {None} /\ tree' \in Content /\ seen' \in Content
  BY <1>1, SourceInvParts
<1> QED
  BY <1>1, <1>2, <1>3, <1>4, SourceInvNext

LEMMA SourceNextInv == SourceInv /\ [SourceNext]_sourceVars => SourceInv'
<1> SUFFICES ASSUME SourceInv, [SourceNext]_sourceVars
             PROVE  SourceInv'
  OBVIOUS
<1>0. Loop \in Reader /\ Handler \subseteq Reader
  BY DEF Reader
<1>1. ASSUME NEW r \in Reader, Begins(r), UNCHANGED spent \/ Spend("reads", MaxReads)
      PROVE  SourceInv'
  <2>1. spent' \in [commits : Nat, reads : Nat, upsets : Nat]
    BY <1>1, SourceInvParts, SourceSpends
  <2> QED
    BY <1>1, <2>1, BeginsInv
<1>2. ASSUME NEW r \in Reader, Fails(r) \/ GivesUp(r)
      PROVE  SourceInv'
  <2>1. /\ spent' \in [commits : Nat, reads : Nat, upsets : Nat] /\ seen' \in Content
        /\ UNCHANGED <<head, url, seen>> /\ EndsClean(r)
    BY <1>2, SourceInvParts, SourceSpends DEF Fails, GivesUp
  <2>2. rd[r].step # "idle"
    BY <1>2 DEF Fails, GivesUp, Hopeless
  <2> QED
    BY <2>1, <2>2, EndsInv DEF EndsClean
<1>3. CASE UNCHANGED sourceVars
  BY <1>3, SourceInvParts, SourceInvNext DEF sourceVars
<1> QED
  BY <1>0, <1>1, <1>2, <1>3, AroundInv, OpenInv, CloneFetchesInv, ResolveInv, CheckoutFileInv,
     LoadFileInv
     DEF SourceNext, Desired, BeginPass, BeginRead

LEMMA SourceInvariance == SourceSpec => []SourceInv
<1> QED
  BY SourceInitInv, SourceNextInv, PTL DEF SourceSpec

\* One reader at a time makes the clone, every revision is a commit, and the
\* reader marked as alone is (git.go:63 and 73).
THEOREM SourceTypeCorrect == SourceSpec => []SourceTypeOK
<1>1. SourceInv => SourceTypeOK
  BY DEF SourceInv
<1> QED
  BY <1>1, SourceInvariance, PTL

\* A load that overlaps no other one is of the commit it resolved, whatever clones
\* that were cut short and failed, interrupted or overlapping checkouts left in
\* the directory before (git.go:100: the checkout is forced).
THEOREM AloneLoadsOneCommit == SourceSpec => []LoadsOneCommit
<1>1. SourceInv => LoadsOneCommit
  BY DEF SourceInv
<1> QED
  BY <1>1, SourceInvariance, PTL
-----------------------------------------------------------------------------
(* The log buffer: lines and their order. *)

\* Lines of n are lines; no goroutine's come twice in another order, a being who
\* logged each; those of t come after those of s.
Lines(s, n) == \A i \in 1..Len(s) : s[i] \in 1..n

Ordered(s, a) ==
    \A i, j \in 1..Len(s) : i < j /\ a[s[i]] = a[s[j]] => s[i] <= s[j]

Before(s, t, a) ==
    \A i \in 1..Len(s) : \A j \in 1..Len(t) : a[s[i]] = a[t[j]] => s[i] <= t[j]

\* One more line at the end.
LEMMA AppendOrdered ==
    ASSUME NEW s \in Seq(Nat), NEW l \in Nat, NEW a, Ordered(s, a), Before(s, <<l>>, a)
    PROVE  Ordered(Append(s, l), a)
<1>1. /\ Len(Append(s, l)) = Len(s) + 1 /\ Append(s, l)[Len(s) + 1] = l
      /\ \A i \in 1..Len(s) : Append(s, l)[i] = s[i]
      /\ Len(s) \in Nat /\ \A i \in 1..Len(s) : s[i] \in Nat
  OBVIOUS
<1>2. Len(<<l>>) = 1 /\ <<l>>[1] = l /\ 1 \in 1..1
  OBVIOUS
<1>3. \A i \in 1..Len(s) : a[s[i]] = a[l] => s[i] <= l
  BY <1>2 DEF Before
<1> QED
  BY <1>1, <1>3 DEF Ordered

\* The lines that stay, when the oldest ones go.
LEMMA LastKeeps ==
    ASSUME NEW n \in Nat \ {0}, NEW s \in Seq(Nat)
    PROVE  /\ Last(n, s) \in Seq(Nat)
           /\ \E d \in Nat : /\ Len(Last(n, s)) + d = Len(s)
                             /\ \A i \in 1..Len(Last(n, s)) : Last(n, s)[i] = s[i + d]
<1>1. CASE Len(s) <= n
  <2>1. Last(n, s) = s
    BY <1>1 DEF Last
  <2>2. 0 \in Nat /\ Len(s) \in Nat /\ Len(s) + 0 = Len(s) /\ \A i \in 1..Len(s) : i + 0 = i
    OBVIOUS
  <2>3. \A i \in 1..Len(s) : s[i] = s[i + 0]
    BY <2>2
  <2> QED
    BY <2>1, <2>2, <2>3
<1>2. CASE ~(Len(s) <= n)
  <2> DEFINE d == Len(s) - n
  <2>1. d \in Nat /\ Len(s) \in Nat
    BY <1>2
  <2>2. Last(n, s) = SubSeq(s, d + 1, Len(s))
    BY <1>2 DEF Last
  <2> HIDE DEF d
  <2>3. \A i \in d + 1 .. Len(s) : s[i] \in Nat
    BY <2>1
  <2>4. /\ Last(n, s) \in Seq(Nat)
        /\ Len(Last(n, s)) = IF d + 1 <= Len(s) THEN Len(s) - (d + 1) + 1 ELSE 0
        /\ \A i \in 1 .. Len(s) - (d + 1) + 1 : Last(n, s)[i] = s[d + 1 + i - 1]
    BY <2>1, <2>2, <2>3, SubSeqProperties, d + 1 \in Int, Len(s) \in Int
  <2>5. Len(Last(n, s)) + d = Len(s) /\ Len(Last(n, s)) = Len(s) - (d + 1) + 1
    BY <1>2, <2>1, <2>4 DEF d
  <2>6. \A i \in 1..Len(Last(n, s)) : d + 1 + i - 1 = i + d
    BY <2>1, <2>5
  <2>7. \A i \in 1..Len(Last(n, s)) : Last(n, s)[i] = s[i + d]
    BY <2>4, <2>5, <2>6
  <2> QED
    BY <2>1, <2>4, <2>5, <2>7
<1> QED
  BY <1>1, <1>2

LEMMA LastOrdered ==
    ASSUME NEW n \in Nat \ {0}, NEW s \in Seq(Nat), NEW a, NEW m, Lines(s, m), Ordered(s, a)
    PROVE  Lines(Last(n, s), m) /\ Ordered(Last(n, s), a)
<1>1. PICK d \in Nat : /\ Len(Last(n, s)) + d = Len(s)
                       /\ \A i \in 1..Len(Last(n, s)) : Last(n, s)[i] = s[i + d]
  BY LastKeeps
<1>2. Len(Last(n, s)) \in Nat /\ Len(s) \in Nat
  BY LastKeeps
<1>3. \A i \in 1..Len(Last(n, s)) : i + d \in 1..Len(s)
  BY <1>1, <1>2
<1>4. Lines(Last(n, s), m)
  BY <1>1, <1>3 DEF Lines
<1>5. \A i, j \in 1..Len(Last(n, s)) : i < j => i + d < j + d
  BY <1>2
<1>6. Ordered(Last(n, s), a)
  BY <1>1, <1>3, <1>5 DEF Ordered
<1> QED
  BY <1>4, <1>6

-----------------------------------------------------------------------------
(* The log buffer: the invariant. *)

\* Pages and channels hold lines that were logged, in order; what waits for a
\* page that is live comes after what it shows; and a line that is still to be
\* offered is the last of its goroutine.
LogOrder ==
    /\ \A p \in Page :
         /\ Lines(shown[p], Len(author)) /\ Lines(buf[p], Len(author))
         /\ Ordered(shown[p], author) /\ Ordered(buf[p], author)
         /\ page[p] = "live" => Before(shown[p], buf[p], author)
    /\ \A g \in Logger : offer[g] # 0 =>
         /\ author[offer[g]] = g
         /\ \A l \in Line : author[l] = g => l <= offer[g]

LogInv == TypeOK /\ LogOrder /\ Len(ring) <= Len(author)

\* What TypeOK says of the lock, where the lines are those offered and the
\* handlers those subscribed.
LockOK(h, t, o, sb) ==
    /\ h \in Logger \cup {Nobody} /\ t \subseteq sb
    /\ h = Nobody => t = {}
    /\ h # Nobody => o[h] # 0

LEMMA LockType == TypeOK => LockOK(holder, todo, offer, subs)
  BY DEF TypeOK, LockOK

LEMMA LogInitInv == Init => LogInv
<1> SUFFICES ASSUME Init
             PROVE  LogInv
  OBVIOUS
<1>1. /\ author = <<>> /\ ring = <<>> /\ subs = {} /\ hangups = 0
      /\ \A p \in Page : buf[p] = <<>> /\ shown[p] = <<>> /\ page[p] = "loading"
      /\ \A g \in Logger : offer[g] = 0
  BY DEF Init
<1>2. \A i \in 1..0 : FALSE
  OBVIOUS
<1>3. TypeOK
  <2>1. Retained \in Nat /\ Capacity \in Nat /\ 0 <= Retained /\ 0 <= Capacity /\ Len(<<>>) = 0
    BY LogBufferAssumption
  <2>2. author \in Seq(Logger) /\ ring \in Seq(Nat) /\ DOMAIN ring = {}
    BY <1>1
  <2>3. buf \in [Page -> Seq(Nat)] /\ shown \in [Page -> Seq(Nat)]
        /\ page \in [Page -> {"loading", "waiting", "live"}] /\ offer \in [Logger -> Nat]
    BY DEF Init
  <2>4. subs = {p \in Page : page[p] = "live"} /\ holder = Nobody /\ todo = {}
    BY <1>1 DEF Init
  <2> QED
    BY <1>1, <2>1, <2>2, <2>3, <2>4 DEF TypeOK
<1>4. LogOrder
  BY <1>1, <1>2 DEF LogOrder, Lines, Ordered, Before
<1> QED
  BY <1>1, <1>3, <1>4 DEF LogInv

\* A line more changes nothing of those that are there.
LEMMA MoreLines ==
    ASSUME NEW n \in Nat, NEW a, NEW b, \A l \in 1..n : b[l] = a[l]
    PROVE  \A s : Lines(s, n) =>
             /\ Lines(s, n + 1)
             /\ Ordered(s, a) => Ordered(s, b)
             /\ \A t : Lines(t, n) /\ Before(s, t, a) => Before(s, t, b)
<1>1. 1..n \subseteq 1..n + 1
  OBVIOUS
<1> QED
  BY <1>1 DEF Lines, Ordered, Before

\* The ring moves on by one line.
LEMMA RingMoves ==
    ASSUME TypeOK, NEW g \in Logger, Log(g)
    PROVE  /\ ring' \in Seq(Nat) /\ Len(ring') <= Retained
           /\ Len(ring) <= Len(author) => Len(ring') <= Len(author')
           /\ \A i \in DOMAIN ring' : ring'[i] = Len(author') - Len(ring') + i
           /\ Len(ring') = Retained \/ Len(ring') = Len(author')
<1> DEFINE old == IF Len(ring) = Retained THEN Tail(ring) ELSE ring
           n == Len(author)
<1>1. /\ author' = Append(author, g) /\ ring' = Append(old, n + 1)
      /\ author \in Seq(Logger) /\ ring \in Seq(Nat) /\ Len(ring) <= Retained
      /\ \A i \in 1..Len(ring) : ring[i] = n - Len(ring) + i
      /\ Len(ring) = Retained \/ Len(ring) = n
  BY DEF Log, TypeOK
<1>2. n \in Nat /\ Len(author') = n + 1 /\ Retained \in Nat /\ Retained > 0 /\ Len(ring) \in Nat
  BY <1>1, LogBufferAssumption
<1>3. /\ old \in Seq(Nat) /\ Len(old) + 1 <= Retained /\ Len(old) <= Len(ring)
      /\ \A i \in 1..Len(old) : old[i] = n - Len(old) + i
      /\ Len(old) + 1 = Retained \/ Len(old) = n
  <2>1. CASE Len(ring) = Retained
    <3>1. old = Tail(ring) /\ ring # <<>>
      BY <1>2, <2>1
    <3>2. /\ old \in Seq(Nat) /\ Len(old) = Len(ring) - 1
          /\ \A i \in 1..Len(old) : old[i] = ring[i + 1]
      BY <1>1, <3>1, HeadTailProperties
    <3> HIDE DEF old, n
    <3>3. ASSUME NEW i \in 1..Len(old)
          PROVE  old[i] = n - Len(old) + i
      <4>1. i + 1 \in 1..Len(ring) /\ n - Len(ring) + (i + 1) = n - Len(old) + i
        BY <1>2, <3>2
      <4>2. old[i] = ring[i + 1]
        BY <3>2
      <4> QED
        BY <1>1, <4>1, <4>2
    <3> QED
      BY <1>2, <2>1, <3>2, <3>3
  <2>2. CASE Len(ring) # Retained
    <3>1. old = ring
      BY <2>2
    <3> HIDE DEF old, n
    <3> QED
      BY <1>1, <1>2, <2>2, <3>1
  <2> QED
    BY <2>1, <2>2
<1> HIDE DEF old
<1>4. /\ ring' \in Seq(Nat) /\ Len(ring') = Len(old) + 1 /\ ring'[Len(old) + 1] = n + 1
      /\ \A i \in 1..Len(old) : ring'[i] = old[i]
      /\ DOMAIN ring' = 1..Len(old) + 1 /\ Len(old) \in Nat
  BY <1>1, <1>2, <1>3
<1>5. ASSUME NEW i \in DOMAIN ring'
      PROVE  ring'[i] = Len(author') - Len(ring') + i
  <2>1. CASE i \in 1..Len(old)
    BY <1>2, <1>3, <1>4, <2>1
  <2>2. CASE i = Len(old) + 1
    BY <1>2, <1>4, <2>2
  <2> QED
    BY <1>4, <2>1, <2>2
<1> QED
  BY <1>2, <1>3, <1>4, <1>5
\* What is to be shown of a step.
LEMMA NextOrder ==
    ASSUME \A p \in Page :
             /\ Lines(shown'[p], Len(author')) /\ Lines(buf'[p], Len(author'))
             /\ Ordered(shown'[p], author') /\ Ordered(buf'[p], author')
             /\ page'[p] = "live" => Before(shown'[p], buf'[p], author'),
           \A g \in Logger : offer'[g] # 0 =>
             /\ author'[offer'[g]] = g
             /\ \A l \in 1..Len(author') : author'[l] = g => l <= offer'[g]
    PROVE  LogOrder'
  BY DEF LogOrder, Line, Lines, Ordered, Before

LEMMA OneOnlyLine == \A l : \A j \in 1..Len(<<l>>) : <<l>>[j] = l
  OBVIOUS

\* A new line is the last one of its goroutine, and nobody shows it yet.
LEMMA LogInvLog == \A g \in Logger : LogInv /\ Log(g) => LogInv'
<1> SUFFICES ASSUME NEW g \in Logger, LogInv, Log(g)
             PROVE  LogInv'
  OBVIOUS
<1>1. /\ author' = Append(author, g) /\ offer[g] = 0
      /\ offer' = [offer EXCEPT ![g] = Len(author) + 1]
      /\ UNCHANGED <<lockVars, subs, buf, page, shown, hangups>>
  BY DEF Log
<1>2. author \in Seq(Logger) /\ offer \in [Logger -> Nat] /\ \A h \in Logger : offer[h] \in Line \cup {0}
  BY DEF LogInv, TypeOK
<1>3. /\ author' \in Seq(Logger) /\ Len(author') = Len(author) + 1 /\ author'[Len(author) + 1] = g
      /\ Len(author) \in Nat /\ \A l \in 1..Len(author) : author'[l] = author[l]
  BY <1>1, <1>2
<1>4. \A s : Lines(s, Len(author)) =>
        /\ Lines(s, Len(author'))
        /\ Ordered(s, author) => Ordered(s, author')
        /\ \A t : Lines(t, Len(author)) /\ Before(s, t, author) => Before(s, t, author')
  <2>1. \A l \in 1..Len(author) : author'[l] = author[l]
    BY <1>3
  <2>2. \A s : Lines(s, Len(author)) =>
          /\ Lines(s, Len(author) + 1)
          /\ Ordered(s, author) => Ordered(s, author')
          /\ \A t : Lines(t, Len(author)) /\ Before(s, t, author) => Before(s, t, author')
    BY <1>3, <2>1, MoreLines
  <2> QED
    BY <1>3, <2>2
<1>5. offer' \in [Logger -> Nat] /\ \A h \in Logger : offer'[h] \in 1..Len(author') \cup {0}
  BY <1>1, <1>2, <1>3 DEF Line
<1>6. TypeOK'
  <2>1. /\ ring' \in Seq(Nat) /\ Len(ring') <= Retained
        /\ \A i \in DOMAIN ring' : ring'[i] = Len(author') - Len(ring') + i
        /\ Len(ring') = Retained \/ Len(ring') = Len(author')
    BY RingMoves DEF LogInv
  <2>2. /\ subs' = {p \in Page : page'[p] = "live"}
        /\ buf' \in [Page -> Seq(Nat)] /\ \A p \in Page : Len(buf'[p]) <= Capacity
        /\ page' \in [Page -> {"loading", "waiting", "live"}]
        /\ shown' \in [Page -> Seq(Nat)] /\ hangups' \in Nat
    BY <1>1 DEF LogInv, TypeOK
  <2>3. LockOK(holder', todo', offer', subs')
    <3>1. /\ LockOK(holder, todo, offer, subs)
          /\ holder' = holder /\ todo' = todo /\ subs' = subs
      BY <1>1, LockType DEF LogInv, lockVars
    <3>2. ASSUME NEW h \in Logger, offer[h] # 0
          PROVE  offer'[h] # 0
      BY <1>1, <1>2, <3>2
    <3>3. Nobody \notin Logger
      BY LogBufferAssumption
    <3> QED
      BY <3>1, <3>2, <3>3 DEF LockOK
  <2> QED
    BY <1>3, <1>5, <2>1, <2>2, <2>3 DEF TypeOK, Line, LockOK
<1>7. ASSUME NEW h \in Logger, offer'[h] # 0
      PROVE  author'[offer'[h]] = h /\ \A l \in 1..Len(author') : author'[l] = h => l <= offer'[h]
  <2>1. CASE h = g
    BY <1>1, <1>2, <1>3, <2>1
  <2>2. CASE h # g
    <3>1. offer'[h] = offer[h] /\ offer[h] \in 1..Len(author)
      BY <1>1, <1>2, <1>7, <2>2 DEF Line
    <3>2. author[offer[h]] = h /\ \A l \in 1..Len(author) : author[l] = h => l <= offer[h]
      BY <1>7, <3>1 DEF LogInv, LogOrder, Line
    <3>3. \A l \in 1..Len(author') : l \in 1..Len(author) \/ author'[l] = g
      BY <1>3
    <3> QED
      BY <1>3, <2>2, <3>1, <3>2, <3>3
  <2> QED
    BY <2>1, <2>2
<1>8. LogOrder'
  <2>1. ASSUME NEW p \in Page
        PROVE  /\ Lines(shown[p], Len(author')) /\ Lines(buf[p], Len(author'))
               /\ Ordered(shown[p], author') /\ Ordered(buf[p], author')
               /\ page[p] = "live" => Before(shown[p], buf[p], author')
    BY <1>4 DEF LogInv, LogOrder
  <2>2. ASSUME NEW p \in Page
        PROVE  /\ Lines(shown'[p], Len(author')) /\ Lines(buf'[p], Len(author'))
               /\ Ordered(shown'[p], author') /\ Ordered(buf'[p], author')
               /\ page'[p] = "live" => Before(shown'[p], buf'[p], author')
    BY <1>1, <2>1
  <2> QED
    BY <1>7, <2>2, NextOrder
<1> QED
  BY <1>6, <1>8, RingMoves DEF LogInv

\* A step of one page, which leaves the lines and the goroutines alone.
LEMMA PageMoves ==
    ASSUME LogInv, NEW p \in Page, UNCHANGED <<author, ring, offer>>, hangups' \in Nat,
           LockOK(holder', todo', offer', subs'),
           NEW where \in {"waiting", "live"}, page' = [page EXCEPT ![p] = where],
           subs' = IF where = "live" THEN subs \cup {p} ELSE subs \ {p},
           NEW b \in Seq(Nat), buf' = [buf EXCEPT ![p] = b], Len(b) <= Capacity,
           NEW s \in Seq(Nat), shown' = [shown EXCEPT ![p] = s],
           Lines(s, Len(author)), Lines(b, Len(author)), Ordered(s, author), Ordered(b, author),
           where = "live" => Before(s, b, author)
    PROVE  LogInv'
<1>1. TypeOK'
  <2>1. /\ page' \in [Page -> {"loading", "waiting", "live"}]
        /\ buf' \in [Page -> Seq(Nat)] /\ shown' \in [Page -> Seq(Nat)]
        /\ \A q \in Page : Len(buf'[q]) <= Capacity
    BY DEF LogInv, TypeOK
  <2>2. subs' = {q \in Page : page'[q] = "live"}
    BY DEF LogInv, TypeOK
  <2> QED
    BY <2>1, <2>2 DEF LogInv, TypeOK, Line, LockOK
<1>2. ASSUME NEW q \in Page
      PROVE  /\ Lines(shown'[q], Len(author')) /\ Lines(buf'[q], Len(author'))
             /\ Ordered(shown'[q], author') /\ Ordered(buf'[q], author')
             /\ page'[q] = "live" => Before(shown'[q], buf'[q], author')
  <2>1. CASE q = p
    BY <2>1 DEF LogInv, TypeOK
  <2>2. CASE q # p
    BY <2>2 DEF LogInv, LogOrder, TypeOK
  <2> QED
    BY <2>1, <2>2
<1>3. \A g \in Logger : offer'[g] # 0 =>
        author'[offer'[g]] = g /\ \A l \in 1..Len(author') : author'[l] = g => l <= offer'[g]
  BY DEF LogInv, LogOrder, Line
<1>4. LogOrder'
  BY <1>2, <1>3, NextOrder
<1> QED
  BY <1>1, <1>4 DEF LogInv

\* What the invariant says of one page.
LEMMA PageParts ==
    ASSUME LogInv, NEW p \in Page
    PROVE  /\ buf \in [Page -> Seq(Nat)] /\ shown \in [Page -> Seq(Nat)]
           /\ page \in [Page -> {"loading", "waiting", "live"}] /\ hangups \in Nat
           /\ LockOK(holder, todo, offer, subs)
           /\ p \in subs <=> page[p] = "live"
           /\ buf[p] \in Seq(Nat) /\ Len(buf[p]) <= Capacity /\ Lines(buf[p], Len(author))
           /\ shown[p] \in Seq(Nat) /\ Lines(shown[p], Len(author))
           /\ Ordered(shown[p], author) /\ Ordered(buf[p], author)
           /\ page[p] = "live" => Before(shown[p], buf[p], author)
  BY LockType DEF LogInv, LogOrder, TypeOK

\* The retained lines are the last ones, in the order they were logged.
LEMMA RingOrdered ==
    ASSUME LogInv
    PROVE  ring \in Seq(Nat) /\ Lines(ring, Len(author)) /\ Ordered(ring, author)
<1>1. /\ ring \in Seq(Nat) /\ author \in Seq(Logger) /\ Retained \in Nat
      /\ \A i \in 1..Len(ring) : ring[i] = Len(author) - Len(ring) + i
      /\ Len(ring) <= Len(author)
  <2>1. ring \in Seq(Nat) /\ author \in Seq(Logger) /\ Retained \in Nat
    BY LogBufferAssumption DEF LogInv, TypeOK
  <2>2. \A i \in 1..Len(ring) : ring[i] = Len(author) - Len(ring) + i
    BY <2>1 DEF LogInv, TypeOK
  <2> QED
    BY <2>1, <2>2 DEF LogInv
<1>2. Len(ring) \in Nat /\ Len(author) \in Nat
  BY <1>1
<1>3. Lines(ring, Len(author))
  BY <1>1, <1>2 DEF Lines
<1>4. Ordered(ring, author)
  BY <1>1, <1>2 DEF Ordered
<1> QED
  BY <1>1, <1>3, <1>4

\* There is nothing out of order in nothing.
LEMMA NoLines ==
    ASSUME NEW n, NEW a, NEW s
    PROVE  /\ <<>> \in Seq(Nat) /\ Len(<<>>) = 0
           /\ Lines(<<>>, n) /\ Ordered(<<>>, a) /\ Before(s, <<>>, a)
<1>1. Len(<<>>) = 0 /\ \A i \in 1..0 : FALSE
  OBVIOUS
<1> QED
  BY <1>1 DEF Lines, Ordered, Before
LEMMA LogInvPage ==
    \A p \in Page : LogInv /\ (Load(p) \/ LoadFails(p) \/ Subscribe(p) \/ Breaks(p)) => LogInv'
<1> SUFFICES ASSUME NEW p \in Page, LogInv, Load(p) \/ LoadFails(p) \/ Subscribe(p) \/ Breaks(p)
             PROVE  LogInv'
  OBVIOUS
<1> USE PageParts
<1>1. CASE Load(p)
  <2>1. /\ page' = [page EXCEPT ![p] = "waiting"] /\ shown' = [shown EXCEPT ![p] = ring]
        /\ subs' = subs \ {p} /\ buf' = [buf EXCEPT ![p] = buf[p]]
        /\ UNCHANGED <<author, ring, offer, holder, todo>> /\ hangups' \in Nat
    BY <1>1 DEF Load, lockVars
  <2>2. LockOK(holder', todo', offer', subs')
    BY <1>1, <2>1 DEF LockOK, Load
  <2> QED
    BY <2>1, <2>2, RingOrdered, PageMoves
<1>2. CASE LoadFails(p)
  <2>1. /\ page' = [page EXCEPT ![p] = "waiting"] /\ shown' = [shown EXCEPT ![p] = shown[p]]
        /\ subs' = subs \ {p} /\ buf' = [buf EXCEPT ![p] = buf[p]]
        /\ UNCHANGED <<author, ring, offer, holder, todo>> /\ hangups' \in Nat
    BY <1>2 DEF LoadFails, Hangup, lockVars
  <2>2. LockOK(holder', todo', offer', subs')
    BY <1>2, <2>1 DEF LockOK, LoadFails
  <2> QED
    BY <2>1, <2>2, PageMoves
<1>3. CASE Subscribe(p)
  <2>1. /\ page' = [page EXCEPT ![p] = "live"] /\ shown' = [shown EXCEPT ![p] = shown[p]]
        /\ subs' = subs \cup {p} /\ buf' = [buf EXCEPT ![p] = <<>>]
        /\ UNCHANGED <<author, ring, offer, holder, todo>> /\ hangups' \in Nat
    BY <1>3 DEF Subscribe, lockVars
  <2>2. 0 <= Capacity
    BY LogBufferAssumption
  <2>3. LockOK(holder', todo', offer', subs')
    BY <2>1 DEF LockOK
  <2> QED
    BY <2>1, <2>2, <2>3, NoLines, PageMoves
<1>4. CASE Breaks(p)
  <2>1. /\ page' = [page EXCEPT ![p] = "waiting"] /\ shown' = [shown EXCEPT ![p] = shown[p]]
        /\ subs' = subs \ {p} /\ buf' = [buf EXCEPT ![p] = buf[p]]
        /\ UNCHANGED <<author, ring, offer, holder, todo>> /\ hangups' \in Nat
    BY <1>4 DEF Breaks, Hangup, lockVars
  <2>2. LockOK(holder', todo', offer', subs')
    BY <1>4, <2>1 DEF LockOK, Breaks
  <2> QED
    BY <2>1, <2>2, PageMoves
<1> QED
  BY <1>1, <1>2, <1>3, <1>4

\* The line that is written comes after all that is shown and before all that waits.
LEMMA LogInvEmit == \A p \in Page : LogInv /\ Emit(p) => LogInv'
<1> SUFFICES ASSUME NEW p \in Page, LogInv, Emit(p)
             PROVE  LogInv'
  OBVIOUS
<1> DEFINE l == Head(buf[p])
           rest == Tail(buf[p])
           more == Append(shown[p], l)
<1>1. /\ page[p] = "live" /\ buf[p] # <<>> /\ UNCHANGED <<author, ring, offer, holder, todo, subs, page, hangups>>
      /\ buf' = [buf EXCEPT ![p] = rest] /\ shown' = [shown EXCEPT ![p] = Last(Shown, more)]
  BY DEF Emit, lockVars
<1>2. /\ buf[p] \in Seq(Nat) /\ Len(buf[p]) <= Capacity /\ Lines(buf[p], Len(author))
      /\ shown[p] \in Seq(Nat) /\ Lines(shown[p], Len(author))
      /\ Ordered(shown[p], author) /\ Ordered(buf[p], author) /\ Before(shown[p], buf[p], author)
  BY <1>1, PageParts
<1>3. /\ l = buf[p][1] /\ l \in Nat /\ 1 \in 1..Len(buf[p]) /\ l \in 1..Len(author)
      /\ rest \in Seq(Nat) /\ Len(rest) = Len(buf[p]) - 1 /\ Len(rest) <= Capacity
      /\ \A i \in 1..Len(rest) : rest[i] = buf[p][i + 1] /\ i + 1 \in 1..Len(buf[p])
      /\ \A i, j \in 1..Len(rest) : i < j => i + 1 < j + 1
      /\ \A i \in 1..Len(rest) : 1 < i + 1
  <2>1. /\ Head(buf[p]) \in Nat /\ rest \in Seq(Nat) /\ Len(rest) = Len(buf[p]) - 1
        /\ \A i \in 1..Len(rest) : rest[i] = buf[p][i + 1]
    BY <1>1, <1>2, HeadTailProperties
  <2>2. Len(buf[p]) \in Nat /\ Len(buf[p]) # 0 /\ l = buf[p][1] /\ Capacity \in Nat
    BY <1>1, <1>2, LogBufferAssumption
  <2>3. 1 \in 1..Len(buf[p])
    BY <2>2
  <2> HIDE DEF rest, l
  <2>4. l \in 1..Len(author)
    BY <1>2, <2>2, <2>3 DEF Lines
  <2> QED
    BY <1>2, <2>1, <2>2, <2>3, <2>4 DEF l
<1> HIDE DEF l, rest
<1>4. Lines(rest, Len(author)) /\ Ordered(rest, author)
  BY <1>2, <1>3 DEF Lines, Ordered
<1>5. /\ more \in Seq(Nat) /\ Len(more) = Len(shown[p]) + 1 /\ more[Len(shown[p]) + 1] = l
      /\ \A i \in 1..Len(shown[p]) : more[i] = shown[p][i]
      /\ Len(shown[p]) \in Nat
      /\ \A i \in 1..Len(more) : i \in 1..Len(shown[p]) \/ i = Len(shown[p]) + 1
  BY <1>2, <1>3
<1>6. Before(shown[p], <<l>>, author)
  <2> SUFFICES ASSUME NEW i \in 1..Len(shown[p]), NEW j \in 1..Len(<<l>>),
                      author[shown[p][i]] = author[<<l>>[j]]
               PROVE  shown[p][i] <= <<l>>[j]
    BY DEF Before
  <2>1. <<l>>[j] = l
    BY OneOnlyLine
  <2> QED
    BY <1>2, <1>3, <2>1 DEF Before
<1>7. Ordered(more, author)
  BY <1>2, <1>3, <1>6, AppendOrdered
<1> HIDE DEF more
<1>8. Lines(more, Len(author))
  BY <1>2, <1>3, <1>5 DEF Lines
<1>9. Before(more, rest, author)
  <2> SUFFICES ASSUME NEW i \in 1..Len(more), NEW j \in 1..Len(rest),
                      author[more[i]] = author[rest[j]]
               PROVE  more[i] <= rest[j]
    BY DEF Before
  <2>1. rest[j] = buf[p][j + 1] /\ j + 1 \in 1..Len(buf[p]) /\ 1 < j + 1
    BY <1>3
  <2>2. CASE i \in 1..Len(shown[p])
    BY <1>2, <1>5, <2>1, <2>2 DEF Before
  <2>3. CASE i = Len(shown[p]) + 1
    BY <1>2, <1>3, <1>5, <2>1, <2>3 DEF Ordered
  <2> QED
    BY <1>5, <2>2, <2>3
<1>10. PICK d \in Nat : /\ Len(Last(Shown, more)) + d = Len(more)
                        /\ \A i \in 1..Len(Last(Shown, more)) : Last(Shown, more)[i] = more[i + d]
  BY <1>5, LastKeeps, LogBufferAssumption
<1> DEFINE s == Last(Shown, more)
<1>11. s \in Seq(Nat) /\ Lines(s, Len(author)) /\ Ordered(s, author)
  BY <1>5, <1>7, <1>8, LastKeeps, LastOrdered, LogBufferAssumption
<1>12. Before(s, rest, author)
  <2>1. Len(s) \in Nat /\ Len(more) \in Nat
    BY <1>5, <1>11
  <2>2. \A i \in 1..Len(s) : i + d \in 1..Len(more) /\ s[i] = more[i + d]
    BY <1>10, <2>1
  <2> HIDE DEF s
  <2> QED
    BY <1>9, <2>2 DEF Before
<1>13. /\ page' = [page EXCEPT ![p] = "live"] /\ subs' = subs \cup {p} /\ hangups' \in Nat
       /\ LockOK(holder', todo', offer', subs')
  BY <1>1, PageParts
<1> HIDE DEF s
<1>14. shown' = [shown EXCEPT ![p] = s]
  BY <1>1 DEF s
<1> QED
  BY <1>1, <1>3, <1>4, <1>11, <1>12, <1>13, <1>14, PageMoves

\* The lock is taken and given back, and the line offered is done with.
LEMMA LogInvLock ==
    ASSUME LogInv, (\E g \in Logger : Lock(g)) \/ Unlock
    PROVE  LogInv'
<1>1. /\ UNCHANGED <<author, ring, subs, buf, page, shown, hangups>>
      /\ offer \in [Logger -> Nat] /\ LockOK(holder, todo, offer, subs)
  BY LockType DEF Lock, Unlock, LogInv, TypeOK
<1>2. offer' = offer \/ \E g \in Logger : offer' = [offer EXCEPT ![g] = 0]
  BY <1>1 DEF Lock, Unlock, LockOK
<1>3. LockOK(holder', todo', offer', subs')
  BY <1>1, LogBufferAssumption DEF Lock, Unlock, LockOK
<1>4. TypeOK'
  <2>1. offer' \in [Logger -> Nat] /\ \A h \in Logger : offer'[h] \in Line' \cup {0}
    <3>1. offer \in [Logger -> Nat] /\ (\A h \in Logger : offer[h] \in Line \cup {0}) /\ Line' = Line
      BY <1>1 DEF LogInv, TypeOK, Line
    <3>2. CASE offer' = offer
      BY <3>1, <3>2
    <3>3. CASE \E g \in Logger : offer' = [offer EXCEPT ![g] = 0]
      BY <3>1, <3>3
    <3> QED
      BY <1>2, <3>2, <3>3
  <2>2. /\ holder' \in Logger \cup {Nobody} /\ todo' \subseteq subs'
        /\ holder' = Nobody => todo' = {}
        /\ holder' # Nobody => offer'[holder'] # 0
    BY <1>3 DEF LockOK
  <2>3. LogInv
    OBVIOUS
  <2>4. TypeOK
    BY <2>3 DEF LogInv
  <2> QED
    BY <1>1, <2>1, <2>2, <2>4 DEF TypeOK
<1>5. ASSUME NEW h \in Logger, offer'[h] # 0
      PROVE  /\ author'[offer'[h]] = h
             /\ \A l \in 1..Len(author') : author'[l] = h => l <= offer'[h]
  <2>1. offer'[h] = offer[h]
    BY <1>1, <1>2, <1>5
  <2> QED
    BY <1>1, <1>5, <2>1 DEF LogInv, LogOrder, Line
<1>6. LogOrder'
  <2>1. ASSUME NEW p \in Page
        PROVE  /\ Lines(shown'[p], Len(author')) /\ Lines(buf'[p], Len(author'))
               /\ Ordered(shown'[p], author') /\ Ordered(buf'[p], author')
               /\ page'[p] = "live" => Before(shown'[p], buf'[p], author')
    BY <1>1 DEF LogInv, LogOrder
  <2> QED
    BY <1>5, <2>1, NextOrder
<1> QED
  BY <1>1, <1>4, <1>6 DEF LogInv

\* A line goes to the end of a channel that holds none after it.
LEMMA LogInvSend == \A p \in Page : LogInv /\ Send(p) => LogInv'
<1> SUFFICES ASSUME NEW p \in Page, LogInv, Send(p)
             PROVE  LogInv'
  OBVIOUS
<1> DEFINE g == holder
           l == offer[g]
<1>1. /\ p \in todo /\ todo' = todo \ {p}
      /\ UNCHANGED <<author, ring, offer, holder, subs, page, shown, hangups>>
      /\ buf' = IF Room(p) THEN [buf EXCEPT ![p] = Append(@, l)] ELSE buf
  BY DEF Send
<1>2. LockOK(holder, todo, offer, subs) /\ hangups \in Nat
  BY PageParts
<1>3. /\ g \in Logger /\ p \in subs /\ page[p] = "live" /\ l # 0
      /\ LockOK(holder', todo', offer', subs')
  BY <1>1, <1>2, PageParts DEF LockOK
<1>4. l \in Nat /\ l \in 1..Len(author) /\ author[l] = g
      /\ \A x \in 1..Len(author) : author[x] = g => x <= l
  BY <1>3 DEF LogInv, LogOrder, TypeOK, Line
<1> HIDE DEF l, g
<1>5. /\ buf[p] \in Seq(Nat) /\ Len(buf[p]) \in Nat /\ Len(buf[p]) <= Capacity
      /\ buf \in [Page -> Seq(Nat)] /\ shown \in [Page -> Seq(Nat)]
      /\ shown[p] \in Seq(Nat) /\ Ordered(shown[p], author)
      /\ Lines(buf[p], Len(author)) /\ Ordered(buf[p], author) /\ Lines(shown[p], Len(author))
      /\ Before(shown[p], buf[p], author)
  BY <1>3, PageParts
<1>6. /\ page' = [page EXCEPT ![p] = "live"] /\ shown' = [shown EXCEPT ![p] = shown[p]]
      /\ subs' = subs \cup {p} /\ hangups' \in Nat
  BY <1>1, <1>2, <1>3, <1>5, PageParts
<1>7. CASE ~Room(p)
  <2>1. buf' = [buf EXCEPT ![p] = buf[p]]
    BY <1>1, <1>5, <1>7
  <2> QED
    BY <1>1, <1>3, <1>5, <1>6, <2>1, PageMoves
<1>8. CASE Room(p)
  <2> DEFINE b == Append(buf[p], l)
  <2>1. buf' = [buf EXCEPT ![p] = b]
    BY <1>1, <1>5, <1>8
  <2>2. /\ Len(b) = Len(buf[p]) + 1 /\ b[Len(buf[p]) + 1] = l /\ b \in Seq(Nat)
        /\ \A i \in 1..Len(buf[p]) : b[i] = buf[p][i]
    BY <1>4, <1>5
  <2>3. Before(buf[p], <<l>>, author)
    <3> SUFFICES ASSUME NEW i \in 1..Len(buf[p]), NEW j \in 1..Len(<<l>>),
                        author[buf[p][i]] = author[<<l>>[j]]
                 PROVE  buf[p][i] <= <<l>>[j]
      BY DEF Before
    <3>1. <<l>>[j] = l
      BY OneOnlyLine
    <3> QED
      BY <1>4, <1>5, <3>1 DEF Lines
  <2>4. Ordered(b, author)
    BY <1>4, <1>5, <2>3, AppendOrdered
  <2>5. Len(b) <= Capacity
    BY <1>5, <1>8, <2>2, LogBufferAssumption DEF Room
  <2> HIDE DEF b
  <2>6. \A j \in 1..Len(b) : j \in 1..Len(buf[p]) \/ j = Len(buf[p]) + 1
    BY <1>5, <2>2
  <2>7. Lines(b, Len(author))
    BY <1>4, <1>5, <2>2, <2>6 DEF Lines
  <2>8. \A i \in 1..Len(shown[p]) : author[shown[p][i]] = author[l] => shown[p][i] <= l
    BY <1>4, <1>5 DEF Lines
  <2>9. Before(shown[p], b, author)
    <3> SUFFICES ASSUME NEW i \in 1..Len(shown[p]), NEW j \in 1..Len(b),
                        author[shown[p][i]] = author[b[j]]
                 PROVE  shown[p][i] <= b[j]
      BY DEF Before
    <3> QED
      BY <1>5, <2>2, <2>6, <2>8 DEF Before
  <2> QED
    BY <1>1, <1>3, <1>5, <1>6, <2>1, <2>2, <2>4, <2>5, <2>7, <2>9, PageMoves
<1> QED
  BY <1>7, <1>8

LEMMA LogInvariance == Spec => []LogInv
<1>1. LogInv /\ UNCHANGED vars => LogInv'
  BY DEF LogInv, LogOrder, TypeOK, Line, Lines, Ordered, Before, vars, lockVars
<1>2. LogInv /\ [Next]_vars => LogInv'
  BY <1>1, LogInvLog, LogInvLock, LogInvSend, LogInvPage, LogInvEmit DEF Next
<1> QED
  BY <1>2, LogInitInv, PTL DEF Spec

\* The ring is the last lines logged without a gap, and neither it nor a channel
\* outgrows its capacity (logbuf.go:71 and 80).
THEOREM LogTypeCorrect == Spec => []TypeOK
<1>1. LogInv => TypeOK
  BY DEF LogInv
<1> QED
  BY <1>1, LogInvariance, PTL

\* On every page the lines of one goroutine are in the order it logged them,
\* through the ring, the channel and any number of streams (logbuf.go:69).
THEOREM LinesInOrder == Spec => []EachInOrder
<1>1. LogInv => EachInOrder
  <2> SUFFICES ASSUME LogInv, NEW p \in Page, NEW i \in DOMAIN shown[p], NEW j \in DOMAIN shown[p],
                      i < j, author[shown[p][i]] = author[shown[p][j]]
               PROVE  shown[p][i] <= shown[p][j]
    BY DEF EachInOrder
  <2>1. DOMAIN shown[p] = 1..Len(shown[p]) /\ Ordered(shown[p], author)
    BY PageParts
  <2> QED
    BY <2>1 DEF Ordered
<1> QED
  BY <1>1, LogInvariance, PTL
=============================================================================
