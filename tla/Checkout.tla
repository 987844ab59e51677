------------------------------ MODULE Checkout ------------------------------
(***************************************************************************)
(* The Git source.  Every pass of the loop and every request that needs    *)
(* the desired state makes a source of its own, all on one directory: each *)
(* clones if there is no clone, fetches, checks out the revision and reads *)
(* the manifests, file by file.  Nothing keeps them apart.                 *)
(*                                                                         *)
(* A commit is a number, and the content of a file the number of the       *)
(* commit it was checked out from; every commit changes every file, and    *)
(* the repositories start out from the same one.  The revision is the      *)
(* default branch.  What go-git does is external, as far as Desired relies *)
(* on it: a clone makes the directory, names its remote, fetches and       *)
(* writes the files; one that fails is removed, one that is cut short is   *)
(* not; a forced checkout writes the files one after the other, whatever   *)
(* is there.                                                               *)
(***************************************************************************)
EXTENDS Naturals, FiniteSets

CONSTANTS
    Handler,        \* requests that load the desired state beside the loop
    Loop,           \* the pass of the loop
    File,           \* manifests
    Url,            \* repositories
    None,
    Gone,           \* the head of a branch that was deleted
    MaxCommits,     \* bound: commits, and deletions of the branch
    MaxReads,       \* bound: requests that load the desired state
    MaxUpsets       \* bound: failures, restarts and changes of the settings

Reader == Handler \cup {Loop}

ASSUME CheckoutAssumption ==
    /\ Loop \notin Handler
    /\ File # {}
    /\ Url # {} /\ None \notin Url
    /\ None \notin [origin : Url \cup {None}, tracking : Nat, local : Nat]
    /\ None \notin Nat /\ Gone \notin Nat /\ Gone # None
    /\ MaxCommits \in Nat /\ MaxReads \in Nat /\ MaxUpsets \in Nat

VARIABLES
    head,       \* the configured branch of each remote, which is its default one
    url,        \* the repository that the settings name
    clone,      \* None, or its remote, the tracking branch and the local one,
                \* which a clone that is not finished need not have
    tree,       \* the files of the working tree
    rd,         \* the readers
    seen,       \* what the loop loaded last
    spent

sourceVars == <<head, url, clone, tree, rd, seen, spent>>

Empty == [f \in File |-> 0]
Idle == [step |-> "idle", repo |-> None, target |-> 0, todo |-> {}, got |-> Empty, alone |-> FALSE]

SourceInit ==
    /\ head = [u \in Url |-> 1]
    /\ url \in Url
    /\ clone = None /\ tree = Empty
    /\ rd = [r \in Reader |-> Idle]
    /\ seen = Empty
    /\ spent = [commits |-> 0, reads |-> 0, upsets |-> 0]

Spend(what, bound) == spent[what] < bound /\ spent' = [spent EXCEPT ![what] = @ + 1]

-----------------------------------------------------------------------------
(* Around the source. *)

\* Somebody pushes to a repository, or deletes the branch or makes it again.
Push(u) ==
    /\ Spend("commits", MaxCommits)
    /\ head' = [head EXCEPT ![u] = spent.commits + 2]
    /\ UNCHANGED <<url, clone, tree, rd, seen>>

DeleteBranch(u) ==
    /\ head[u] # Gone
    /\ Spend("commits", MaxCommits)
    /\ head' = [head EXCEPT ![u] = Gone]
    /\ UNCHANGED <<url, clone, tree, rd, seen>>

\* Settings with another repository are saved; the directory is no setting.
ChangeUrl ==
    /\ url' \in Url \ {url}
    /\ Spend("upsets", MaxUpsets)
    /\ UNCHANGED <<head, clone, tree, rd, seen>>

\* The daemon is stopped and started again: the directory stays as it is.
Restart ==
    /\ rd' = [r \in Reader |-> Idle]
    /\ Spend("upsets", MaxUpsets)
    /\ UNCHANGED <<head, url, clone, tree, seen>>

-----------------------------------------------------------------------------
(* Desired. *)

Moves(r, step) == rd' = [rd EXCEPT ![r].step = step]
Ends(r) == rd' = [rd EXCEPT ![r] = Idle]

\* A source is made for the repository that the settings name now; it is alone
\* as long as no other one is at work.
Begins(r) ==
    /\ rd[r].step = "idle"
    /\ rd' = [o \in Reader |->
                IF o = r THEN [Idle EXCEPT !.step = "open", !.repo = url,
                                           !.alone = \A p \in Reader : rd[p].step = "idle"]
                ELSE [rd[o] EXCEPT !.alone = FALSE]]
    /\ UNCHANGED <<head, url, clone, tree, seen>>

BeginPass == Begins(Loop) /\ UNCHANGED spent

BeginRead(r) == Begins(r) /\ Spend("reads", MaxReads)

\* A clone is opened as it is, whatever repository it is of, finished or not.
Open(r) ==
    /\ rd[r].step = "open" /\ clone # None
    /\ Moves(r, "fetch")
    /\ UNCHANGED <<head, url, clone, tree, seen, spent>>

\* There is none: PlainClone makes the directory.
CloneBegins(r) ==
    /\ rd[r].step = "open" /\ clone = None
    /\ clone' = [origin |-> None, tracking |-> 0, local |-> 0]
    /\ Moves(r, "name")
    /\ UNCHANGED <<head, url, tree, seen, spent>>

CloneNames(r) ==
    /\ rd[r].step = "name"
    /\ clone' = [clone EXCEPT !.origin = rd[r].repo]
    /\ Moves(r, "clone")
    /\ UNCHANGED <<head, url, tree, seen, spent>>

\* What the remote has is fetched, and is then written to the directory.
CloneFetches(r) ==
    /\ rd[r].step = "clone" /\ head[rd[r].repo] # Gone
    /\ clone' = [clone EXCEPT !.tracking = head[rd[r].repo], !.local = head[rd[r].repo]]
    /\ rd' = [rd EXCEPT ![r].step = "populate", ![r].target = head[rd[r].repo],
                        ![r].todo = File]
    /\ UNCHANGED <<head, url, tree, seen, spent>>

Cloning == {"name", "clone", "populate"}

\* A clone that fails is removed, whoever has opened it meanwhile.
EndsClean(r) ==
    /\ Ends(r)
    /\ IF rd[r].step \in Cloning THEN clone' = None /\ tree' = Empty
       ELSE UNCHANGED <<clone, tree>>

\* The remote's branch as it is now; one that is gone is not pruned here.
Fetch(r) ==
    /\ rd[r].step = "fetch" /\ clone # None /\ clone.origin # None
    /\ clone' = IF head[clone.origin] = Gone THEN clone
                ELSE [clone EXCEPT !.tracking = head[clone.origin]]
    /\ Moves(r, "resolve")
    /\ UNCHANGED <<head, url, tree, seen, spent>>

\* Mutant: the local branch, which the clone made, comes first.
CandidateLocal == IF clone.local # 0 THEN clone.local ELSE clone.tracking

\* The tracking branch comes before the local one.
Candidate == IF clone.tracking # 0 THEN clone.tracking ELSE clone.local

\* Mutant: that no candidate resolves is not noticed.
ResolveUnchecked(r) ==
    /\ rd[r].step = "resolve" /\ clone # None
    /\ rd' = [rd EXCEPT ![r].step = "checkout", ![r].target = Candidate, ![r].todo = File]
    /\ UNCHANGED <<head, url, clone, tree, seen, spent>>

Resolve(r) ==
    /\ rd[r].step = "resolve" /\ clone # None /\ Candidate # 0
    /\ rd' = [rd EXCEPT ![r].step = "checkout", ![r].target = Candidate, ![r].todo = File]
    /\ UNCHANGED <<head, url, clone, tree, seen, spent>>

\* The files written last lead on: from the clone to the fetch, from the
\* checkout to the manifests.
Written(r, f) ==
    IF rd[r].todo # {f} THEN [rd EXCEPT ![r].todo = @ \ {f}]
    ELSE IF rd[r].step = "populate" THEN [rd EXCEPT ![r].step = "fetch", ![r].todo = {}]
    ELSE [rd EXCEPT ![r].step = "load", ![r].todo = File]

Writing(r) == rd[r].step = "populate" \/ (rd[r].step = "checkout" /\ clone # None)

\* Mutant: a file that was changed locally is left alone.
CheckoutKeeps(r) ==
    /\ Writing(r)
    /\ \E f \in rd[r].todo :
          /\ tree' = IF \E g \in File : tree[g] = rd[r].target THEN tree
                     ELSE [tree EXCEPT ![f] = rd[r].target]
          /\ rd' = Written(r, f)
    /\ UNCHANGED <<head, url, clone, seen, spent>>

\* One file after the other, discarding what is there.
CheckoutFile(r) ==
    /\ Writing(r)
    /\ \E f \in rd[r].todo :
          tree' = [tree EXCEPT ![f] = rd[r].target] /\ rd' = Written(r, f)
    /\ UNCHANGED <<head, url, clone, seen, spent>>

\* Load reads one file after the other; the last one ends it.
LoadFile(r) ==
    /\ rd[r].step = "load" /\ clone # None
    /\ \E f \in rd[r].todo :
          LET got == [rd[r].got EXCEPT ![f] = tree[f]]
          IN IF rd[r].todo = {f}
             THEN Ends(r) /\ seen' = IF r = Loop THEN got ELSE seen
             ELSE /\ rd' = [rd EXCEPT ![r].todo = @ \ {f}, ![r].got = got]
                  /\ UNCHANGED seen
    /\ UNCHANGED <<head, url, clone, tree, spent>>

\* What cannot succeed: a clone while the remote's HEAD leads nowhere, a fetch
\* without a remote, a revision that neither candidate resolves, and anything
\* in a directory that was removed.
Hopeless(r) ==
    \/ rd[r].step = "clone" /\ head[rd[r].repo] = Gone
    \/ rd[r].step = "fetch" /\ clone # None /\ clone.origin = None
    \/ rd[r].step = "resolve" /\ clone # None /\ Candidate = 0
    \/ rd[r].step \notin {"idle", "open"} /\ clone = None

GivesUp(r) ==
    /\ Hopeless(r)
    /\ EndsClean(r)
    /\ UNCHANGED <<head, url, seen, spent>>

\* The network, the disk or a manifest gives out; the loop tries again.
Fails(r) ==
    /\ rd[r].step # "idle"
    /\ Spend("upsets", MaxUpsets)
    /\ EndsClean(r)
    /\ UNCHANGED <<head, url, seen>>

Desired(r) ==
    \/ Open(r) \/ CloneBegins(r) \/ CloneNames(r) \/ CloneFetches(r)
    \/ Fetch(r) \/ Resolve(r) \/ CheckoutFile(r) \/ LoadFile(r)
    \/ GivesUp(r)

SourceNext ==
    \/ \E u \in Url : Push(u) \/ DeleteBranch(u)
    \/ ChangeUrl \/ Restart
    \/ BeginPass
    \/ \E r \in Handler : BeginRead(r)
    \/ \E r \in Reader : Desired(r) \/ Fails(r)

SourceSpec == SourceInit /\ [][SourceNext]_sourceVars

\* The loop goes on, and whoever loads gets on with it: an assumption about the
\* network, as the loop's clone and fetch carry no timeout.
FairSourceSpec == SourceSpec /\ WF_sourceVars(BeginPass) /\ \A r \in Reader : WF_sourceVars(Desired(r))

-----------------------------------------------------------------------------
Commit == 1 .. MaxCommits + 1
Content == [File -> Commit \cup {0}]
Step == {"idle", "open", "fetch", "resolve", "checkout", "load"} \cup Cloning

\* Types; only one reader clones and what it clones is there; and a reader that
\* is alone is.
SourceTypeOK ==
    /\ head \in [Url -> Commit \cup {Gone}]
    /\ url \in Url
    /\ clone \in [origin : Url \cup {None}, tracking : Commit \cup {0}, local : Commit \cup {0}]
                 \cup {None}
    /\ tree \in Content /\ seen \in Content
    /\ rd \in [Reader -> [step : Step, repo : Url \cup {None}, target : Commit \cup {0},
                          todo : SUBSET File, got : Content, alone : BOOLEAN]]
    /\ \A r \in Reader :
          /\ rd[r].step # "idle" => rd[r].repo \in Url
          /\ rd[r].step \in Cloning =>
                clone # None /\ \A o \in Reader \ {r} : rd[o].step \notin Cloning
          /\ rd[r].step \in {"populate", "checkout", "load"} =>
                rd[r].target \in Commit /\ rd[r].todo # {}
          /\ rd[r].alone => \A o \in Reader \ {r} : rd[o].step = "idle"
    /\ spent \in [commits : Nat, reads : Nat, upsets : Nat]

\* A reader that was alone from beginning to end loads exactly the commit it
\* resolved, whatever clones that were cut short and overlapping or interrupted
\* checkouts left in the directory before (the checkout is forced).
\* Overlapping ones may load a mixture of two commits.
LoadsOneCommit ==
    \A r \in Reader : rd[r].alone /\ rd[r].step = "load" =>
        \A f \in File : /\ tree[f] = rd[r].target
                        /\ f \notin rd[r].todo => rd[r].got[f] = rd[r].target

\* The repository that is cloned or, when none is, will be.
Followed == IF clone = None THEN url ELSE clone.origin

Current(u) == \A f \in File : seen[f] = head[u]

\* The clone was cut short before its remote was named: every fetch fails from
\* then on, and nothing but the operator removes the directory.
NoRemote == clone # None /\ clone.origin = None

\* Again and again the loop has loaded the head of the repository it follows,
\* unless its branch is gone.  That is the repository the settings named when
\* the clone was made.
CatchesUp == []<>(~NoRemote /\ head[Followed] # Gone => clone # None /\ Current(Followed))

\* "Cluster, repository, and reconciliation, applied without a restart": again
\* and again the loop has loaded the head of the repository the settings name.
SavedRepositoryApplies == []<>(~NoRemote /\ head[url] # Gone => Current(url))
=============================================================================
