------------------------------- MODULE Guests -------------------------------
(***************************************************************************)
(* The daemon at the cluster: passes that list the guests, once for each   *)
(* reconciler, and submit what Planner plans; jobs that make their calls   *)
(* of the Proxmox API one after the other, any of which may fail and leave *)
(* what was done before it; commits, crashes, and people at the cluster.   *)
(*                                                                         *)
(* The dispatcher is the pool it was shown to implement: a job is entered  *)
(* under the kind and the name of its resource and is gone when its apply  *)
(* function has returned.  AutoSync and Prune are on: see Engine for what  *)
(* the other options hold back.                                            *)
(***************************************************************************)
EXTENDS Planner, FiniteSets

CONSTANTS
    Commits,        \* what the repository may hold: [vms, templates]
    FirstGuests,    \* the clusters the daemon may start at
    Name,           \* names of manifests and guests
    Values,         \* of a configuration field
    Data,           \* user-data of manifests, and the seeds made of them
    NoName,         \* the name a listing gives a guest it does not know yet
    Strangers,      \* guests, not tagged, that somebody may put at a VMID
    Slots,
    MaxUpsets,      \* bound: failed calls, crashes, changes by somebody else
    MaxRequests     \* bound: later commits, deletions asked for in the web UI,
                    \* listings that lack a name

Conf == [Field -> Values \cup {Unset}]
VMManifest ==
    [name : Name, vmid : VMID, from : Name \cup {None}, image : BOOLEAN, conf : Conf,
     state : {"running", "stopped", Unset}, data : Data \cup {None}, reboot : BOOLEAN]
TemplateManifest == [name : Name, vmid : VMID, conf : Conf]

\* A guest: its tag, what it is configured with, what a running one goes by (live),
\* the seed attached and the one it has read, and whether its disk has its image.
Guest ==
    [name : Name, owned : BOOLEAN, template : BOOLEAN, running : BOOLEAN,
     conf : [Field -> Values], live : Conf,
     seed : Data \cup {None}, read : Data \cup {None}, disk : BOOLEAN]

ASSUME GuestsAssumption ==
    /\ Commits \subseteq [vms : SUBSET VMManifest, templates : SUBSET TemplateManifest]
    /\ FirstGuests \subseteq [VMID -> Guest \cup {Absent}]
    /\ Strangers \subseteq {o \in Guest : ~o.owned}
    /\ Absent \notin Guest /\ Unset \notin Values /\ Values # {} /\ Slots \in Nat

VARIABLES
    guest,      \* the cluster: VMID -> guest or Absent
    repo,       \* the commit the repository is at
    stage,      \* where the pass is
    want,       \* the commit the pass reads
    plan,       \* actions planned and not submitted yet
    jobs,       \* the actions being applied: <<kind, name>> -> action
    astray,     \* VMIDs where names or kinds disagree, or whose guest others took over
                \* or delete in the web UI, until the daemon starts again
    spent       \* how much of each bound is used

passVars == <<stage, want, plan>>
vars == <<guest, repo, passVars, jobs, astray, spent>>

Upset == spent.upset < MaxUpsets /\ spent' = [spent EXCEPT !.upset = @ + 1]

Ask(what) ==
    /\ spent.commit + spent.bypass < MaxRequests
    /\ spent' = [spent EXCEPT ![what] = @ + 1]

Pending == plan \cup {jobs[k] : k \in DOMAIN jobs}

-----------------------------------------------------------------------------
(* What the registry and the tag cannot know: which actions are about the  *)
(* same guest once it goes by two names, or by two kinds, and whose guest  *)
(* it is that others have put at its VMID since an action was planned.     *)

ManifestsAt(v) ==
    {m \in repo.vms \cup repo.templates \cup want.vms \cup want.templates : m.vmid = v}

\* The names v goes by: in the repository, at the cluster, in what is to be done.
NamesAt(v) ==
    {m.name : m \in ManifestsAt(v)}
        \cup {a.name : a \in {a \in Pending : a.vmid = v}}
        \cup {o.name : o \in {o \in {guest[v]} : Owned(guest, v)}}

\* v holds a template, or is to hold one; v is to hold a VM.
TemplateAt(v) ==
    \/ v \in Declared(repo.templates) \cup Declared(want.templates)
    \/ \E a \in Pending : a.vmid = v /\ a.kind = "Template"
    \/ IsTemplate(guest, v) /\ Owned(guest, v)

VMAt(v) ==
    \/ v \in Declared(repo.vms) \cup Declared(want.vms)
    \/ \E a \in Pending : a.vmid = v /\ a.kind = "VirtualMachine" /\ a.type = "create"

Agree(v) == (\A x, y \in NamesAt(v) : x = y) /\ ~(TemplateAt(v) /\ VMAt(v))

Disagreeing == {v \in VMID : ~Agree(v)}

\* Something is planned or under way that was planned on what v was.
Handled(v) ==
    \E a \in Pending :
        \/ a.vmid = v
        \/ a.kind = "VirtualMachine" /\ a.type = "create" /\ a.arg.from = v

Init ==
    /\ guest \in FirstGuests
    /\ repo \in Commits
    /\ stage = "idle" /\ want = repo /\ plan = {}
    /\ jobs = <<>>
    /\ astray = Disagreeing
    /\ spent = [upset |-> 0, commit |-> 0, bypass |-> 0]

-----------------------------------------------------------------------------
(* A pass: the source, a listing for the templates, a listing for the VMs, *)
(* then the submissions.                                                   *)

\* The configuration of a guest is read on its own; when that fails the pass
\* goes on with the live size and with nothing else.
ConfigUnread(o) ==
    [o EXCEPT !.seed = None,
              !.conf = [f \in Field |-> IF f \notin Counted THEN Unset
                                       ELSE IF o.running THEN o.live[f] ELSE o.conf[f]]]

Unread == {[guest EXCEPT ![v] = ConfigUnread(@)] : v \in {v \in VMID : Present(guest, v)}}

\* The cluster cache has no name yet for a guest that is being created.
Unnamed ==
    {[guest EXCEPT ![jobs[k].vmid].name = NoName] :
        k \in {k \in DOMAIN jobs : jobs[k].type = "create" /\ Present(guest, jobs[k].vmid)}}

Listed(g) ==
    \/ g = guest /\ UNCHANGED <<astray, spent>>
    \/ g \in Unread /\ Upset /\ UNCHANGED astray
    \/ g \in Unnamed /\ Ask("bypass") /\ astray' = astray \cup Disagreeing'

Listings == {guest} \cup Unread \cup Unnamed

ListTemplates ==
    /\ stage = "idle"
    /\ want' = repo
    /\ UNCHANGED <<guest, repo, jobs>>
    /\ \E g \in Listings : plan' = TemplatePlan(repo, g) /\ Listed(g)
    /\ stage' = "listed"

ListVMs ==
    /\ stage = "listed"
    /\ UNCHANGED <<guest, repo, want, jobs>>
    /\ \E g \in Listings : plan' = plan \cup GuestPlan(want, g) /\ Listed(g)
    /\ stage' = IF plan' = {} THEN "idle" ELSE "submit"

\* Mutant: actions of one resource with different verbs are different actions.
KeyWithVerb(a) == <<a.kind, a.name, a.type>>

KeyOf(a) == <<a.kind, a.name>>

\* The jobs the dispatcher has: a delete of the web UI takes no slot.
Dispatched == {k \in DOMAIN jobs : k[1] # "web UI"}

\* Mutant: an action that only reports is applied as well.
TakenReport(a) ==
    /\ KeyOf(a) \notin DOMAIN jobs
    /\ Cardinality(Dispatched) < Slots

\* Submit drops an action in flight, and every action when the pool is full.
Taken(a) ==
    /\ ~a.informational
    /\ KeyOf(a) \notin DOMAIN jobs
    /\ Cardinality(Dispatched) < Slots

\* The registry with one more action in it.
Enter(k, a) == [x \in DOMAIN jobs \cup {k} |-> IF x = k THEN a ELSE jobs[x]]

Submit ==
    /\ stage = "submit"
    /\ \E a \in plan :
        /\ jobs' = IF Taken(a) THEN Enter(KeyOf(a), a) ELSE jobs
        /\ plan' = plan \ {a}
    /\ stage' = IF plan' = {} THEN "idle" ELSE "submit"
    /\ UNCHANGED <<guest, repo, want, astray, spent>>

-----------------------------------------------------------------------------
(* The calls of the API, each a request and the task it starts.  May says  *)
(* what Proxmox accepts, After what it makes of the guest.                 *)

Start(o) == [o EXCEPT !.running = TRUE, !.live = o.conf, !.read = o.seed]

Stop(o) == [o EXCEPT !.running = FALSE]

Reconfigured(o, conf) ==
    LET c == [f \in Field |-> IF f \in DOMAIN conf /\ conf[f] # Unset THEN conf[f] ELSE o.conf[f]]
    IN  [o EXCEPT !.conf = c]

\* NewVirtualMachine: tagged from the first, with the fields an update always
\* writes too; blank when there is no image yet.
Fresh(j, blank) ==
    [name |-> j.name, owned |-> TRUE, template |-> FALSE, running |-> FALSE,
     conf |-> [f \in Field |-> IF f \in Always /\ j.arg.conf[f] # Unset THEN j.arg.conf[f]
                               ELSE CHOOSE x \in Values : TRUE],
     live |-> [f \in Field |-> Unset], seed |-> None, read |-> None, disk |-> ~blank]

\* A clone is a copy of its source under the new name; whether it carries the
\* source's tags is up to Proxmox.
Copies(j) ==
    {[guest[j.arg.from] EXCEPT !.name = j.name, !.template = FALSE, !.running = FALSE,
                               !.owned = tagged] : tagged \in {FALSE, guest[j.arg.from].owned}}

\* The clone is tagged together with its own configuration.
WithSettings(o, j) == [Reconfigured(o, j.arg.conf) EXCEPT !.owned = TRUE]

Imported(o) == [o EXCEPT !.disk = TRUE]

\* The rest of the fields come with the image; without one, with the next update.
Initialised(o, j) == Reconfigured(o, [f \in Field \ Always |-> j.arg.conf[f]])

WithSeed(o, j) == [o EXCEPT !.seed = j.arg.data]

Converted(o) == [o EXCEPT !.template = TRUE]

May(call, j) ==
    CASE call = "new" -> ~Present(guest, j.vmid)
      [] call = "clone" -> ~Present(guest, j.vmid) /\ Present(guest, j.arg.from)
      [] call \in {"start", "image"} -> IsVM(guest, j.vmid) /\ ~guest[j.vmid].running
      [] call \in {"convert", "destroy"} -> Present(guest, j.vmid) /\ ~guest[j.vmid].running
      [] call \in {"init", "finish", "seed", "stop", "find", "config"} -> Present(guest, j.vmid)
      [] OTHER -> FALSE

After(call, j) ==
    LET o == guest[j.vmid]
    IN  CASE call = "new" -> {Fresh(j, Len(j.todo) > 1 /\ j.todo[2] = "image")}
          [] call = "clone" -> Copies(j)
          [] call = "image" -> {Imported(o)}
          [] call = "init" -> {Initialised(o, j)}
          [] call = "finish" -> {WithSettings(o, j)}
          [] call = "config" -> {Reconfigured(o, j.arg.conf)}
          [] call = "seed" -> {WithSeed(o, j)}
          [] call = "start" -> {Start(o)}
          [] call = "stop" -> {Stop(o)}
          [] call = "convert" -> {Converted(o)}
          [] call = "destroy" -> {Absent}
          [] OTHER -> {o}

\* UpdateGuest and DeleteGuest look at the power state once, at the beginning.
Found(j) ==
    LET running == guest[j.vmid].running
    IN  IF j.type = "delete"
        THEN If(running, <<"stop">>) \o <<"destroy">>
        ELSE <<"config">> \o If(running /\ ~j.arg.running, <<"stop">>)
                          \o If(~running /\ j.arg.running, <<"start">>)

Rest(call, j) == IF call = "find" THEN Found(j) ELSE Tail(j.todo)

Drop(k) == [x \in DOMAIN jobs \ {k} |-> jobs[x]]

\* A call succeeds; the job goes on with the next, or is done.
Call(k) ==
    /\ k \in DOMAIN jobs
    /\ LET j == jobs[k]
           call == Head(j.todo)
       IN  /\ May(call, j)
           /\ \E o \in After(call, j) : guest' = [guest EXCEPT ![j.vmid] = o]
           /\ jobs' = IF Rest(call, j) = <<>> THEN Drop(k)
                      ELSE [jobs EXCEPT ![k].todo = Rest(call, j)]
    /\ UNCHANGED <<repo, passVars, astray, spent>>

\* A call that Proxmox refuses ends the job.
Refused(k) ==
    /\ k \in DOMAIN jobs
    /\ ~May(Head(jobs[k].todo), jobs[k])
    /\ jobs' = Drop(k)
    /\ UNCHANGED <<guest, repo, passVars, astray, spent>>

\* So does one that fails: its task may have done its work, or nothing.
Failed(k) ==
    /\ k \in DOMAIN jobs
    /\ Upset
    /\ LET j == jobs[k]
           call == Head(j.todo)
       IN  /\ May(call, j)
           /\ \E o \in After(call, j) \cup {guest[j.vmid]} : guest' = [guest EXCEPT ![j.vmid] = o]
    /\ jobs' = Drop(k)
    /\ UNCHANGED <<repo, passVars, astray>>

-----------------------------------------------------------------------------
(* Around the daemon. *)

\* DeleteResource deletes what the repository declares, next to the dispatcher.
Click ==
    /\ Ask("bypass")
    /\ \E vm \in repo.vms :
        LET k == <<"web UI", vm.name>>
        IN  /\ k \notin DOMAIN jobs
            /\ jobs' = Enter(k, Action("delete", "web UI", vm.name, vm.vmid, <<"find">>, NoArg))
            /\ astray' = astray \cup {vm.vmid}
    /\ UNCHANGED <<guest, repo, passVars>>

\* Manifests come and go, under whatever name and kind.
Commit ==
    /\ Ask("commit")
    /\ \E c \in Commits \ {repo} : repo' = c
    /\ UNCHANGED <<guest, passVars, jobs>>
    /\ astray' = astray \cup Disagreeing'

\* Somebody stops a guest or changes its configuration.
Tamper ==
    /\ Upset
    /\ \E v \in VMID :
        /\ IsVM(guest, v)
        /\ \/ guest[v].running /\ guest' = [guest EXCEPT ![v].running = FALSE]
           \/ \E f \in Field : \E x \in Values \ {guest[v].conf[f]} :
                 guest' = [guest EXCEPT ![v].conf[f] = x]
    /\ UNCHANGED <<repo, passVars, jobs, astray>>

Others(v) ==
    Strangers \cup
        IF Present(guest, v)
        THEN {Absent} \cup {[guest[v] EXCEPT !.owned = ~@]}
                      \cup {[guest[v] EXCEPT !.name = n] : n \in Name}
        ELSE {}

\* Somebody puts the tag on a guest or takes it off, renames or destroys a guest, or
\* puts one of their own at a VMID.
TakeOver ==
    /\ Upset
    /\ UNCHANGED <<repo, passVars, jobs>>
    /\ \E v \in VMID :
        /\ \E o \in Others(v) : o # guest[v] /\ guest' = [guest EXCEPT ![v] = o]
        /\ astray' = astray \cup Disagreeing' \cup {u \in {v} : Handled(u)}

\* The process ends, and what it had planned; the cluster stays as the calls made
\* so far left it.
Restart ==
    /\ Upset
    /\ stage' = "idle" /\ want' = repo /\ plan' = {} /\ jobs' = <<>>
    /\ UNCHANGED <<guest, repo>>
    /\ astray' = Disagreeing'

Keys == {"Template", "VirtualMachine", "web UI"} \X (Name \cup {NoName})

Pass == ListTemplates \/ ListVMs \/ Submit

Next ==
    \/ Pass
    \/ \E k \in Keys : Call(k) \/ Refused(k) \/ Failed(k)
    \/ Click
    \/ Commit
    \/ Tamper \/ TakeOver
    \/ Restart

Spec == Init /\ [][Next]_vars

FairSpec == Spec /\ WF_vars(Pass) /\ \A k \in Keys : WF_vars(Call(k) \/ Refused(k))

-----------------------------------------------------------------------------
\* The guests, the pass and the jobs keep their types.
TypeOK ==
    /\ guest \in [VMID -> Guest \cup {Absent}]
    /\ repo \in Commits /\ want \in Commits
    /\ stage \in {"idle", "listed", "submit"}
    /\ stage = "submit" <=> plan # {} /\ stage # "listed"
    /\ DOMAIN jobs \subseteq Keys
    /\ \A k \in DOMAIN jobs : jobs[k].vmid \in VMID /\ jobs[k].todo # <<>>
    /\ astray \subseteq VMID
    /\ spent \in [upset : Nat, commit : Nat, bypass : Nat]

\* "An action already running is not started again": no two jobs of a kind work
\* on the same guest.  The registry goes by kind and name, the guests go by VMID:
\* that is as good as long as a VMID goes by one name and one kind, in the
\* repository, at the cluster and in what is planned, even if one job was planned
\* from the name in the repository and the other from that in the cluster.
OneJobPerNamedGuest ==
    \A k, l \in DOMAIN jobs :
        jobs[k].kind = jobs[l].kind /\ jobs[k].vmid = jobs[l].vmid =>
            k = l \/ jobs[k].vmid \in astray

Steps(k) == k \notin DOMAIN jobs' \/ jobs'[k] # jobs[k]

\* What job k changes is tagged at that moment, or is the clone it has just made.
KeepsToItsOwn(k) ==
    LET v == jobs[k].vmid
    IN  Present(guest, v) /\ guest'[v] # guest[v] => Owned(guest, v) \/ Head(jobs[k].todo) = "finish"

\* "Only tagged guests are ever modified or deleted."
OnlyTaggedTouched == [][\A k \in DOMAIN jobs : Steps(k) => KeepsToItsOwn(k)]_vars

Reconcilers == {k \in DOMAIN jobs : k[1] # "web UI"}

\* The same for jobs of the reconcilers, none of which looks at the tag again when
\* its turn comes.  Where it is astray, they do touch what is not tagged: a guest
\* taken over while something is planned for it, one that is being deleted in the
\* web UI, a VMID of two names or kinds.  Old listings, failed calls and crashes
\* alone do not lead there, nor does a change of what nothing is planned for.
ReconcilersKeepToTheirOwn ==
    [][\A k \in Reconcilers : Steps(k) => KeepsToItsOwn(k) \/ jobs[k].vmid \in astray]_vars

\* "A clone must wait for its template to be built and converted": what job k
\* clones is a template at the time of the call.
ClonesATemplate(k) ==
    Head(jobs[k].todo) = "clone" /\ guest' # guest => IsTemplate(guest, jobs[k].arg.from)

\* While the repository stays as it is, builds that fail half way, crashes and
\* passes on an old listing do not let a clone through, unless somebody takes the
\* template away under it.  (A template declared again while its deletion is under
\* way does: the listing still shows it.)
WaitsForTheBuild ==
    [][spent.commit = 0 =>
         \A k \in DOMAIN jobs :
            Steps(k) => ClonesATemplate(k) \/ jobs[k].arg.from \in astray]_vars

\* "a template still building is not deleted as a stray VM", nor is anything
\* else that is declared: while the repository stays as it is, no reconciler
\* removes it, whatever fails, crashes, is tampered with or listed wrongly.
NothingLost ==
    [][spent.commit = 0 =>
         \A k \in Reconcilers :
            LET v == jobs[k].vmid
            IN  Steps(k) /\ v \in Declared(repo.vms) \cup Declared(repo.templates) =>
                  (Present(guest, v) => Present(guest', v)) \/ v \in astray]_vars

\* Such an action changes nothing, on this pass or on a later one.
Idle(a) == a.informational \/ a.todo = <<"fail">>

\* Nothing is being done, and a pass would find nothing that can be.
Quiet == \A a \in FullPlan(repo, guest) \cup {jobs[k] : k \in DOMAIN jobs} : Idle(a)

\* The cluster settles: after the last commit and the last upset, the passes
\* come to an end of what they find to do, whatever the upsets left behind.
Settles == <>[]Quiet

\* When nothing is left to do, what is declared was built to the end.
QuietMeansBuilt ==
    Quiet => \A v \in Declared(repo.vms) \cup Declared(repo.templates) :
                Owned(guest, v) => guest[v].disk
=============================================================================
