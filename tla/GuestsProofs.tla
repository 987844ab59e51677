---------------------------- MODULE GuestsProofs ----------------------------
(* The guests, the plans and the jobs keep their types; two jobs of a kind *)
(* never work on one guest, jobs keep to tagged guests, clones wait for    *)
(* their templates and the reconcilers lose nothing that is declared: for  *)
(* every repository and cluster, any number of guests, names and slots,    *)
(* and any number of failures, crashes, changes from outside and commits,  *)
(* at every VMID that is not astray.                                       *)
(*                                                                         *)
(* The registry keeps jobs apart by kind and name.  That it keeps them     *)
(* apart by VMID needs one name and one kind for all that is declared,     *)
(* tagged, planned and done at it: no step of the daemon brings a second   *)
(* one in, since plans take theirs from the repository or the cluster and  *)
(* calls theirs from the plan.  A commit can, and so can somebody else.    *)
EXTENDS Guests, FiniteSetTheorems, TLAPS

-----------------------------------------------------------------------------
(* What no plan ever does, whatever the repository c and the listing g hold. *)

\* What is planned of an action in each of the six ways there are.
LEMMA PlanCases ==
    ASSUME NEW c, NEW g, NEW a \in FullPlan(c, g)
    PROVE  \/ \E t \in c.templates :
                /\ ~Present(g, t.vmid)
                /\ a = Action("create", "Template", t.name, t.vmid, BuildCalls, t)
           \/ \E t \in c.templates :
                /\ IsVM(g, t.vmid) /\ Owned(g, t.vmid)
                /\ a = Action("update", "Template", t.name, t.vmid, <<"convert">>, NoArg)
           \/ \E v \in VMID :
                /\ IsTemplate(g, v) /\ Owned(g, v) /\ v \notin Declared(c.templates)
                /\ a = Action("delete", "Template", g[v].name, v, <<"find">>, NoArg)
           \/ \E vm \in c.vms :
                /\ ~IsVM(g, vm.vmid) /\ ~Deferred(c, g, vm)
                /\ a = Action("create", "VirtualMachine", vm.name, vm.vmid,
                              IF Unresolved(c, vm) THEN <<"fail">> ELSE CreateCalls(vm),
                              Resolved(c, vm))
           \/ \E vm \in c.vms :
                /\ IsVM(g, vm.vmid) /\ Owned(g, vm.vmid)
                /\ a \in UpdateOf(c, vm, g[vm.vmid])
           \/ \E v \in VMID :
                /\ IsVM(g, v) /\ Owned(g, v)
                /\ v \notin Declared(c.vms) \cup Declared(c.templates)
                /\ a = Action("delete", "VirtualMachine", g[v].name, v, <<"find">>, NoArg)
<1>1. CASE a \in BuildTemplates(c, g)
  BY <1>1 DEF BuildTemplates
<1>2. CASE a \in ConvertBuilt(c, g)
  BY <1>2 DEF ConvertBuilt
<1>3. CASE a \in DeleteTemplates(c, g)
  BY <1>3 DEF DeleteTemplates
<1>4. CASE a \in CreateVMs(c, g)
  BY <1>4 DEF CreateVMs, Vacant
<1>5. CASE a \in UpdateVMs(c, g)
  BY <1>5 DEF UpdateVMs, Managed
<1>6. CASE a \in DeleteVMs(c, g)
  BY <1>6 DEF DeleteVMs, Stray
<1> QED
  BY <1>1, <1>2, <1>3, <1>4, <1>5, <1>6 DEF FullPlan, TemplatePlan, GuestPlan

\* Whatever an update of a VM is for, it is an update of that VM.
LEMMA UpdateIsOfVM ==
    ASSUME NEW c, NEW vm, NEW o, NEW a \in UpdateOf(c, vm, o)
    PROVE  a.type = "update" /\ a.kind = "VirtualMachine" /\ a.vmid = vm.vmid /\ a.name = vm.name
  BY DEF UpdateOf, Update, Report, Action

\* The type, the kind, the VMID and the name an action is made with.
LEMMA ActionFields ==
    ASSUME NEW type, NEW kind, NEW name, NEW vmid, NEW todo, NEW arg
    PROVE  LET a == Action(type, kind, name, vmid, todo, arg)
           IN  a.type = type /\ a.kind = kind /\ a.vmid = vmid /\ a.name = name
  BY DEF Action

-----------------------------------------------------------------------------
\* Ownership: an update or a delete is only planned of a guest that carries the
\* tag (guest.go:104 and 187, template.go:64 and 77).
THEOREM PlansTouchOwned ==
    ASSUME NEW c, NEW g, NEW a \in FullPlan(c, g), a.type # "create"
    PROVE  Owned(g, a.vmid)
  BY PlanCases, UpdateIsOfVM, ActionFields

\* A create is only planned where it cannot take anybody's place: a template
\* where no guest is, a VM where no VM is.
THEOREM PlansCreateVacant ==
    ASSUME NEW c, NEW g, NEW a \in FullPlan(c, g), a.type = "create"
    PROVE  /\ ~IsVM(g, a.vmid)
           /\ a.kind = "Template" => ~Present(g, a.vmid)
<1>1. "update" # "create" /\ "delete" # "create"
  OBVIOUS
<1> QED
  BY <1>1, PlanCases, UpdateIsOfVM, ActionFields DEF IsVM

\* No plan deletes what the repository declares, a template that is still a VM
\* included ("a template still building ... is not deleted as a stray VM").
THEOREM PlansKeepDeclared ==
    ASSUME NEW c, NEW g, NEW a \in FullPlan(c, g), a.type = "delete"
    PROVE  /\ a.vmid \notin Declared(c.templates)
           /\ a.kind = "VirtualMachine" => a.vmid \notin Declared(c.vms)
<1>1. "Template" # "VirtualMachine" /\ "update" # "delete" /\ "create" # "delete"
  OBVIOUS
<1> QED
  BY <1>1, PlanCases, UpdateIsOfVM, ActionFields

\* A clone is only planned when the template it names is ready, if that is a
\* template of the repository at all; if it is not, the action fails.
THEOREM PlansCloneReady ==
    ASSUME NEW c, NEW g, NEW vm \in c.vms,
           NEW a \in CreateVMs(c, g), a.vmid = vm.vmid, vm.from # None,
           \A x \in c.vms : x.vmid = vm.vmid => x = vm
    PROVE  \/ a.todo = <<"fail">>
           \/ \E t \in c.templates : t.name = vm.from /\ IsTemplate(g, t.vmid)
<1>1. PICK x \in c.vms :
        /\ ~Deferred(c, g, x)
        /\ a = Action("create", "VirtualMachine", x.name, x.vmid,
                      IF Unresolved(c, x) THEN <<"fail">> ELSE CreateCalls(x),
                      Resolved(c, x))
  BY DEF CreateVMs, Vacant
<1>2. x = vm
  BY <1>1 DEF Action
<1>3. a.todo = IF Unresolved(c, vm) THEN <<"fail">> ELSE CreateCalls(vm)
  BY <1>1, <1>2 DEF Action
<1>4. CASE Unresolved(c, vm)
  BY <1>3, <1>4
<1>5. CASE ~Unresolved(c, vm)
  <2>1. PICK t \in c.templates : t.name = vm.from
    BY <1>5 DEF Unresolved
  <2>2. IsTemplate(g, t.vmid)
    BY <1>1, <1>2, <2>1 DEF Deferred
  <2> QED
    BY <2>1, <2>2
<1> QED
  BY <1>4, <1>5

-----------------------------------------------------------------------------
(* The calls an action may hold, by what they read of its argument. *)

Written(conf) == \A f \in DOMAIN conf : conf[f] \in Values \cup {Unset}

Fitting(type, arg) ==
    {call \in {"new", "clone", "finish", "image", "init", "seed", "config", "start",
               "stop", "convert", "destroy", "find", "fail"} :
        /\ call \in {"new", "init", "finish"} => arg.conf \in Conf
        /\ call = "clone" => arg.from \in VMID
        /\ call \in {"new", "clone"} => type # "delete"
        /\ call = "seed" => arg.data \in Data \cup {None}
        /\ call = "config" \/ (call = "find" /\ type # "delete") => Written(arg.conf)}

\* A clone is finished right after it is made.
FinishFollows(todo) ==
    \A i \in 1..Len(todo) : todo[i] = "finish" => i = 1 \/ (i = 2 /\ todo[1] = "clone")

ActionOK(a) ==
    /\ DOMAIN a = {"type", "kind", "name", "vmid", "informational", "todo", "arg"}
    /\ a.kind \in {"Template", "VirtualMachine", "web UI"}
    /\ a.name \in Name \cup {NoName} /\ (a.type # "delete" => a.name \in Name)
    /\ a.vmid \in VMID
    /\ a.todo \in Seq(Fitting(a.type, a.arg)) /\ FinishFollows(a.todo)
    /\ a.informational \/ a.todo # <<>>

PlannedOK(a) == ActionOK(a) /\ (a.todo # <<>> => a.todo[1] # "finish")

\* What a listing may show: a guest without its name, or without its configuration.
Seen ==
    [name : Name \cup {NoName}, owned : BOOLEAN, template : BOOLEAN, running : BOOLEAN,
     conf : Conf, live : Conf, seed : Data \cup {None}, read : Data \cup {None}, disk : BOOLEAN]

-----------------------------------------------------------------------------
(* What is planned. *)

\* Calls that read nothing of the argument, and read it right, fit.
LEMMA Plain ==
    ASSUME NEW type, NEW arg
    PROVE  {"image", "start", "stop", "convert", "destroy", "fail"} \subseteq Fitting(type, arg)
  BY DEF Fitting

\* Conditional calls are calls.
LEMMA IfFits ==
    ASSUME NEW S, NEW c, NEW s \in Seq(S)
    PROVE  If(c, s) \in Seq(S)
  BY DEF If

\* The calls of a creation read a manifest whose template is resolved to a VMID.
LEMMA CreateFits ==
    ASSUME NEW vm \in VMManifest, NEW arg, NEW type,
           type # "delete", arg.conf \in Conf, arg.data \in Data \cup {None},
           vm.from # None => arg.from \in VMID
    PROVE  /\ CreateCalls(vm) \in Seq(Fitting(type, arg)) /\ CreateCalls(vm) # <<>>
           /\ FinishFollows(CreateCalls(vm)) /\ CreateCalls(vm)[1] # "finish"
<1> DEFINE F == Fitting(type, arg)
           seeds == If(vm.data # None, <<"seed">>) \o If(vm.state = "running", <<"start">>)
           plain == {"image", "init", "seed", "start"}
<1>1. /\ If(vm.data # None, <<"seed">>) \in Seq(plain)
      /\ If(vm.state = "running", <<"start">>) \in Seq(plain)
      /\ If(vm.image, <<"image", "init">>) \in Seq(plain)
  <2>1. <<"seed">> \in Seq(plain) /\ <<"start">> \in Seq(plain) /\ <<"image", "init">> \in Seq(plain)
    OBVIOUS
  <2> QED
    BY <2>1, IfFits
<1>2. seeds \in Seq(plain) /\ If(vm.image, <<"image", "init">>) \o seeds \in Seq(plain)
  BY <1>1
<1>3. plain \subseteq F /\ "new" \in F /\ (vm.from # None => "clone" \in F) /\ "finish" \in F
  BY DEF Fitting
<1> HIDE DEF seeds, F
<1>4. CASE vm.from = None
  <2>1. PICK u \in Seq(plain) : CreateCalls(vm) = <<"new">> \o u
    <3>1. CreateCalls(vm) = <<"new">> \o (If(vm.image, <<"image", "init">>) \o seeds)
      BY <1>4, <1>1 DEF CreateCalls, seeds
    <3> QED
      BY <3>1, <1>2
  <2>2. CreateCalls(vm) \in Seq(F) /\ CreateCalls(vm) # <<>> /\ CreateCalls(vm)[1] = "new"
    BY <2>1, <1>3
  <2>3. \A i \in 1..Len(CreateCalls(vm)) : CreateCalls(vm)[i] = "new" \/ CreateCalls(vm)[i] \in plain
    <3> HIDE DEF plain
    <3> QED
      BY <2>1
  <2>4. \A i \in 1..Len(CreateCalls(vm)) : CreateCalls(vm)[i] # "finish"
    BY <2>3
  <2> QED
    BY <2>2, <2>4 DEF F, FinishFollows
<1>5. CASE vm.from # None
  <2>1. PICK u \in Seq(plain) : CreateCalls(vm) = <<"clone", "finish">> \o u
    <3>1. CreateCalls(vm) = <<"clone", "finish">> \o seeds
      BY <1>5, <1>1 DEF CreateCalls, seeds
    <3> QED
      BY <3>1, <1>2
  <2>2. CreateCalls(vm) \in Seq(F) /\ CreateCalls(vm) # <<>> /\ CreateCalls(vm)[1] = "clone"
    BY <2>1, <1>3, <1>5
  <2>3. \A i \in 1..Len(CreateCalls(vm)) : i > 2 => CreateCalls(vm)[i] # "finish"
    BY <2>1
  <2> QED
    BY <2>2, <2>3 DEF F, FinishFollows
<1> QED
  BY <1>4, <1>5

\* The five ways an update of a VM is planned.
LEMMA UpdateCases ==
    ASSUME NEW c, NEW vm, NEW o, NEW a \in UpdateOf(c, vm, o)
    PROVE  \/ a = Update(vm, <<"find">>, GuestUpdate(vm, o))
           \/ a = Update(vm, <<"fail">>, NoArg)
           \/ a = Update(vm, <<"seed">> \o If(o.running, RebootCalls), vm)
           \/ a = Update(vm, RebootCalls, NoArg)
           \/ a = Report(vm)
  BY DEF UpdateOf

\* An action made of good parts is good.
LEMMA Good ==
    ASSUME NEW type, NEW kind \in {"Template", "VirtualMachine", "web UI"},
           NEW name \in Name \cup {NoName}, type # "delete" => name \in Name,
           NEW vmid \in VMID, NEW arg,
           NEW todo \in Seq(Fitting(type, arg)), todo # <<>>, todo[1] # "finish",
           FinishFollows(todo)
    PROVE  PlannedOK(Action(type, kind, name, vmid, todo, arg))
  BY DEF PlannedOK, ActionOK, Action

\* One call is a sequence of calls.
LEMMA OneCall ==
    ASSUME NEW S, NEW x \in S
    PROVE  <<x>> \in Seq(S)
  OBVIOUS

\* There is one place in it.
LEMMA OneOnly == \A i \in 1..1 : i = 1
  OBVIOUS

\* The same when what is to be done is one call.
LEMMA GoodCall ==
    ASSUME NEW type, NEW kind \in {"Template", "VirtualMachine", "web UI"},
           NEW name \in Name \cup {NoName}, type # "delete" => name \in Name,
           NEW vmid \in VMID, NEW arg,
           NEW call \in Fitting(type, arg), call # "finish"
    PROVE  PlannedOK(Action(type, kind, name, vmid, <<call>>, arg))
<1> DEFINE todo == <<call>>
<1>1. todo # <<>> /\ Len(todo) = 1 /\ todo[1] = call
  OBVIOUS
<1>2. todo \in Seq(Fitting(type, arg))
  BY OneCall
<1> HIDE DEF todo
<1>3. FinishFollows(todo)
  BY <1>1, OneOnly DEF FinishFollows
<1>4. PlannedOK(Action(type, kind, name, vmid, todo, arg))
  BY <1>1, <1>2, <1>3, Good
<1> QED
  BY <1>4 DEF todo

\* What is planned for a VM that is there.
LEMMA UpdateGood ==
    ASSUME NEW c, NEW vm \in VMManifest, NEW o \in Seen, NEW a \in UpdateOf(c, vm, o)
    PROVE  PlannedOK(a) /\ a.name = vm.name /\ a.vmid = vm.vmid
<1> USE DEF VMManifest, Seen, Conf
<1>0. vm.name \in Name \cup {NoName} /\ vm.name \in Name /\ vm.vmid \in VMID
  OBVIOUS
<1>1. CASE a = Update(vm, <<"find">>, GuestUpdate(vm, o))
  <2>1. \A f \in Always \cup Drifted(vm, o) : f \in Field
    BY PlannerAssumption DEF Drifted
  <2>2. Written(GuestUpdate(vm, o).conf)
    BY <2>1 DEF Written, GuestUpdate
  <2>3. "find" \in Fitting("update", GuestUpdate(vm, o))
    BY <2>2 DEF Fitting
  <2> QED
    BY <1>0, <1>1, <2>3, GoodCall DEF Update, Action
<1>2. CASE a = Update(vm, <<"fail">>, NoArg)
  BY <1>0, <1>2, Plain, GoodCall DEF Update, Action
<1>3. CASE a = Update(vm, <<"seed">> \o If(o.running, RebootCalls), vm)
  <2> DEFINE S == {"seed", "stop", "start"}
             todo == <<"seed">> \o If(o.running, RebootCalls)
  <2>1. S \subseteq Fitting("update", vm)
    BY DEF Fitting
  <2>2. RebootCalls \in Seq(S)
    BY DEF RebootCalls
  <2>3. If(o.running, RebootCalls) \in Seq(S)
    BY <2>2, IfFits
  <2>4. todo \in Seq(S) /\ todo # <<>>
    BY <2>3
  <2> HIDE DEF todo
  <2>5. todo \in Seq(Fitting("update", vm)) /\ \A i \in 1..Len(todo) : todo[i] # "finish"
    BY <2>1, <2>4
  <2>6. FinishFollows(todo) /\ todo[1] # "finish"
    BY <2>4, <2>5 DEF FinishFollows
  <2>7. a = Action("update", "VirtualMachine", vm.name, vm.vmid, todo, vm)
    BY <1>3 DEF Update, todo
  <2> QED
    BY <1>0, <2>4, <2>5, <2>6, <2>7, Good DEF Action
<1>4. CASE a = Update(vm, RebootCalls, NoArg)
  <2>1. RebootCalls \in Seq(Fitting("update", NoArg)) /\ RebootCalls # <<>>
    BY Plain DEF RebootCalls
  <2>2. FinishFollows(RebootCalls) /\ RebootCalls[1] # "finish"
    BY DEF RebootCalls, FinishFollows
  <2> QED
    BY <1>0, <1>4, <2>1, <2>2, Good DEF Update, Action
<1>5. CASE a = Report(vm)
  <2>1. <<>> \in Seq(Fitting("update", NoArg)) /\ FinishFollows(<<>>)
    BY DEF FinishFollows
  <2> QED
    BY <1>0, <1>5, <2>1 DEF Report, Update, Action, PlannedOK, ActionOK
<1> QED
  BY <1>1, <1>2, <1>3, <1>4, <1>5, UpdateCases

\* Whatever is planned is good.
LEMMA PlanGood ==
    ASSUME NEW c \in Commits, NEW g \in [VMID -> Seen \cup {Absent}], NEW a \in FullPlan(c, g)
    PROVE  PlannedOK(a)
<1>1. /\ \A vm \in c.vms : vm \in VMManifest
      /\ \A t \in c.templates : t \in TemplateManifest
  BY GuestsAssumption
<1>2. \A v \in VMID : Present(g, v) => g[v] \in Seen
  BY DEF Present
<1>3. ASSUME NEW t \in c.templates, a = Action("create", "Template", t.name, t.vmid, BuildCalls, t)
      PROVE  PlannedOK(a)
  <2>1. t.name \in Name \cup {NoName} /\ t.name \in Name /\ t.vmid \in VMID /\ t.conf \in Conf
    BY <1>1 DEF TemplateManifest
  <2>2. BuildCalls \in Seq(Fitting("create", t)) /\ BuildCalls # <<>>
    BY <2>1 DEF BuildCalls, Fitting
  <2>3. FinishFollows(BuildCalls) /\ BuildCalls[1] # "finish"
    BY DEF FinishFollows, BuildCalls
  <2> QED
    BY <1>3, <2>1, <2>2, <2>3, Good
<1>4. ASSUME NEW t \in c.templates,
             a = Action("update", "Template", t.name, t.vmid, <<"convert">>, NoArg)
      PROVE  PlannedOK(a)
  <2>1. t.name \in Name \cup {NoName} /\ t.name \in Name /\ t.vmid \in VMID
    BY <1>1 DEF TemplateManifest
  <2> QED
    BY <1>4, <2>1, Plain, GoodCall
<1>5. ASSUME NEW v \in VMID, Present(g, v), Owned(g, v),
             NEW kind \in {"Template", "VirtualMachine"},
             a = Action("delete", kind, g[v].name, v, <<"find">>, NoArg)
      PROVE  PlannedOK(a)
  <2>1. g[v].name \in Name \cup {NoName}
    BY <1>2, <1>5 DEF Seen
  <2>2. "find" \in Fitting("delete", NoArg)
    BY DEF Fitting
  <2> QED
    BY <1>5, <2>1, <2>2, GoodCall
<1>6. ASSUME NEW vm \in c.vms,
             a = Action("create", "VirtualMachine", vm.name, vm.vmid,
                        IF Unresolved(c, vm) THEN <<"fail">> ELSE CreateCalls(vm), Resolved(c, vm))
      PROVE  PlannedOK(a)
  <2>1. vm \in VMManifest /\ vm.name \in Name \cup {NoName} /\ vm.name \in Name /\ vm.vmid \in VMID
    BY <1>1 DEF VMManifest
  <2>2. CASE Unresolved(c, vm)
    BY <1>6, <2>1, <2>2, Plain, GoodCall
  <2>3. CASE ~Unresolved(c, vm)
    <3>1. Resolved(c, vm).conf \in Conf /\ Resolved(c, vm).data \in Data \cup {None}
      BY <2>1 DEF Resolved, VMManifest
    <3>2. vm.from # None => Resolved(c, vm).from \in VMID
      <4>1. SUFFICES ASSUME vm.from # None
                     PROVE  Resolved(c, vm).from \in VMID
        OBVIOUS
      <4>2. \E t \in c.templates : t.name = vm.from
        BY <2>3, <4>1 DEF Unresolved
      <4>3. (CHOOSE t \in c.templates : t.name = vm.from) \in c.templates
        BY <4>2
      <4>4. Resolved(c, vm).from = (CHOOSE t \in c.templates : t.name = vm.from).vmid
        BY <2>1, <2>3, <4>1 DEF Resolved, VMManifest
      <4> QED
        BY <1>1, <4>3, <4>4 DEF TemplateManifest
    <3> QED
      BY <1>6, <2>1, <2>3, <3>1, <3>2, CreateFits, Good
  <2> QED
    BY <2>2, <2>3
<1>7. ASSUME NEW vm \in c.vms, Owned(g, vm.vmid), a \in UpdateOf(c, vm, g[vm.vmid])
      PROVE  PlannedOK(a)
  <2>1. vm \in VMManifest /\ vm.vmid \in VMID
    BY <1>1 DEF VMManifest
  <2>2. g[vm.vmid] \in Seen
    BY <1>2, <1>7, <2>1 DEF Owned
  <2> QED
    BY <1>7, <2>1, <2>2, UpdateGood
<1> QED
  BY <1>3, <1>4, <1>5, <1>6, <1>7, PlanCases DEF IsTemplate, IsVM

\* It goes by a name that the repository has for its VMID, or the listed guest; it
\* is for a template where one is declared or listed, creates a VM where one is
\* declared.
LEMMA PlanNames ==
    ASSUME NEW c, NEW g, NEW a \in FullPlan(c, g)
    PROVE  /\ \/ \E m \in c.vms \cup c.templates : m.vmid = a.vmid /\ m.name = a.name
              \/ Owned(g, a.vmid) /\ a.name = g[a.vmid].name
           /\ a.kind = "Template" =>
                a.vmid \in Declared(c.templates) \/ (IsTemplate(g, a.vmid) /\ Owned(g, a.vmid))
           /\ a.kind = "VirtualMachine" /\ a.type = "create" => a.vmid \in Declared(c.vms)
           /\ a.kind \in {"Template", "VirtualMachine"}
<1>1. "Template" # "VirtualMachine" /\ "update" # "create" /\ "delete" # "create"
  OBVIOUS
<1> QED
  BY <1>1, PlanCases, UpdateIsOfVM, ActionFields DEF Declared

-----------------------------------------------------------------------------
(* What is planned and what is done is made of good parts. *)

JobOK(k) == ActionOK(jobs[k]) /\ jobs[k].todo # <<>> /\ k = KeyOf(jobs[k])

IInv ==
    /\ TypeOK
    /\ \A a \in plan : PlannedOK(a)
    /\ \A k \in DOMAIN jobs : JobOK(k)

\* A good action has the fields it is read by.
LEMMA Parts ==
    ASSUME NEW a, ActionOK(a)
    PROVE  /\ DOMAIN a = {"type", "kind", "name", "vmid", "informational", "todo", "arg"}
           /\ a.vmid \in VMID /\ a.name \in Name \cup {NoName}
           /\ a.kind \in {"Template", "VirtualMachine", "web UI"}
           /\ a.todo \in Seq(Fitting(a.type, a.arg))
           /\ KeyOf(a) \in Keys
  BY DEF ActionOK, KeyOf, Keys

-----------------------------------------------------------------------------
(* What a call makes of a guest. *)

\* The calls one by one.
LEMMA AfterCases ==
    ASSUME NEW j, NEW call \in Fitting(j.type, j.arg), NEW o \in After(call, j)
    PROVE  \/ call = "new" /\ o = Fresh(j, Len(j.todo) > 1 /\ j.todo[2] = "image")
           \/ call = "clone" /\ o \in Copies(j)
           \/ call = "image" /\ o = Imported(guest[j.vmid])
           \/ call = "init" /\ o = Initialised(guest[j.vmid], j)
           \/ call = "finish" /\ o = WithSettings(guest[j.vmid], j)
           \/ call = "config" /\ o = Reconfigured(guest[j.vmid], j.arg.conf)
           \/ call = "seed" /\ o = WithSeed(guest[j.vmid], j)
           \/ call = "start" /\ o = Start(guest[j.vmid])
           \/ call = "stop" /\ o = Stop(guest[j.vmid])
           \/ call = "convert" /\ o = Converted(guest[j.vmid])
           \/ call = "destroy" /\ o = Absent
           \/ call \in {"find", "fail"} /\ o = guest[j.vmid]
  BY DEF After, Fitting

\* A call but the two that make a guest needs one; a clone needs its source.
LEMMA MayNeeds ==
    ASSUME NEW j, NEW call \in Fitting(j.type, j.arg), May(call, j)
    PROVE  \/ call = "new" /\ ~Present(guest, j.vmid)
           \/ call = "clone" /\ ~Present(guest, j.vmid) /\ Present(guest, j.arg.from)
           \/ call \notin {"new", "clone", "fail"} /\ Present(guest, j.vmid)
  BY DEF May, Fitting, IsVM

\* A guest whose configuration is written is a guest.
LEMMA ReconfiguredIsGuest ==
    ASSUME NEW o \in Guest, NEW conf, Written(conf)
    PROVE  /\ Reconfigured(o, conf) \in Guest
           /\ Reconfigured(o, conf).name = o.name /\ Reconfigured(o, conf).owned = o.owned
  BY DEF Guest, Reconfigured, Written

\* What is left is a guest or none.  It has the name it had before or that of the
\* job, and that of the job if it has just been made; it is tagged if it was
\* before, unless it has just been made or finished.
LEMMA AfterCall ==
    ASSUME guest \in [VMID -> Guest \cup {Absent}],
           NEW j, ActionOK(j), j.todo # <<>>,
           NEW call \in Fitting(j.type, j.arg), May(call, j), NEW o \in After(call, j)
    PROVE  /\ o \in Guest \/ (o = Absent /\ call = "destroy")
           /\ o # Absent /\ call \in {"new", "clone"} => o.name = j.name
           /\ o # Absent /\ call \notin {"new", "clone"} =>
                /\ Present(guest, j.vmid)
                /\ o.name = guest[j.vmid].name
                /\ call # "finish" => o.owned = guest[j.vmid].owned
<1> DEFINE old == guest[j.vmid]
           Goal == /\ o \in Guest \/ (o = Absent /\ call = "destroy")
                   /\ o # Absent /\ call \in {"new", "clone"} => o.name = j.name
                   /\ o # Absent /\ call \notin {"new", "clone"} =>
                        /\ Present(guest, j.vmid)
                        /\ o.name = old.name
                        /\ call # "finish" => o.owned = old.owned
<1>1. j.vmid \in VMID
  BY DEF ActionOK
<1>2. call \notin {"new", "clone"} => Present(guest, j.vmid) /\ old \in Guest
  BY <1>1, MayNeeds DEF Present, May, Fitting
<1>3. /\ call \in {"new", "init", "finish"} => j.arg.conf \in Conf
      /\ call = "config" => Written(j.arg.conf)
      /\ call = "seed" => j.arg.data \in Data \cup {None}
      /\ call = "clone" => j.arg.from \in VMID
      /\ call \in {"new", "clone"} => j.name \in Name
  BY DEF Fitting, ActionOK
<1>4. CASE call = "new" /\ o = Fresh(j, Len(j.todo) > 1 /\ j.todo[2] = "image")
  <2>1. (CHOOSE x \in Values : TRUE) \in Values
    BY GuestsAssumption
  <2>2. \A f \in Field : j.arg.conf[f] \in Values \cup {Unset}
    BY <1>3, <1>4 DEF Conf
  <2>3. o \in Guest
    BY <1>3, <1>4, <2>1, <2>2 DEF Fresh, Guest, Conf
  <2>4. o.name = j.name
    BY <1>4 DEF Fresh
  <2> QED
    BY <1>4, <2>3, <2>4
<1>5. CASE call = "clone" /\ o \in Copies(j)
  <2>1. guest[j.arg.from] \in Guest
    BY <1>3, <1>5, MayNeeds DEF Present
  <2>2. PICK tagged \in {FALSE, guest[j.arg.from].owned} :
          o = [guest[j.arg.from] EXCEPT !.name = j.name, !.template = FALSE, !.running = FALSE,
                                        !.owned = tagged]
    BY <1>5 DEF Copies
  <2>3. tagged \in BOOLEAN
    BY <2>1, <2>2 DEF Guest
  <2>4. o \in Guest /\ o.name = j.name
    BY <1>3, <1>5, <2>1, <2>2, <2>3 DEF Guest
  <2> QED
    BY <1>5, <2>4
<1>6. CASE call = "finish" /\ o = WithSettings(old, j)
  <2>1. old \in Guest /\ Written(j.arg.conf)
    BY <1>2, <1>3, <1>6 DEF Conf, Written
  <2>2. Reconfigured(old, j.arg.conf) \in Guest /\ Reconfigured(old, j.arg.conf).name = old.name
    BY <2>1, ReconfiguredIsGuest
  <2>3. o \in Guest /\ o.name = old.name
    BY <1>6, <2>2 DEF WithSettings, Guest
  <2> QED
    BY <1>2, <1>6, <2>3
<1>7. CASE call = "config" /\ o = Reconfigured(old, j.arg.conf)
  BY <1>2, <1>3, <1>7, ReconfiguredIsGuest
<1>12. CASE call = "init" /\ o = Initialised(old, j)
  <2> DEFINE conf == [f \in Field \ Always |-> j.arg.conf[f]]
  <2>1. Written(conf)
    BY <1>3, <1>12 DEF Conf, Written
  <2>2. o = Reconfigured(old, conf)
    BY <1>12 DEF Initialised
  <2> HIDE DEF conf
  <2> QED
    BY <1>2, <1>12, <2>1, <2>2, ReconfiguredIsGuest
<1>8. CASE call = "start" /\ o = Start(old)
  <2>1. o \in Guest /\ o.name = old.name /\ o.owned = old.owned
    BY <1>2, <1>8 DEF Start, Guest, Conf
  <2> QED
    BY <1>2, <1>8, <2>1
<1>9. CASE \/ call = "stop" /\ o = Stop(old)
           \/ call = "convert" /\ o = Converted(old)
           \/ call = "image" /\ o = Imported(old)
           \/ call = "seed" /\ o = WithSeed(old, j)
  <2>1. o \in Guest /\ o.name = old.name /\ o.owned = old.owned
    BY <1>2, <1>3, <1>9 DEF Stop, Converted, Imported, WithSeed, Guest
  <2> QED
    BY <1>2, <1>9, <2>1
<1>10. CASE call = "destroy" /\ o = Absent
  BY <1>10
<1>11. CASE call \in {"find", "fail"} /\ o = old
  BY <1>2, <1>11
<1> QED
  BY <1>4, <1>5, <1>6, <1>7, <1>8, <1>9, <1>10, <1>11, <1>12, AfterCases

-----------------------------------------------------------------------------
(* The steps. *)

\* What is spent is a number; a commit counts.
LEMMA Spending ==
    ASSUME TypeOK
    PROVE  /\ Upset => /\ spent' \in [upset : Nat, commit : Nat, bypass : Nat]
                       /\ spent'.commit = spent.commit
           /\ Ask("bypass") => /\ spent' \in [upset : Nat, commit : Nat, bypass : Nat]
                               /\ spent'.commit = spent.commit
           /\ Ask("commit") => /\ spent' \in [upset : Nat, commit : Nat, bypass : Nat]
                               /\ spent'.commit # 0
  BY DEF TypeOK, Upset, Ask

LEMMA InitIInv == Init => IInv
<1> SUFFICES ASSUME Init
             PROVE  IInv
  OBVIOUS
<1>1. TypeOK
  BY GuestsAssumption DEF Init, TypeOK, Disagreeing
<1> QED
  BY <1>1 DEF Init, IInv

\* A listing is of guests that may lack a name or a configuration; what it tags is
\* tagged, and it has their names unless that is noted.
LEMMA ListedGood ==
    ASSUME IInv, NEW g \in Listings, Listed(g)
    PROVE  /\ g \in [VMID -> Seen \cup {Absent}]
           /\ spent' \in [upset : Nat, commit : Nat, bypass : Nat]
           /\ \/ /\ UNCHANGED astray
                 /\ \A v \in VMID : Owned(g, v) => Owned(guest, v) /\ g[v].name = guest[v].name
              \/ astray' = astray \cup Disagreeing'
<1>0. guest \in [VMID -> Guest \cup {Absent}] /\ TypeOK
  BY DEF IInv, TypeOK
<1>1. Guest \subseteq Seen
  BY DEF Guest, Seen, Conf
<1>2. CASE g = guest /\ UNCHANGED <<astray, spent>>
  <2>1. g \in [VMID -> Seen \cup {Absent}]
    BY <1>0, <1>1, <1>2
  <2> QED
    BY <1>0, <1>2, <2>1 DEF TypeOK
<1>3. CASE g \in Unread /\ Upset /\ UNCHANGED astray
  <2>1. PICK v \in VMID : Present(guest, v) /\ g = [guest EXCEPT ![v] = ConfigUnread(@)]
    BY <1>3 DEF Unread
  <2>2. guest[v] \in Guest
    BY <1>0, <2>1 DEF Present
  <2>3. /\ ConfigUnread(guest[v]) \in Seen
        /\ ConfigUnread(guest[v]).name = guest[v].name
        /\ ConfigUnread(guest[v]).owned = guest[v].owned
    BY <2>2 DEF ConfigUnread, Guest, Seen, Conf
  <2>4. g \in [VMID -> Seen \cup {Absent}]
    BY <1>0, <1>1, <2>1, <2>3
  <2>5. \A x \in VMID : Owned(g, x) => Owned(guest, x) /\ g[x].name = guest[x].name
    BY <1>0, <2>1, <2>3 DEF Owned, Present
  <2>6. spent' \in [upset : Nat, commit : Nat, bypass : Nat]
    BY <1>0, <1>3, Spending
  <2> QED
    BY <1>3, <2>4, <2>5, <2>6
<1>4. CASE g \in Unnamed /\ Ask("bypass") /\ astray' = astray \cup Disagreeing'
  <2>1. PICK k \in DOMAIN jobs :
          Present(guest, jobs[k].vmid) /\ g = [guest EXCEPT ![jobs[k].vmid].name = NoName]
    BY <1>4 DEF Unnamed
  <2>2. jobs[k].vmid \in VMID
    BY <1>0 DEF TypeOK
  <2>3. guest[jobs[k].vmid] \in Guest
    BY <1>0, <2>1, <2>2 DEF Present
  <2>4. [guest[jobs[k].vmid] EXCEPT !.name = NoName] \in Seen
    BY <2>3 DEF Guest, Seen, Conf
  <2>5. g \in [VMID -> Seen \cup {Absent}]
    BY <1>0, <1>1, <2>1, <2>4
  <2>6. spent' \in [upset : Nat, commit : Nat, bypass : Nat]
    BY <1>0, <1>4, Spending
  <2> QED
    BY <1>4, <2>5, <2>6
<1> QED
  BY <1>2, <1>3, <1>4 DEF Listed

\* A VMID is one, whatever it is.
LEMMA AstrayIsOfVMIDs ==
    ASSUME TypeOK
    PROVE  /\ Disagreeing' \subseteq VMID
           /\ UNCHANGED astray \/ astray' = astray \cup Disagreeing' \/ astray' = Disagreeing'
                => astray' \subseteq VMID
  BY DEF TypeOK, Disagreeing

LEMMA ListTemplatesIInv == IInv /\ ListTemplates => IInv'
<1> SUFFICES ASSUME IInv, ListTemplates
             PROVE  IInv'
  OBVIOUS
<1>1. PICK g \in Listings : Listed(g) /\ plan' = TemplatePlan(repo, g)
  BY DEF ListTemplates
<1>2. /\ g \in [VMID -> Seen \cup {Absent}]
      /\ spent' \in [upset : Nat, commit : Nat, bypass : Nat]
      /\ astray' \subseteq VMID
  BY <1>1, ListedGood, AstrayIsOfVMIDs DEF IInv
<1>3. plan' \subseteq FullPlan(repo, g) /\ repo \in Commits
  BY <1>1 DEF FullPlan, IInv, TypeOK
<1>4. \A a \in plan' : PlannedOK(a)
  BY <1>2, <1>3, PlanGood
<1>5. TypeOK'
  BY <1>2 DEF IInv, TypeOK, ListTemplates
<1> QED
  BY <1>4, <1>5 DEF IInv, JobOK, KeyOf, ListTemplates

LEMMA ListVMsIInv == IInv /\ ListVMs => IInv'
<1> SUFFICES ASSUME IInv, ListVMs
             PROVE  IInv'
  OBVIOUS
<1>1. PICK g \in Listings : Listed(g) /\ plan' = plan \cup GuestPlan(want, g)
  BY DEF ListVMs
<1>2. /\ g \in [VMID -> Seen \cup {Absent}]
      /\ spent' \in [upset : Nat, commit : Nat, bypass : Nat]
      /\ astray' \subseteq VMID
  BY <1>1, ListedGood, AstrayIsOfVMIDs DEF IInv
<1>3. want \in Commits /\ \A a \in plan' : a \in plan \/ a \in FullPlan(want, g)
  BY <1>1 DEF FullPlan, IInv, TypeOK
<1>4. \A a \in plan' : PlannedOK(a)
  BY <1>2, <1>3, PlanGood DEF IInv
<1>5. TypeOK'
  BY <1>2 DEF IInv, TypeOK, ListVMs
<1> QED
  BY <1>4, <1>5 DEF IInv, JobOK, KeyOf, ListVMs

LEMMA SubmitIInv == IInv /\ Submit => IInv'
<1> SUFFICES ASSUME IInv, Submit
             PROVE  IInv'
  OBVIOUS
<1>1. PICK a \in plan : /\ jobs' = IF Taken(a) THEN Enter(KeyOf(a), a) ELSE jobs
                        /\ plan' = plan \ {a}
  BY DEF Submit
<1>2. UNCHANGED <<guest, repo, want, astray, spent>> /\ stage' = IF plan' = {} THEN "idle" ELSE "submit"
  BY DEF Submit
<1>3. PlannedOK(a) /\ ActionOK(a) /\ KeyOf(a) \in Keys
  BY Parts DEF IInv, PlannedOK
<1>4. Taken(a) => a.todo # <<>>
  BY <1>3 DEF Taken, ActionOK
<1>5. \A k \in DOMAIN jobs' :
        \/ k \in DOMAIN jobs /\ jobs'[k] = jobs[k]
        \/ Taken(a) /\ k = KeyOf(a) /\ jobs'[k] = a
  BY <1>1 DEF Enter
<1>6. \A k \in DOMAIN jobs' : JobOK(k)'
  <2> SUFFICES ASSUME NEW k \in DOMAIN jobs'
               PROVE  JobOK(k)'
    OBVIOUS
  <2>1. ActionOK(jobs'[k]) /\ jobs'[k].todo # <<>> /\ k = KeyOf(jobs'[k])
    BY <1>3, <1>4, <1>5 DEF IInv, JobOK
  <2> QED
    BY <2>1 DEF JobOK, ActionOK, FinishFollows, Fitting, Conf, Written, KeyOf
<1>7. TypeOK'
  <2>1. \A k \in DOMAIN jobs' : k \in Keys /\ jobs'[k].vmid \in VMID /\ jobs'[k].todo # <<>>
    BY <1>3, <1>4, <1>5, Parts DEF IInv, TypeOK
  <2> QED
    BY <1>2, <2>1 DEF IInv, TypeOK
<1> QED
  BY <1>1, <1>6, <1>7 DEF IInv, PlannedOK, ActionOK, FinishFollows, Fitting, Conf, Written

\* A call leaves a guest or none.
LEMMA CallMoves ==
    ASSUME IInv, NEW k \in DOMAIN jobs, May(Head(jobs[k].todo), jobs[k]),
           NEW o \in After(Head(jobs[k].todo), jobs[k]) \cup {guest[jobs[k].vmid]},
           guest' = [guest EXCEPT ![jobs[k].vmid] = o]
    PROVE  guest' \in [VMID -> Guest \cup {Absent}]
<1> DEFINE j == jobs[k]
           call == Head(j.todo)
<1>1. /\ guest \in [VMID -> Guest \cup {Absent}] /\ j.vmid \in VMID
      /\ ActionOK(j) /\ j.todo # <<>> /\ j.todo \in Seq(Fitting(j.type, j.arg))
  BY Parts DEF IInv, TypeOK, JobOK
<1>2. call \in Fitting(j.type, j.arg)
  BY <1>1
<1>3. o \in After(call, j) => o \in Guest \cup {Absent}
  BY <1>1, <1>2, AfterCall
<1> QED
  BY <1>1, <1>3

\* Jobs that are left as they are stay good, and so do those that go on, if they do.
LEMMA JobsIInv ==
    ASSUME IInv, guest' \in [VMID -> Guest \cup {Absent}],
           spent' \in [upset : Nat, commit : Nat, bypass : Nat],
           repo' \in Commits, want' \in Commits, astray' \subseteq VMID,
           \/ UNCHANGED <<stage, plan>>
           \/ stage' = "idle" /\ plan' = {},
           \A k \in DOMAIN jobs' :
              /\ k \in DOMAIN jobs
              /\ \/ jobs'[k] = jobs[k]
                 \/ /\ ActionOK(jobs'[k]) /\ jobs'[k].todo # <<>>
                    /\ KeyOf(jobs'[k]) = k /\ jobs'[k].vmid = jobs[k].vmid
    PROVE  IInv'
<1>1. \A a \in plan' : a \in plan
  OBVIOUS
<1>2. \A k \in DOMAIN jobs' :
        /\ ActionOK(jobs'[k]) /\ jobs'[k].todo # <<>> /\ KeyOf(jobs'[k]) = k
        /\ k \in Keys /\ jobs'[k].vmid = jobs[k].vmid /\ jobs'[k].vmid \in VMID
        /\ jobs'[k].name = jobs[k].name
  <2> SUFFICES ASSUME NEW k \in DOMAIN jobs'
               PROVE  /\ ActionOK(jobs'[k]) /\ jobs'[k].todo # <<>> /\ KeyOf(jobs'[k]) = k
                      /\ k \in Keys /\ jobs'[k].vmid = jobs[k].vmid /\ jobs'[k].vmid \in VMID
                      /\ jobs'[k].name = jobs[k].name
    OBVIOUS
  <2>1. k \in DOMAIN jobs /\ KeyOf(jobs[k]) = k /\ ActionOK(jobs[k]) /\ jobs[k].todo # <<>>
    BY DEF IInv, JobOK
  <2>2. ActionOK(jobs'[k]) /\ jobs'[k].todo # <<>> /\ KeyOf(jobs'[k]) = k /\ jobs'[k].vmid = jobs[k].vmid
    BY <2>1
  <2>3. jobs'[k].name = jobs[k].name
    BY <2>1, <2>2 DEF KeyOf
  <2>4. KeyOf(jobs'[k]) \in Keys /\ jobs'[k].vmid \in VMID
    BY <2>2, Parts
  <2> QED
    BY <2>1, <2>2, <2>3, <2>4
<1>3. TypeOK'
  BY <1>1, <1>2 DEF IInv, TypeOK
<1>4. \A k \in DOMAIN jobs' : JobOK(k)'
  BY <1>2 DEF JobOK, ActionOK, FinishFollows, Fitting, Conf, Written, KeyOf
<1> QED
  BY <1>1, <1>3, <1>4 DEF IInv, PlannedOK, ActionOK, FinishFollows, Fitting, Conf, Written

\* What find finds out to do is one call or more, none of them the end of a clone.
LEMMA FoundFits ==
    ASSUME NEW j, ActionOK(j), "find" \in Fitting(j.type, j.arg)
    PROVE  /\ Found(j) \in Seq(Fitting(j.type, j.arg))
           /\ \A i \in 1..Len(Found(j)) : Found(j)[i] # "finish"
<1> DEFINE F == Fitting(j.type, j.arg)
           S == F \ {"finish"}
           running == guest[j.vmid].running
<1>1. "stop" \in S /\ "start" \in S /\ "destroy" \in S /\ (j.type # "delete" => "config" \in S)
  BY DEF Fitting
<1> HIDE DEF F, S
<1>2. /\ <<"stop">> \in Seq(S) /\ <<"start">> \in Seq(S) /\ <<"destroy">> \in Seq(S)
      /\ j.type # "delete" => <<"config">> \in Seq(S)
  BY <1>1, OneCall
<1>3. CASE j.type = "delete"
  <2>1. If(running, <<"stop">>) \in Seq(S)
    BY <1>2, IfFits
  <2>2. Found(j) = If(running, <<"stop">>) \o <<"destroy">>
    BY <1>3 DEF Found
  <2>3. Found(j) \in Seq(S)
    BY <1>2, <2>1, <2>2
  <2> QED
    BY <2>3 DEF S, F
<1>4. CASE j.type # "delete"
  <2>1. /\ If(running /\ ~j.arg.running, <<"stop">>) \in Seq(S)
        /\ If(~running /\ j.arg.running, <<"start">>) \in Seq(S)
    BY <1>2, IfFits
  <2>2. Found(j) = <<"config">> \o If(running /\ ~j.arg.running, <<"stop">>)
                                \o If(~running /\ j.arg.running, <<"start">>)
    BY <1>4 DEF Found
  <2>3. Found(j) \in Seq(S)
    BY <1>2, <1>4, <2>1, <2>2
  <2> QED
    BY <2>3 DEF S, F
<1> QED
  BY <1>3, <1>4

\* A job that goes on is good, and about to finish a clone only after making it.
LEMMA RestFits ==
    ASSUME NEW j, ActionOK(j), j.todo # <<>>, NEW rest, rest = Rest(Head(j.todo), j), rest # <<>>
    PROVE  /\ ActionOK([j EXCEPT !.todo = rest])
           /\ rest[1] = "finish" => j.todo[1] = "clone"
<1> DEFINE F == Fitting(j.type, j.arg)
<1>0. j.todo \in Seq(F) /\ FinishFollows(j.todo)
  BY DEF ActionOK
<1> HIDE DEF F
<1>1. j.todo \in Seq(F) /\ Head(j.todo) = j.todo[1] /\ Head(j.todo) \in F /\ FinishFollows(j.todo)
  BY <1>0
<1>2. rest \in Seq(F) /\ FinishFollows(rest) /\ (rest[1] = "finish" => j.todo[1] = "clone")
  <2>1. CASE Head(j.todo) = "find"
    <3>1. rest = Found(j)
      BY <2>1 DEF Rest
    <3>2. Found(j) \in Seq(F) /\ \A i \in 1..Len(Found(j)) : Found(j)[i] # "finish"
      BY <1>1, <2>1, FoundFits DEF F
    <3>3. rest[1] # "finish"
      BY <3>1, <3>2
    <3> QED
      BY <3>1, <3>2, <3>3 DEF FinishFollows
  <2>2. CASE Head(j.todo) # "find"
    <3>1. rest = Tail(j.todo)
      BY <2>2 DEF Rest
    <3>2. /\ rest \in Seq(F) /\ Len(rest) = Len(j.todo) - 1
          /\ \A i \in 1..Len(rest) : rest[i] = j.todo[i + 1] /\ i + 1 \in 1..Len(j.todo)
      BY <1>1, <3>1
    <3>3. \A i \in 1..Len(rest) : rest[i] = "finish" => i = 1 /\ j.todo[1] = "clone"
      BY <1>1, <3>2 DEF FinishFollows
    <3>4. 1 \in 1..Len(rest)
      BY <3>2
    <3> QED
      BY <3>2, <3>3, <3>4 DEF FinishFollows
  <2> QED
    BY <2>1, <2>2
<1>3. /\ DOMAIN [j EXCEPT !.todo = rest] = DOMAIN j
      /\ [j EXCEPT !.todo = rest].type = j.type /\ [j EXCEPT !.todo = rest].kind = j.kind
      /\ [j EXCEPT !.todo = rest].name = j.name /\ [j EXCEPT !.todo = rest].vmid = j.vmid
      /\ [j EXCEPT !.todo = rest].arg = j.arg /\ [j EXCEPT !.todo = rest].todo = rest
  BY Parts
<1> QED
  BY <1>2, <1>3 DEF ActionOK, F

LEMMA CallIInv == \A k \in Keys : IInv /\ Call(k) => IInv'
<1> SUFFICES ASSUME NEW k \in Keys, IInv, Call(k)
             PROVE  IInv'
  OBVIOUS
<1> DEFINE j == jobs[k]
           rest == Rest(Head(j.todo), j)
<1>1. /\ k \in DOMAIN jobs /\ May(Head(j.todo), j)
      /\ jobs' = IF rest = <<>> THEN Drop(k) ELSE [jobs EXCEPT ![k].todo = rest]
      /\ UNCHANGED <<repo, passVars, astray, spent>>
  BY DEF Call
<1>2. PICK o \in After(Head(j.todo), j) : guest' = [guest EXCEPT ![j.vmid] = o]
  BY DEF Call
<1>3. guest' \in [VMID -> Guest \cup {Absent}]
  BY <1>1, <1>2, CallMoves
<1>5. ActionOK(j) /\ j.todo # <<>> /\ KeyOf(j) = k
  BY <1>1 DEF IInv, JobOK
<1> HIDE DEF rest
<1>7. ASSUME NEW x \in DOMAIN jobs', jobs'[x] # jobs[x]
      PROVE  x = k /\ rest # <<>> /\ jobs'[x] = [j EXCEPT !.todo = rest]
  BY <1>1, <1>7 DEF Drop
<1>8. ASSUME rest # <<>>
      PROVE  LET i == [j EXCEPT !.todo = rest]
             IN  ActionOK(i) /\ i.todo # <<>> /\ KeyOf(i) = k /\ i.vmid = j.vmid
  <2> DEFINE i == [j EXCEPT !.todo = rest]
  <2>1. i.todo = rest /\ i.vmid = j.vmid /\ i.kind = j.kind /\ i.name = j.name
    BY <1>5, Parts
  <2>2. ActionOK(i)
    BY <1>5, <1>8, RestFits DEF rest
  <2> QED
    BY <1>5, <1>8, <2>1, <2>2 DEF KeyOf
<1>9. DOMAIN jobs' \subseteq DOMAIN jobs
  BY <1>1 DEF Drop
<1> QED
  <2>1. \A x \in DOMAIN jobs' :
          /\ x \in DOMAIN jobs
          /\ \/ jobs'[x] = jobs[x]
             \/ /\ ActionOK(jobs'[x]) /\ jobs'[x].todo # <<>>
                /\ KeyOf(jobs'[x]) = x /\ jobs'[x].vmid = jobs[x].vmid
    BY <1>7, <1>8, <1>9
  <2>2. /\ spent' \in [upset : Nat, commit : Nat, bypass : Nat] /\ astray' \subseteq VMID
        /\ repo' \in Commits /\ want' \in Commits /\ UNCHANGED <<stage, plan>>
    BY <1>1 DEF IInv, TypeOK, passVars
  <2> QED
    BY <1>3, <2>1, <2>2, JobsIInv

\* A job that ends leaves the others as they are.
LEMMA EndIInv ==
    ASSUME IInv, guest' \in [VMID -> Guest \cup {Absent}],
           NEW k, jobs' = Drop(k), UNCHANGED <<repo, passVars, astray>>,
           spent' \in [upset : Nat, commit : Nat, bypass : Nat]
    PROVE  IInv'
<1>1. \A x \in DOMAIN jobs' : x \in DOMAIN jobs /\ jobs'[x] = jobs[x]
  BY DEF Drop
<1>2. repo' \in Commits /\ want' \in Commits /\ astray' \subseteq VMID /\ UNCHANGED <<stage, plan>>
  BY DEF IInv, TypeOK, passVars
<1> QED
  BY <1>1, <1>2, JobsIInv

LEMMA RefusedIInv == \A k \in Keys : IInv /\ Refused(k) => IInv'
<1> SUFFICES ASSUME NEW k \in Keys, IInv, Refused(k)
             PROVE  IInv'
  OBVIOUS
<1>1. jobs' = Drop(k) /\ UNCHANGED <<guest, repo, passVars, astray, spent>>
  BY DEF Refused
<1>2. /\ spent' \in [upset : Nat, commit : Nat, bypass : Nat]
      /\ guest' \in [VMID -> Guest \cup {Absent}]
  BY <1>1 DEF IInv, TypeOK
<1> QED
  BY <1>1, <1>2, EndIInv

LEMMA FailedIInv == \A k \in Keys : IInv /\ Failed(k) => IInv'
<1> SUFFICES ASSUME NEW k \in Keys, IInv, Failed(k)
             PROVE  IInv'
  OBVIOUS
<1> DEFINE j == jobs[k]
<1>1. /\ k \in DOMAIN jobs /\ jobs' = Drop(k) /\ May(Head(j.todo), j)
      /\ UNCHANGED <<repo, passVars, astray>>
  BY DEF Failed
<1>2. PICK o \in After(Head(j.todo), j) \cup {guest[j.vmid]} : guest' = [guest EXCEPT ![j.vmid] = o]
  BY DEF Failed
<1>3. guest' \in [VMID -> Guest \cup {Absent}]
  BY <1>1, <1>2, CallMoves
<1>4. spent' \in [upset : Nat, commit : Nat, bypass : Nat]
  BY Spending DEF Failed, IInv
<1> QED
  BY <1>1, <1>3, <1>4, EndIInv

LEMMA ClickIInv == IInv /\ Click => IInv'
<1> SUFFICES ASSUME IInv, Click
             PROVE  IInv'
  OBVIOUS
<1>1. PICK vm \in repo.vms :
        /\ jobs' = Enter(<<"web UI", vm.name>>,
                         Action("delete", "web UI", vm.name, vm.vmid, <<"find">>, NoArg))
        /\ astray' = astray \cup {vm.vmid}
  BY DEF Click
<1> DEFINE a == Action("delete", "web UI", vm.name, vm.vmid, <<"find">>, NoArg)
<1>2. vm.name \in Name /\ vm.vmid \in VMID
  BY GuestsAssumption DEF IInv, TypeOK, VMManifest
<1>3. PlannedOK(a)
  <2>1. "find" \in Fitting("delete", NoArg)
    BY DEF Fitting
  <2> QED
    BY <1>2, <2>1, GoodCall
<1>4. ActionOK(a) /\ a.todo # <<>> /\ KeyOf(a) = <<"web UI", vm.name>> /\ a.vmid \in VMID
  BY <1>2, <1>3 DEF PlannedOK, Action, KeyOf
<1> HIDE DEF a
<1>5. \A k \in DOMAIN jobs' : \/ k \in DOMAIN jobs /\ jobs'[k] = jobs[k]
                              \/ k = <<"web UI", vm.name>> /\ jobs'[k] = a
  BY <1>1 DEF Enter, a
<1>6. \A k \in DOMAIN jobs' : ActionOK(jobs'[k]) /\ jobs'[k].todo # <<>> /\ k = KeyOf(jobs'[k])
  BY <1>4, <1>5 DEF IInv, JobOK
<1>7. \A k \in DOMAIN jobs' : k \in Keys /\ jobs'[k].vmid \in VMID
  BY <1>6, Parts
<1>8. spent' \in [upset : Nat, commit : Nat, bypass : Nat] /\ astray' \subseteq VMID
  BY <1>1, <1>2, Spending DEF Click, IInv, TypeOK
<1>9. UNCHANGED <<guest, repo, stage, want, plan>>
  BY DEF Click, passVars
<1>10. TypeOK'
  BY <1>6, <1>7, <1>8, <1>9 DEF IInv, TypeOK
<1>11. \A k \in DOMAIN jobs' : JobOK(k)'
  BY <1>6 DEF JobOK, ActionOK, FinishFollows, Fitting, Conf, Written, KeyOf
<1> QED
  BY <1>9, <1>10, <1>11 DEF IInv, PlannedOK, ActionOK, FinishFollows, Fitting, Conf, Written

LEMMA CommitIInv == IInv /\ Commit => IInv'
<1> SUFFICES ASSUME IInv, Commit
             PROVE  IInv'
  OBVIOUS
<1>1. /\ repo' \in Commits /\ UNCHANGED <<guest, stage, want, plan, jobs>>
      /\ astray' = astray \cup Disagreeing'
  BY DEF Commit, passVars
<1>2. spent' \in [upset : Nat, commit : Nat, bypass : Nat] /\ astray' \subseteq VMID
  BY <1>1, Spending, AstrayIsOfVMIDs DEF Commit, IInv
<1>3. want' \in Commits /\ guest' \in [VMID -> Guest \cup {Absent}]
  BY <1>1 DEF IInv, TypeOK
<1> QED
  BY <1>1, <1>2, <1>3, JobsIInv

LEMMA TamperIInv == IInv /\ Tamper => IInv'
<1> SUFFICES ASSUME IInv, Tamper
             PROVE  IInv'
  OBVIOUS
<1>1. PICK v \in VMID :
        /\ IsVM(guest, v)
        /\ \/ guest' = [guest EXCEPT ![v].running = FALSE]
           \/ \E f \in Field : \E x \in Values : guest' = [guest EXCEPT ![v].conf[f] = x]
  BY DEF Tamper
<1>2. guest \in [VMID -> Guest \cup {Absent}] /\ guest[v] \in Guest
  BY <1>1 DEF IInv, TypeOK, IsVM, Present
<1>3. PICK o \in Guest : guest' = [guest EXCEPT ![v] = o]
  <2>1. CASE guest' = [guest EXCEPT ![v].running = FALSE]
    <3>1. [guest[v] EXCEPT !.running = FALSE] \in Guest
      BY <1>2 DEF Guest
    <3> QED
      BY <2>1, <3>1
  <2>2. CASE \E f \in Field : \E x \in Values : guest' = [guest EXCEPT ![v].conf[f] = x]
    <3>1. PICK f \in Field, x \in Values : guest' = [guest EXCEPT ![v].conf[f] = x]
      BY <2>2
    <3>2. [guest[v] EXCEPT !.conf[f] = x] \in Guest
      BY <1>2 DEF Guest
    <3> QED
      BY <3>1, <3>2
  <2> QED
    BY <1>1, <2>1, <2>2
<1>4. guest' \in [VMID -> Guest \cup {Absent}]
  BY <1>2, <1>3
<1>5. UNCHANGED <<repo, stage, want, plan, jobs, astray>>
  BY DEF Tamper, passVars
<1>6. spent' \in [upset : Nat, commit : Nat, bypass : Nat]
  BY Spending DEF Tamper, IInv
<1>7. repo' \in Commits /\ want' \in Commits /\ astray' \subseteq VMID
  BY <1>5 DEF IInv, TypeOK
<1> QED
  BY <1>4, <1>5, <1>6, <1>7, JobsIInv

\* What somebody may put in the place of a guest is one, or none.
LEMMA OthersAreGuests ==
    ASSUME guest \in [VMID -> Guest \cup {Absent}], NEW v \in VMID, NEW o \in Others(v)
    PROVE  o \in Guest \cup {Absent}
<1>1. CASE o \in Strangers \/ o = Absent
  BY <1>1, GuestsAssumption
<1>2. CASE o \notin Strangers /\ o # Absent
  <2>1. guest[v] \in Guest
    BY <1>2 DEF Others, Present
  <2>2. \/ o = [guest[v] EXCEPT !.owned = ~@]
        \/ \E n \in Name : o = [guest[v] EXCEPT !.name = n]
    BY <1>2 DEF Others
  <2> QED
    BY <2>1, <2>2 DEF Guest
<1> QED
  BY <1>1, <1>2

LEMMA TakeOverIInv == IInv /\ TakeOver => IInv'
<1> SUFFICES ASSUME IInv, TakeOver
             PROVE  IInv'
  OBVIOUS
<1>1. PICK v \in VMID :
        /\ \E o \in Others(v) : guest' = [guest EXCEPT ![v] = o]
        /\ astray' = astray \cup Disagreeing' \cup {u \in {v} : Handled(u)}
  BY DEF TakeOver
<1>2. guest \in [VMID -> Guest \cup {Absent}]
  BY DEF IInv, TypeOK
<1>3. guest' \in [VMID -> Guest \cup {Absent}]
  BY <1>1, <1>2, OthersAreGuests
<1>4. UNCHANGED <<repo, stage, want, plan, jobs>>
  BY DEF TakeOver, passVars
<1>5. spent' \in [upset : Nat, commit : Nat, bypass : Nat]
  BY Spending DEF TakeOver, IInv
<1>6. repo' \in Commits /\ want' \in Commits /\ astray' \subseteq VMID
  BY <1>1, <1>4, AstrayIsOfVMIDs DEF IInv, TypeOK
<1> QED
  BY <1>3, <1>4, <1>5, <1>6, JobsIInv

LEMMA RestartIInv == IInv /\ Restart => IInv'
<1> SUFFICES ASSUME IInv, Restart
             PROVE  IInv'
  OBVIOUS
<1>1. stage' = "idle" /\ want' = repo /\ plan' = {} /\ jobs' = <<>> /\ UNCHANGED <<guest, repo>>
  BY DEF Restart
<1>2. spent' \in [upset : Nat, commit : Nat, bypass : Nat] /\ astray' \subseteq VMID
  BY Spending, AstrayIsOfVMIDs DEF Restart, IInv
<1>3. DOMAIN jobs' = {}
  BY <1>1
<1>4. repo' \in Commits /\ want' \in Commits /\ guest' \in [VMID -> Guest \cup {Absent}]
  BY <1>1 DEF IInv, TypeOK
<1> QED
  BY <1>1, <1>2, <1>3, <1>4, JobsIInv

LEMMA IInvKeeps == IInv /\ [Next]_vars => IInv'
<1>1. IInv /\ UNCHANGED vars => IInv'
  <2> SUFFICES ASSUME IInv, UNCHANGED vars
               PROVE  IInv'
    OBVIOUS
  <2>1. UNCHANGED <<guest, repo, stage, want, plan, jobs, astray, spent>>
    BY DEF vars, passVars
  <2>2. /\ repo' \in Commits /\ want' \in Commits /\ astray' \subseteq VMID
        /\ spent' \in [upset : Nat, commit : Nat, bypass : Nat]
        /\ guest' \in [VMID -> Guest \cup {Absent}]
    BY <2>1 DEF IInv, TypeOK
  <2> QED
    BY <2>1, <2>2, JobsIInv
<1> QED
  BY <1>1, ListTemplatesIInv, ListVMsIInv, SubmitIInv, CallIInv, RefusedIInv, FailedIInv,
     ClickIInv, CommitIInv, TamperIInv, TakeOverIInv, RestartIInv DEF Next, Pass

-----------------------------------------------------------------------------
(* What every action may do of its kind. *)

PlainCalls == {"new", "image", "init", "seed", "config", "start", "stop", "find", "fail"}

\* Only a template is converted, only what is to be deleted is destroyed, and
\* only a VM that is created is a clone, which is finished right after it is made.
Ordinary(a) ==
    \A i \in 1..Len(a.todo) :
        /\ a.todo[i] \in PlainCalls \cup {"clone", "finish", "convert", "destroy"}
        /\ a.todo[i] = "convert" => a.kind = "Template"
        /\ a.todo[i] = "destroy" => a.type = "delete"
        /\ a.todo[i] \in {"clone", "finish"} =>
              a.type = "create" /\ a.kind = "VirtualMachine"
        /\ a.todo[i] = "clone" => i = 1 /\ Len(a.todo) > 1 /\ a.todo[2] = "finish"

\* A creation begins with the call that makes the guest, or fails at once.
Begins(a) == a.type = "create" => a.todo # <<>> /\ a.todo[1] \in {"new", "clone", "fail"}

LEMMA PlainIsOrdinary ==
    ASSUME NEW a, a.todo \in Seq(PlainCalls) PROVE Ordinary(a)
  BY DEF Ordinary, PlainCalls

LEMMA PlainParts ==
    /\ <<>> \in Seq(PlainCalls) /\ RebootCalls \in Seq(PlainCalls)
    /\ \A x \in PlainCalls : <<x>> \in Seq(PlainCalls)
    /\ \A u \in Seq(PlainCalls) : \A condition : If(condition, u) \in Seq(PlainCalls)
<1>1. <<>> \in Seq(PlainCalls) /\ RebootCalls \in Seq(PlainCalls)
  BY DEF PlainCalls, RebootCalls
<1> QED
  BY <1>1, OneCall DEF If

LEMMA Joined ==
    ASSUME NEW S, NEW s \in Seq(S), NEW t \in Seq(S) PROVE s \o t \in Seq(S)
  OBVIOUS

\* An update of a VM that is there makes plain calls.
LEMMA UpdateIsPlain ==
    ASSUME NEW c, NEW vm, NEW o, NEW a \in UpdateOf(c, vm, o)
    PROVE  a.todo \in Seq(PlainCalls) /\ (a.todo # <<>> => a.todo[1] # "clone")
<1> DEFINE seeded == <<"seed">> \o If(o.running, RebootCalls)
<1>1. \A todo, arg : Update(vm, todo, arg).todo = todo
  BY DEF Update, Action
<1>2. Report(vm).todo = <<>>
  BY DEF Report, Update, Action
<1>3. seeded \in Seq(PlainCalls)
  BY PlainParts DEF PlainCalls
<1>4. <<"find">> \in Seq(PlainCalls) /\ <<"fail">> \in Seq(PlainCalls)
  BY PlainParts DEF PlainCalls
<1> HIDE DEF seeded
<1>5. \/ a.todo = <<"find">> \/ a.todo = <<"fail">> \/ a.todo = RebootCalls \/ a.todo = <<>>
      \/ a.todo = seeded
  BY <1>1, <1>2, UpdateCases DEF seeded
<1>6. a.todo \in Seq(PlainCalls)
  BY <1>3, <1>4, <1>5, PlainParts
<1>7. "clone" \notin PlainCalls
  BY DEF PlainCalls
<1> QED
  BY <1>6, <1>7

\* The creation of a VM, from an image or from a template.
LEMMA CreationIsOrdinary ==
    ASSUME NEW vm, NEW a, a.todo = CreateCalls(vm)
    PROVE  /\ a.type = "create" /\ a.kind = "VirtualMachine" => Ordinary(a) /\ Begins(a)
           /\ a.todo[1] = "clone" => vm.from # None
<1> DEFINE seeds == If(vm.data # None, <<"seed">>) \o If(vm.state = "running", <<"start">>)
<1>2. /\ If(vm.data # None, <<"seed">>) \in Seq(PlainCalls)
      /\ If(vm.state = "running", <<"start">>) \in Seq(PlainCalls)
      /\ If(vm.image, <<"image", "init">>) \in Seq(PlainCalls)
  <2>1. /\ <<"seed">> \in Seq(PlainCalls) /\ <<"start">> \in Seq(PlainCalls)
        /\ <<"image", "init">> \in Seq(PlainCalls)
    BY DEF PlainCalls
  <2> QED
    BY <2>1, PlainParts
<1>3. seeds \in Seq(PlainCalls) /\ If(vm.image, <<"image", "init">>) \o seeds \in Seq(PlainCalls)
  BY <1>2
<1> HIDE DEF seeds
<1>4. CASE vm.from = None
  <2>1. PICK u \in Seq(PlainCalls) : CreateCalls(vm) = <<"new">> \o u
    <3>1. CreateCalls(vm) = <<"new">> \o (If(vm.image, <<"image", "init">>) \o seeds)
      BY <1>2, <1>4 DEF CreateCalls, seeds
    <3> QED
      BY <1>3, <3>1
  <2>2. a.todo \in Seq(PlainCalls) /\ a.todo # <<>> /\ a.todo[1] = "new"
    BY <2>1 DEF PlainCalls
  <2> QED
    BY <2>2, PlainIsOrdinary DEF Begins
<1>5. CASE vm.from # None
  <2>1. PICK u \in Seq(PlainCalls) : CreateCalls(vm) = <<"clone", "finish">> \o u
    <3>1. CreateCalls(vm) = <<"clone", "finish">> \o seeds
      BY <1>2, <1>5 DEF CreateCalls, seeds
    <3> QED
      BY <1>3, <3>1
  <2>2. /\ Len(a.todo) = 2 + Len(u) /\ a.todo[1] = "clone" /\ a.todo[2] = "finish"
        /\ \A i \in 1..Len(a.todo) : i > 2 => a.todo[i] \in PlainCalls
    BY <2>1
  <2>3. \A i \in 1..Len(a.todo) : i = 1 \/ i = 2 \/ i > 2
    BY <2>1, <2>2
  <2>4. a.type = "create" /\ a.kind = "VirtualMachine" => Ordinary(a)
    BY <2>1, <2>2, <2>3 DEF Ordinary, PlainCalls
  <2>5. Begins(a)
    BY <2>1, <2>2 DEF Begins
  <2> QED
    BY <1>5, <2>4, <2>5
<1> QED
  BY <1>4, <1>5

\* Whatever is planned is ordinary.
LEMMA PlanOrdinary ==
    ASSUME NEW c, NEW g, NEW a \in FullPlan(c, g)
    PROVE  Ordinary(a) /\ Begins(a) /\ a.kind \in {"Template", "VirtualMachine"}
<1>1. ASSUME NEW t \in c.templates,
             \/ a = Action("create", "Template", t.name, t.vmid, BuildCalls, t)
             \/ a = Action("update", "Template", t.name, t.vmid, <<"convert">>, NoArg)
      PROVE  Ordinary(a) /\ Begins(a) /\ a.kind = "Template"
  <2>2. CASE a = Action("create", "Template", t.name, t.vmid, BuildCalls, t)
    <3>1. a.todo = <<"new", "image", "convert">> /\ a.kind = "Template"
      BY <2>2 DEF Action, BuildCalls
    <3>2. Ordinary(a) /\ Begins(a)
      BY <3>1 DEF Ordinary, Begins, PlainCalls
    <3> QED
      BY <3>1, <3>2
  <2>3. CASE a = Action("update", "Template", t.name, t.vmid, <<"convert">>, NoArg)
    <3>1. a.todo = <<"convert">> /\ a.kind = "Template" /\ a.type = "update"
      BY <2>3 DEF Action
    <3>2. Ordinary(a) /\ Begins(a)
      BY <3>1 DEF Ordinary, Begins, PlainCalls
    <3> QED
      BY <3>1, <3>2
  <2> QED
    BY <1>1, <2>2, <2>3
<1>2. ASSUME NEW v \in VMID, NEW kind \in {"Template", "VirtualMachine"},
             a = Action("delete", kind, g[v].name, v, <<"find">>, NoArg)
      PROVE  Ordinary(a) /\ Begins(a) /\ a.kind = kind
  <2>1. a.todo = <<"find">> /\ a.kind = kind /\ a.type = "delete"
    BY <1>2 DEF Action
  <2>2. a.todo \in Seq(PlainCalls)
    BY <2>1 DEF PlainCalls
  <2> QED
    BY <2>1, <2>2, PlainIsOrdinary DEF Begins
<1>3. ASSUME NEW vm \in c.vms,
             a = Action("create", "VirtualMachine", vm.name, vm.vmid,
                        IF Unresolved(c, vm) THEN <<"fail">> ELSE CreateCalls(vm), Resolved(c, vm))
      PROVE  Ordinary(a) /\ Begins(a) /\ a.kind = "VirtualMachine"
  <2>1. a.type = "create" /\ a.kind = "VirtualMachine"
    BY <1>3 DEF Action
  <2>2. CASE Unresolved(c, vm)
    <3>1. a.todo = <<"fail">>
      BY <1>3, <2>2 DEF Action
    <3>2. a.todo \in Seq(PlainCalls) /\ a.todo # <<>> /\ a.todo[1] = "fail"
      BY <3>1, PlainParts DEF PlainCalls
    <3> QED
      BY <2>1, <3>2, PlainIsOrdinary DEF Begins
  <2>3. CASE ~Unresolved(c, vm)
    <3>1. a.todo = CreateCalls(vm)
      BY <1>3, <2>3 DEF Action
    <3> QED
      BY <2>1, <3>1, CreationIsOrdinary
  <2> QED
    BY <2>2, <2>3
<1>4. ASSUME NEW vm \in c.vms, a \in UpdateOf(c, vm, g[vm.vmid])
      PROVE  Ordinary(a) /\ Begins(a) /\ a.kind = "VirtualMachine"
  <2>1. a.type = "update" /\ a.kind = "VirtualMachine"
    BY <1>4, UpdateIsOfVM
  <2>2. a.todo \in Seq(PlainCalls)
    BY <1>4, UpdateIsPlain
  <2> QED
    BY <2>1, <2>2, PlainIsOrdinary DEF Begins
<1> QED
  BY <1>1, <1>2, <1>3, <1>4, PlanCases

\* A clone is planned only of a template that is declared and listed as one.
LEMMA PlanClones ==
    ASSUME NEW c \in Commits, NEW g, NEW a \in FullPlan(c, g), a.todo[1] = "clone", a.todo # <<>>
    PROVE  a.arg.from \in Declared(c.templates) /\ IsTemplate(g, a.arg.from)
<1>1. PICK vm \in c.vms :
        /\ ~Deferred(c, g, vm)
        /\ a = Action("create", "VirtualMachine", vm.name, vm.vmid,
                      IF Unresolved(c, vm) THEN <<"fail">> ELSE CreateCalls(vm), Resolved(c, vm))
  <2>1. ASSUME NEW vm, NEW o, a \in UpdateOf(c, vm, o) PROVE FALSE
    BY <2>1, UpdateIsPlain
  <2>2. BuildCalls[1] # "clone" /\ <<"convert">>[1] # "clone" /\ <<"find">>[1] # "clone"
    BY DEF BuildCalls
  <2> QED
    BY <2>1, <2>2, PlanCases DEF Action
<1>2. vm \in VMManifest
  BY GuestsAssumption
<1>3. ~Unresolved(c, vm) /\ vm.from # None
  <2>1. ~Unresolved(c, vm) /\ a.todo = CreateCalls(vm)
    BY <1>1 DEF Action
  <2> QED
    BY <2>1, CreationIsOrdinary
<1>4. PICK t \in c.templates : t.name = vm.from /\ a.arg.from = t.vmid
  <2> DEFINE t == CHOOSE t \in c.templates : t.name = vm.from
  <2>1. t \in c.templates /\ t.name = vm.from
    BY <1>3 DEF Unresolved
  <2>2. a.arg.from = t.vmid
    BY <1>1, <1>2, <1>3 DEF Action, Resolved, VMManifest
  <2> QED
    BY <2>1, <2>2
<1>5. IsTemplate(g, t.vmid)
  BY <1>1, <1>4 DEF Deferred
<1> QED
  BY <1>4, <1>5 DEF Declared

\* What is left of a job to do is as ordinary as what it began with; it never
\* clones, and finishes what it has just cloned.
LEMMA RestOrdinary ==
    ASSUME NEW j, ActionOK(j), j.todo # <<>>, Ordinary(j),
           NEW rest, rest = Rest(Head(j.todo), j), rest # <<>>
    PROVE  /\ Ordinary([j EXCEPT !.todo = rest])
           /\ rest \in Seq(Fitting(j.type, j.arg)) /\ rest[1] # "clone"
           /\ j.todo[1] = "clone" => rest[1] = "finish"
<1> DEFINE F == Fitting(j.type, j.arg)
           i == [j EXCEPT !.todo = rest]
<1>1. /\ i.type = j.type /\ i.kind = j.kind /\ i.vmid = j.vmid /\ i.todo = rest
  BY Parts
<1>2. j.todo \in Seq(F)
  BY DEF ActionOK
<1> HIDE DEF F, i
<1>3. Head(j.todo) = j.todo[1] /\ j.todo[1] \in F /\ 1 \in 1..Len(j.todo)
  BY <1>2
<1>4. CASE j.todo[1] = "find"
  <2>1. rest = Found(j) /\ rest \in Seq(F)
    BY <1>3, <1>4, FoundFits DEF Rest, F
  <2>2. rest \in Seq(PlainCalls \cup {"destroy"}) /\ (j.type # "delete" => rest \in Seq(PlainCalls))
    <3>1. /\ <<"config">> \in Seq(PlainCalls) /\ <<"destroy">> \in Seq(PlainCalls \cup {"destroy"})
          /\ <<"stop">> \in Seq(PlainCalls) /\ <<"start">> \in Seq(PlainCalls)
      BY PlainParts, OneCall DEF PlainCalls
    <3>2. CASE j.type = "delete"
      <4>1. rest = If(guest[j.vmid].running, <<"stop">>) \o <<"destroy">>
        BY <2>1, <3>2 DEF Found
      <4>2. If(guest[j.vmid].running, <<"stop">>) \in Seq(PlainCalls)
        BY <3>1, PlainParts
      <4> QED
        BY <3>1, <3>2, <4>1, <4>2
    <3>3. CASE j.type # "delete"
      <4> DEFINE stops == If(guest[j.vmid].running /\ ~j.arg.running, <<"stop">>)
                 starts == If(~guest[j.vmid].running /\ j.arg.running, <<"start">>)
      <4>1. rest = <<"config">> \o stops \o starts
        BY <2>1, <3>3 DEF Found
      <4>2. stops \in Seq(PlainCalls) /\ starts \in Seq(PlainCalls)
        BY <3>1, PlainParts
      <4> HIDE DEF stops, starts
      <4>3. (<<"config">> \o stops) \o starts \in Seq(PlainCalls)
        BY <3>1, <4>2, Joined
      <4>4. rest \in Seq(PlainCalls)
        BY <4>1, <4>3
      <4>5. PlainCalls \subseteq PlainCalls \cup {"destroy"}
        OBVIOUS
      <4> QED
        BY <4>4, <4>5
    <3> QED
      BY <3>2, <3>3
  <2>3. \A x \in 1..Len(rest) : /\ rest[x] \in PlainCalls \cup {"destroy"}
                                /\ rest[x] = "destroy" => j.type = "delete"
    BY <2>2 DEF PlainCalls
  <2>4. Ordinary(i)
    BY <1>1, <2>3 DEF Ordinary, PlainCalls
  <2>5. rest[1] # "clone"
    BY <2>2 DEF PlainCalls
  <2> QED
    BY <1>4, <2>1, <2>4, <2>5 DEF i, F
<1>5. CASE j.todo[1] # "find"
  <2>1. rest = Tail(j.todo)
    BY <1>3, <1>5 DEF Rest
  <2>2. /\ rest \in Seq(F) /\ Len(rest) = Len(j.todo) - 1
        /\ \A x \in 1..Len(rest) : rest[x] = j.todo[x + 1] /\ x + 1 \in 1..Len(j.todo)
    BY <1>2, <2>1
  <2>3. 1 \in 1..Len(rest) /\ rest[1] = j.todo[2]
    BY <2>2
  <2>4. \A x \in 1..Len(rest) : x + 1 # 1
    BY <2>2
  <2>5. \A x \in 1..Len(rest) : rest[x] # "clone"
    BY <2>2, <2>4 DEF Ordinary
  <2>6. Ordinary(i)
    BY <1>1, <2>2, <2>5 DEF Ordinary
  <2>7. j.todo[1] = "clone" => rest[1] = "finish"
    BY <1>3, <2>3 DEF Ordinary
  <2> QED
    BY <2>2, <2>3, <2>5, <2>6, <2>7 DEF i, F
<1> QED
  BY <1>4, <1>5

\* What a listing shows of a tag, or of a template, is so.
LEMMA ListedFlags ==
    ASSUME TypeOK, NEW g \in Listings, NEW v \in VMID
    PROVE  /\ Owned(g, v) => Owned(guest, v)
           /\ IsTemplate(g, v) => IsTemplate(guest, v)
<1>1. guest \in [VMID -> Guest \cup {Absent}]
  BY DEF TypeOK
<1>2. CASE g = guest
  BY <1>2
<1>3. CASE g \in Unread
  <2>1. PICK x \in VMID : Present(guest, x) /\ g = [guest EXCEPT ![x] = ConfigUnread(@)]
    BY <1>3 DEF Unread
  <2>2. guest[x] \in Guest
    BY <1>1, <2>1 DEF Present
  <2>3. /\ ConfigUnread(guest[x]).owned = guest[x].owned
        /\ ConfigUnread(guest[x]).template = guest[x].template
    BY <2>2 DEF ConfigUnread, Guest
  <2> QED
    BY <1>1, <2>1, <2>3 DEF Owned, IsTemplate, Present
<1>4. CASE g \in Unnamed
  <2>1. PICK k \in DOMAIN jobs :
          Present(guest, jobs[k].vmid) /\ g = [guest EXCEPT ![jobs[k].vmid].name = NoName]
    BY <1>4 DEF Unnamed
  <2> DEFINE x == jobs[k].vmid
  <2>2. x \in VMID
    BY DEF TypeOK
  <2> HIDE DEF x
  <2>3. guest[x] \in Guest /\ Present(guest, x) /\ g = [guest EXCEPT ![x].name = NoName]
    BY <1>1, <2>1, <2>2 DEF Present, x
  <2>4. /\ [guest[x] EXCEPT !.name = NoName].owned = guest[x].owned
        /\ [guest[x] EXCEPT !.name = NoName].template = guest[x].template
    BY <2>3 DEF Guest
  <2> QED
    BY <1>1, <2>2, <2>3, <2>4 DEF Owned, IsTemplate, Present
<1> QED
  BY <1>2, <1>3, <1>4 DEF Listings

\* What a call makes of the tag and of a template.
LEMMA FlagsAfter ==
    ASSUME guest \in [VMID -> Guest \cup {Absent}],
           NEW j, ActionOK(j), NEW call \in Fitting(j.type, j.arg), May(call, j),
           NEW o \in After(call, j)
    PROVE  /\ call \in {"new", "finish"} => o.owned
           /\ call \in {"new", "clone"} => ~o.template
           /\ call \notin {"new", "clone", "destroy", "convert"} =>
                o.template = guest[j.vmid].template
           /\ call = "convert" => o.template
<1> DEFINE old == guest[j.vmid]
<1>1. j.vmid \in VMID
  BY DEF ActionOK
<1>2. call \notin {"new", "clone"} => Present(guest, j.vmid) /\ old \in Guest
  BY <1>1, MayNeeds DEF Present, May, Fitting
<1>3. CASE call = "new" /\ o = Fresh(j, Len(j.todo) > 1 /\ j.todo[2] = "image")
  BY <1>3 DEF Fresh
<1>4. CASE call = "clone" /\ o \in Copies(j)
  <2>1. guest[j.arg.from] \in Guest
    BY <1>4, MayNeeds DEF Present, Fitting
  <2> QED
    BY <1>4, <2>1 DEF Copies, Guest
<1>5. CASE call = "finish" /\ o = WithSettings(old, j)
  <2>1. Reconfigured(old, j.arg.conf) \in Guest
    BY <1>2, <1>5, ReconfiguredIsGuest DEF Fitting, Conf, Written
  <2>2. Reconfigured(old, j.arg.conf).template = old.template
    BY <1>2, <1>5 DEF Reconfigured, Guest
  <2> QED
    BY <1>5, <2>1, <2>2 DEF WithSettings, Guest
<1>6. CASE call = "config" /\ o = Reconfigured(old, j.arg.conf)
  BY <1>2, <1>6 DEF Reconfigured, Guest
<1>9. CASE call = "init" /\ o = Initialised(old, j)
  BY <1>2, <1>9 DEF Initialised, Reconfigured, Guest
<1>7. CASE \/ call = "stop" /\ o = Stop(old)
           \/ call = "start" /\ o = Start(old)
           \/ call = "convert" /\ o = Converted(old)
           \/ call = "image" /\ o = Imported(old)
           \/ call = "seed" /\ o = WithSeed(old, j)
  BY <1>2, <1>7 DEF Stop, Start, Converted, Imported, WithSeed, Guest
<1>8. CASE call = "destroy" \/ (call \in {"find", "fail"} /\ o = old)
  BY <1>8
<1> QED
  BY <1>3, <1>4, <1>5, <1>6, <1>7, <1>8, <1>9, AfterCases

\* The same of the cluster, for a call of job k that has succeeded.
LEMMA CallFlags ==
    ASSUME IInv, NEW k \in DOMAIN jobs, May(Head(jobs[k].todo), jobs[k]),
           NEW o \in After(Head(jobs[k].todo), jobs[k]),
           guest' = [guest EXCEPT ![jobs[k].vmid] = o]
    PROVE  LET call == jobs[k].todo[1]
               v == jobs[k].vmid
           IN  /\ \A x \in VMID \ {v} : guest'[x] = guest[x]
               /\ v \in VMID
               /\ Present(guest, v) <=> call \notin {"new", "clone"}
               /\ Present(guest', v) <=> call # "destroy"
               /\ call # "fail"
               /\ call \in {"new", "finish"} => Owned(guest', v)
               /\ call \notin {"new", "clone", "finish", "destroy"} =>
                    (Owned(guest', v) <=> Owned(guest, v))
               /\ call \in {"new", "clone"} =>
                    ~IsTemplate(guest', v) /\ guest'[v].name = jobs[k].name
               /\ call \notin {"new", "clone", "destroy"} => guest'[v].name = guest[v].name
               /\ call \notin {"destroy", "convert"} /\ IsTemplate(guest', v) => IsTemplate(guest, v)
               /\ call # "destroy" /\ IsTemplate(guest, v) => IsTemplate(guest', v)
<1> DEFINE j == jobs[k]
           call == jobs[k].todo[1]
           v == jobs[k].vmid
<1>1. /\ guest \in [VMID -> Guest \cup {Absent}] /\ j.vmid \in VMID
      /\ ActionOK(j) /\ j.todo # <<>> /\ j.todo \in Seq(Fitting(j.type, j.arg))
  BY Parts DEF IInv, TypeOK, JobOK
<1>2. call \in Fitting(j.type, j.arg) /\ Head(j.todo) = call
  BY <1>1
<1>3. May(call, j) /\ o \in After(call, j)
  BY <1>2
<1> HIDE DEF j, call, v
<1>4. /\ o \in Guest \/ (o = Absent /\ call = "destroy")
      /\ o # Absent /\ call \notin {"new", "clone", "finish"} => o.owned = guest[v].owned
      /\ o # Absent /\ call \in {"new", "clone"} => o.name = j.name
      /\ o # Absent /\ call \notin {"new", "clone"} => o.name = guest[v].name
  BY <1>1, <1>2, <1>3, AfterCall DEF j, call, v
<1>5. /\ call \in {"new", "finish"} => o.owned
      /\ call \in {"new", "clone"} => ~o.template
      /\ call \notin {"new", "clone", "destroy", "convert"} => o.template = guest[v].template
      /\ call = "convert" => o.template
  BY <1>1, <1>2, <1>3, FlagsAfter DEF j, call, v
<1>6. /\ Present(guest, v) <=> call \notin {"new", "clone"}
      /\ call # "fail"
  BY <1>2, <1>3, MayNeeds DEF j, call, v
<1>7. call = "destroy" => o = Absent
  BY <1>2, <1>3, AfterCases DEF j, call, v
<1>8. guest'[v] = o /\ \A x \in VMID \ {v} : guest'[x] = guest[x]
  BY <1>1 DEF j, call, v
<1>9. Present(guest', v) <=> call # "destroy"
  BY <1>4, <1>7, <1>8, GuestsAssumption DEF Present
<1>10. Owned(guest, v) = (Present(guest, v) /\ guest[v].owned) /\ Owned(guest', v) = (Present(guest', v) /\ o.owned)
  BY <1>8 DEF Owned
<1>11. /\ IsTemplate(guest, v) = (Present(guest, v) /\ guest[v].template)
       /\ IsTemplate(guest', v) = (Present(guest', v) /\ o.template)
  BY <1>8 DEF IsTemplate
<1>12. o # Absent \/ call = "destroy"
  BY <1>8, <1>9 DEF Present
<1>13. /\ call \in {"new", "finish"} => Owned(guest', v)
       /\ call \notin {"new", "clone", "finish", "destroy"} => (Owned(guest', v) <=> Owned(guest, v))
  BY <1>4, <1>5, <1>6, <1>9, <1>10, <1>12
<1>14. /\ call \in {"new", "clone"} => ~IsTemplate(guest', v)
       /\ call \notin {"destroy", "convert"} /\ IsTemplate(guest', v) => IsTemplate(guest, v)
       /\ call # "destroy" /\ IsTemplate(guest, v) => IsTemplate(guest', v)
  BY <1>5, <1>6, <1>9, <1>11, <1>12
<1>15. /\ call \in {"new", "clone"} => guest'[v].name = j.name
       /\ call \notin {"new", "clone", "destroy"} => guest'[v].name = guest[v].name
  BY <1>4, <1>8, <1>12
<1> QED
  BY <1>1, <1>6, <1>8, <1>9, <1>13, <1>14, <1>15 DEF j, call, v

-----------------------------------------------------------------------------
(* Everything planned or under way is ordinary. *)

HandOK(at, p, js) ==
    /\ \A a \in p : Ordinary(a) /\ Begins(a) /\ a.kind # "web UI"
    /\ \A k \in DOMAIN js : Ordinary(js[k])
    /\ at = "listed" => \A a \in p : a.kind = "Template"

HandInv == HandOK(stage, plan, jobs)

LEMMA HandNext == HandInv' <=> HandOK(stage', plan', jobs')
  BY DEF HandInv, HandOK, Ordinary, Begins, PlainCalls

\* Each reconciler plans for resources of its kind.
LEMMA PlanKinds ==
    ASSUME NEW c, NEW g
    PROVE  /\ \A a \in TemplatePlan(c, g) : a.kind = "Template" /\ a \in FullPlan(c, g)
           /\ \A a \in GuestPlan(c, g) : a \in FullPlan(c, g)
  BY DEF TemplatePlan, BuildTemplates, ConvertBuilt, DeleteTemplates, FullPlan, Action

\* What happens to the jobs in a step that is not one of the two that add one.
JobsGoOn ==
    \A k \in DOMAIN jobs' :
        /\ k \in DOMAIN jobs
        /\ \/ jobs'[k] = jobs[k]
           \/ LET rest == Rest(Head(jobs[k].todo), jobs[k])
              IN  rest # <<>> /\ jobs'[k] = [jobs[k] EXCEPT !.todo = rest]

LEMMA CallGoesOn ==
    ASSUME NEW k \in Keys, Call(k)
    PROVE  /\ JobsGoOn
           /\ \A x \in DOMAIN jobs' : jobs'[x] # jobs[x] => x = k
           /\ k \in DOMAIN jobs' =>
                LET rest == Rest(Head(jobs[k].todo), jobs[k])
                IN  rest # <<>> /\ jobs'[k] = [jobs[k] EXCEPT !.todo = rest]
<1> DEFINE rest == Rest(Head(jobs[k].todo), jobs[k])
<1>1. k \in DOMAIN jobs /\ jobs' = IF rest = <<>> THEN Drop(k) ELSE [jobs EXCEPT ![k].todo = rest]
  BY DEF Call
<1> HIDE DEF rest
<1>2. CASE rest = <<>>
  BY <1>1, <1>2 DEF Drop, JobsGoOn, rest
<1>3. CASE rest # <<>>
  <2>1. /\ DOMAIN jobs' = DOMAIN jobs
        /\ jobs'[k] = [jobs[k] EXCEPT !.todo = rest]
        /\ \A x \in DOMAIN jobs : x # k => jobs'[x] = jobs[x]
    BY <1>1, <1>3
  <2> QED
    BY <1>3, <2>1 DEF JobsGoOn, rest
<1> QED
  BY <1>2, <1>3

LEMMA DropGoesOn ==
    ASSUME NEW k, jobs' = Drop(k)
    PROVE  JobsGoOn /\ \A x \in DOMAIN jobs' : x # k /\ jobs'[x] = jobs[x]
  BY DEF Drop, JobsGoOn

LEMMA HandGoesOn ==
    ASSUME IInv, HandInv, JobsGoOn, plan' \subseteq plan, stage' = "listed" => stage = "listed"
    PROVE  HandInv'
<1>1. ASSUME NEW k \in DOMAIN jobs' PROVE Ordinary(jobs'[k])
  <2>1. k \in DOMAIN jobs /\ ActionOK(jobs[k]) /\ jobs[k].todo # <<>> /\ Ordinary(jobs[k])
    BY <1>1 DEF JobsGoOn, IInv, JobOK, HandInv, HandOK
  <2>2. \/ jobs'[k] = jobs[k]
        \/ LET rest == Rest(Head(jobs[k].todo), jobs[k])
           IN  rest # <<>> /\ jobs'[k] = [jobs[k] EXCEPT !.todo = rest]
    BY <1>1 DEF JobsGoOn
  <2> QED
    BY <2>1, <2>2, RestOrdinary
<1>2. HandOK(stage', plan', jobs')
  BY <1>1 DEF HandInv, HandOK
<1> QED
  BY <1>2, HandNext

\* No step makes anything else of it.
LEMMA HandKeeps ==
    ASSUME IInv, HandInv, [Next]_vars
    PROVE  HandInv'
<1>1. CASE ListTemplates
  <2>1. PICK g \in Listings : plan' = TemplatePlan(repo, g)
    BY <1>1 DEF ListTemplates
  <2>2. jobs' = jobs /\ repo \in Commits
    BY <1>1 DEF ListTemplates, IInv, TypeOK
  <2>3. \A a \in plan' : a.kind = "Template" /\ Ordinary(a) /\ Begins(a)
    BY <2>1, <2>2, PlanKinds, PlanOrdinary
  <2>4. HandOK(stage', plan', jobs')
    BY <2>2, <2>3 DEF HandInv, HandOK
  <2> QED
    BY <2>4, HandNext
<1>2. CASE ListVMs
  <2>1. PICK g \in Listings : plan' = plan \cup GuestPlan(want, g)
    BY <1>2 DEF ListVMs
  <2>2. jobs' = jobs /\ want \in Commits /\ stage' # "listed"
    BY <1>2 DEF ListVMs, IInv, TypeOK
  <2>3. \A a \in plan' : Ordinary(a) /\ Begins(a) /\ a.kind # "web UI"
    BY <2>1, <2>2, PlanKinds, PlanOrdinary DEF HandInv, HandOK
  <2>4. HandOK(stage', plan', jobs')
    BY <2>2, <2>3 DEF HandInv, HandOK
  <2> QED
    BY <2>4, HandNext
<1>3. CASE Submit
  <2>1. PICK a \in plan : /\ jobs' = IF Taken(a) THEN Enter(KeyOf(a), a) ELSE jobs
                          /\ plan' = plan \ {a}
    BY <1>3 DEF Submit
  <2>2. \A k \in DOMAIN jobs' : (k \in DOMAIN jobs /\ jobs'[k] = jobs[k]) \/ jobs'[k] = a
    BY <2>1 DEF Enter
  <2>3. stage' # "listed"
    BY <1>3 DEF Submit
  <2>4. HandOK(stage', plan', jobs')
    BY <2>1, <2>2, <2>3 DEF HandInv, HandOK
  <2> QED
    BY <2>4, HandNext
<1>4. CASE Click
  <2>1. PICK vm \in repo.vms :
          jobs' = Enter(<<"web UI", vm.name>>,
                        Action("delete", "web UI", vm.name, vm.vmid, <<"find">>, NoArg))
    BY <1>4 DEF Click
  <2> DEFINE a == Action("delete", "web UI", vm.name, vm.vmid, <<"find">>, NoArg)
  <2>2. a.todo = <<"find">> /\ <<"find">> \in Seq(PlainCalls)
    BY PlainParts DEF Action, PlainCalls
  <2>3. Ordinary(a)
    BY <2>2, PlainIsOrdinary
  <2> HIDE DEF a
  <2>4. \A k \in DOMAIN jobs' : (k \in DOMAIN jobs /\ jobs'[k] = jobs[k]) \/ jobs'[k] = a
    BY <2>1 DEF Enter, a
  <2>5. UNCHANGED <<stage, plan>>
    BY <1>4 DEF Click, passVars
  <2>6. HandOK(stage', plan', jobs')
    BY <2>3, <2>4, <2>5 DEF HandInv, HandOK
  <2> QED
    BY <2>6, HandNext
<1>5. ASSUME NEW k \in Keys, Call(k) \/ Refused(k) \/ Failed(k) PROVE HandInv'
  <2>1. JobsGoOn
    BY <1>5, CallGoesOn, DropGoesOn DEF Refused, Failed
  <2>2. UNCHANGED <<stage, plan>>
    BY <1>5 DEF Call, Refused, Failed, passVars
  <2> QED
    BY <2>1, <2>2, HandGoesOn
<1>6. CASE Commit \/ Tamper \/ TakeOver \/ UNCHANGED vars
  <2>1. UNCHANGED <<stage, plan, jobs>>
    BY <1>6 DEF Commit, Tamper, TakeOver, vars, passVars
  <2> QED
    BY <2>1, HandGoesOn DEF JobsGoOn
<1>7. CASE Restart
  <2>1. stage' = "idle" /\ plan' = {} /\ jobs' = <<>>
    BY <1>7 DEF Restart
  <2> QED
    BY <2>1, HandGoesOn DEF JobsGoOn
<1> QED
  BY <1>1, <1>2, <1>3, <1>4, <1>5, <1>6, <1>7 DEF Next, Pass

-----------------------------------------------------------------------------
(* A VMID that is not astray goes by one name and one kind, and what is    *)
(* planned or done there stays away from guests of others.                 *)

Ours(g, v) == Present(g, v) => Owned(g, v)

\* A job that has made its guest, or did not come to make it, has a tagged one
\* before it or none; a clone has its name, is tagged when it is finished, and is no
\* template.
JobOurs(g, j) ==
    /\ j.kind # "web UI"
    /\ j.todo[1] \notin {"new", "clone", "finish", "fail"} => Ours(g, j.vmid)
    /\ j.todo[1] = "finish" /\ Present(g, j.vmid) =>
          ~IsTemplate(g, j.vmid) /\ g[j.vmid].name = j.name

\* What is to be changed is tagged or gone, and will not be taken by a clone
\* that is not tagged yet: none is planned, and one under way will be refused.
PlanOurs(g, p, js, a) ==
    a.type # "create" =>
         /\ Ours(g, a.vmid)
         /\ \A b \in p : b.vmid = a.vmid /\ b.todo # <<>> => b.todo[1] # "clone"
         /\ \A k \in DOMAIN js :
              js[k].vmid = a.vmid /\ js[k].todo[1] = "clone" => Owned(g, a.vmid)

OursAt(g, p, js, v) ==
    /\ \A k \in DOMAIN js : js[k].vmid = v => JobOurs(g, js[k])
    /\ \A a \in p : a.vmid = v => PlanOurs(g, p, js, a)

WellInv == \A v \in VMID \ astray : Agree(v) /\ OursAt(guest, plan, jobs, v)

LEMMA WellNext ==
    WellInv' <=> \A v \in VMID \ astray' : Agree(v)' /\ OursAt(guest', plan', jobs', v)
  BY DEF WellInv, OursAt, JobOurs, PlanOurs, Ours, IsTemplate, Owned, Present

\* What is pending at v is one of the things that v goes by.
LEMMA PendingAt ==
    ASSUME NEW a \in Pending
    PROVE  /\ a.name \in NamesAt(a.vmid)
           /\ a.kind = "Template" => TemplateAt(a.vmid)
           /\ a.kind = "VirtualMachine" /\ a.type = "create" => VMAt(a.vmid)
  BY DEF NamesAt, TemplateAt, VMAt

\* So is a tagged guest, and what is declared.
LEMMA OwnedAt ==
    ASSUME NEW v, Owned(guest, v)
    PROVE  guest[v].name \in NamesAt(v) /\ (IsTemplate(guest, v) => TemplateAt(v))
  BY DEF NamesAt, TemplateAt

LEMMA DeclaredAt ==
    ASSUME NEW c \in {repo, want}, NEW v
    PROVE  /\ \A m \in c.vms \cup c.templates : m.vmid = v => m.name \in NamesAt(v)
           /\ v \in Declared(c.templates) => TemplateAt(v)
           /\ v \in Declared(c.vms) => VMAt(v)
  BY DEF NamesAt, ManifestsAt, TemplateAt, VMAt

\* A VMID goes on by one name and one kind when nothing there comes by another.
LEMMA AgreeKeeps ==
    ASSUME NEW v \in VMID, Agree(v), UNCHANGED repo, want' \in {repo, want},
           \A a \in Pending' : a.vmid = v =>
                /\ a.name \in NamesAt(v)
                /\ a.kind = "Template" => TemplateAt(v)
                /\ a.kind = "VirtualMachine" /\ a.type = "create" => VMAt(v),
           Owned(guest', v) =>
                /\ guest'[v].name \in NamesAt(v)
                /\ IsTemplate(guest', v) => TemplateAt(v)
    PROVE  Agree(v)'
<1>1. ManifestsAt(v)' \subseteq ManifestsAt(v)
  BY DEF ManifestsAt
<1>2. {m.name : m \in ManifestsAt(v)'} \subseteq NamesAt(v)
  BY <1>1 DEF NamesAt
<1>3. Owned(guest, v)' = Owned(guest', v) /\ IsTemplate(guest, v)' = IsTemplate(guest', v)
  BY DEF Owned, IsTemplate, Present
<1>4. NamesAt(v)' \subseteq NamesAt(v)
  BY <1>2, <1>3 DEF NamesAt
<1>5. TemplateAt(v)' => TemplateAt(v)
  <2>1. (v \in Declared(repo.templates) \cup Declared(want.templates))'
            => v \in Declared(repo.templates) \cup Declared(want.templates)
    BY DEF Declared
  <2> QED
    BY <1>3, <2>1 DEF TemplateAt
<1>6. VMAt(v)' => VMAt(v)
  <2>1. (v \in Declared(repo.vms) \cup Declared(want.vms))'
            => v \in Declared(repo.vms) \cup Declared(want.vms)
    BY DEF Declared
  <2> QED
    BY <2>1 DEF VMAt
<1>7. \A x, y \in NamesAt(v)' : x = y
  BY <1>4 DEF Agree
<1> QED
  BY <1>5, <1>6, <1>7 DEF Agree

\* What is noted as disagreeing is all that does.
LEMMA NotedAgree ==
    ASSUME NEW v \in VMID, v \notin Disagreeing'
    PROVE  Agree(v)'
  BY DEF Disagreeing

\* A clone is of a VM.
LEMMA ClonesAreOfVMs ==
    ASSUME NEW a, a.todo \in Seq(Fitting(a.type, a.arg)), a.todo # <<>>, Ordinary(a)
    PROVE  /\ a.todo[1] = "convert" => a.kind = "Template"
           /\ a.todo[1] = "destroy" => a.type = "delete"
           /\ a.todo[1] \in {"clone", "finish"} => a.type = "create" /\ a.kind = "VirtualMachine"
  BY DEF Ordinary

-----------------------------------------------------------------------------
(* The listings. *)

LEMMA AgreeListed ==
    ASSUME IInv, NEW v \in VMID, Agree(v),
           NEW c \in {repo, want}, UNCHANGED <<guest, repo, jobs>>, want' \in {repo, want},
           NEW g, \A x \in VMID : Owned(g, x) => Owned(guest, x) /\ g[x].name = guest[x].name,
           \A x \in VMID : IsTemplate(g, x) => IsTemplate(guest, x),
           \A a \in plan' : a \in plan \/ a \in FullPlan(c, g)
    PROVE  Agree(v)'
<1>1. ASSUME NEW a \in Pending', a.vmid = v
      PROVE  /\ a.name \in NamesAt(v)
             /\ a.kind = "Template" => TemplateAt(v)
             /\ a.kind = "VirtualMachine" /\ a.type = "create" => VMAt(v)
  <2>1. a \in Pending \/ a \in FullPlan(c, g)
    BY <1>1 DEF Pending
  <2>2. CASE a \in FullPlan(c, g)
    <3>1. /\ \/ \E m \in c.vms \cup c.templates : m.vmid = a.vmid /\ m.name = a.name
             \/ Owned(g, a.vmid) /\ a.name = g[a.vmid].name
          /\ a.kind = "Template" =>
               a.vmid \in Declared(c.templates) \/ (IsTemplate(g, a.vmid) /\ Owned(g, a.vmid))
          /\ a.kind = "VirtualMachine" /\ a.type = "create" => a.vmid \in Declared(c.vms)
      BY <2>2, PlanNames
    <3>2. Owned(g, v) => Owned(guest, v) /\ g[v].name = guest[v].name
      OBVIOUS
    <3>3. IsTemplate(g, v) => IsTemplate(guest, v)
      OBVIOUS
    <3>4. a.name \in NamesAt(v)
      BY <1>1, <3>1, <3>2, OwnedAt, DeclaredAt
    <3>5. a.kind = "Template" => TemplateAt(v)
      BY <1>1, <3>1, <3>2, <3>3, OwnedAt, DeclaredAt
    <3>6. a.kind = "VirtualMachine" /\ a.type = "create" => VMAt(v)
      BY <1>1, <3>1, DeclaredAt
    <3> QED
      BY <3>4, <3>5, <3>6
  <2> QED
    BY <1>1, <2>1, <2>2, PendingAt
<1>2. Owned(guest', v) => guest'[v].name \in NamesAt(v) /\ (IsTemplate(guest', v) => TemplateAt(v))
  BY OwnedAt
<1> QED
  BY <1>1, <1>2, AgreeKeeps

\* What is planned of guests as they are listed.
LEMMA OursListed ==
    ASSUME IInv, HandInv, NEW v \in VMID, OursAt(guest, plan, jobs, v), Agree(v)',
           UNCHANGED <<guest, jobs>>,
           NEW c \in Commits, NEW g \in Listings, g \in [VMID -> Seen \cup {Absent}],
           \A a \in plan' : a \in FullPlan(c, g) \/ (a \in plan /\ a.kind = "Template")
    PROVE  OursAt(guest', plan', jobs', v)
<1>1. \A a \in plan' : Ordinary(a) /\ ActionOK(a)
  BY PlanOrdinary, PlanGood DEF IInv, PlannedOK, HandInv, HandOK
<1>2. ASSUME NEW a \in plan', a.vmid = v
      PROVE  /\ a.kind = "Template" => TemplateAt(v)'
             /\ a.kind = "VirtualMachine" /\ a.type = "create" => VMAt(v)'
  BY <1>2 DEF TemplateAt, VMAt, Pending
<1>3. IsTemplate(guest, v) /\ Owned(guest, v) => TemplateAt(v)'
  BY DEF TemplateAt, IsTemplate, Owned, Present
<1>4. ~(TemplateAt(v)' /\ VMAt(v)')
  BY DEF Agree
<1>5. ASSUME NEW a \in plan', a \in FullPlan(c, g), a.vmid = v, a.type # "create"
      PROVE  Owned(g, v) /\ Owned(guest, v)
  BY <1>5, PlansTouchOwned, ListedFlags DEF IInv
<1>6. ASSUME NEW b \in plan', b.vmid = v, b.todo # <<>>, b.todo[1] = "clone",
             NEW a \in plan', a.vmid = v, a.type # "create"
      PROVE  FALSE
  <2>1. b.type = "create" /\ b.kind = "VirtualMachine"
    BY <1>1, <1>6, ClonesAreOfVMs DEF ActionOK
  <2>2. a.kind # "Template"
    BY <1>2, <1>4, <1>6, <2>1
  <2>3. b \in FullPlan(c, g) /\ a \in FullPlan(c, g)
    BY <2>1, <2>2
  <2>4. ~IsVM(g, v) /\ Owned(g, v) /\ Owned(guest, v)
    BY <1>5, <1>6, <2>1, <2>3, PlansCreateVacant
  <2>5. IsTemplate(g, v)
    BY <2>4 DEF Owned, IsVM, IsTemplate
  <2>6. IsTemplate(guest, v)
    BY <2>5, ListedFlags DEF IInv
  <2> QED
    BY <1>2, <1>3, <1>4, <1>6, <2>1, <2>4, <2>6
<1>7. ASSUME NEW a \in plan', a.vmid = v PROVE PlanOurs(guest, plan', jobs, a)
  <2>1. CASE a \in FullPlan(c, g)
    BY <1>5, <1>6, <1>7, <2>1 DEF PlanOurs, Ours
  <2>2. CASE a \in plan
    BY <1>6, <1>7, <2>2 DEF OursAt, PlanOurs
  <2> QED
    BY <1>7, <2>1, <2>2
<1> QED
  BY <1>7 DEF OursAt

LEMMA WellListed ==
    ASSUME IInv, HandInv, WellInv, NEW c \in {repo, want}, NEW g \in Listings, Listed(g),
           UNCHANGED <<guest, repo, jobs>>, want' \in {repo, want},
           \A a \in plan' : a \in FullPlan(c, g) \/ (a \in plan /\ a.kind = "Template")
    PROVE  WellInv'
<1> SUFFICES ASSUME NEW v \in VMID \ astray'
             PROVE  Agree(v)' /\ OursAt(guest', plan', jobs', v)
  BY WellNext
<1>1. /\ g \in [VMID -> Seen \cup {Absent}]
      /\ \/ /\ UNCHANGED astray
            /\ \A x \in VMID : Owned(g, x) => Owned(guest, x) /\ g[x].name = guest[x].name
         \/ astray' = astray \cup Disagreeing'
  BY ListedGood
<1>2. Agree(v) /\ OursAt(guest, plan, jobs, v)
  BY <1>1 DEF WellInv
<1>3. c \in Commits
  BY DEF IInv, TypeOK
<1>4. \A x \in VMID : IsTemplate(g, x) => IsTemplate(guest, x)
  BY ListedFlags DEF IInv
<1>5. Agree(v)'
  <2>1. CASE UNCHANGED astray /\ \A x \in VMID : Owned(g, x) =>
                                    Owned(guest, x) /\ g[x].name = guest[x].name
    BY <1>2, <1>4, <2>1, AgreeListed
  <2>2. CASE astray' = astray \cup Disagreeing'
    BY <2>2, NotedAgree
  <2> QED
    BY <1>1, <2>1, <2>2
<1> QED
  BY <1>1, <1>2, <1>3, <1>5, OursListed

-----------------------------------------------------------------------------
(* The submissions and the calls. *)

\* An action of the plan that is taken up.
LEMMA OursSubmitted ==
    ASSUME IInv, HandInv, NEW v, OursAt(guest, plan, jobs, v), NEW a \in plan, Taken(a)
    PROVE  OursAt(guest, plan \ {a}, Enter(KeyOf(a), a), v)
<1> DEFINE js == Enter(KeyOf(a), a)
<1>1. \A k \in DOMAIN js : (k \in DOMAIN jobs /\ js[k] = jobs[k]) \/ js[k] = a
  BY DEF Enter
<1> HIDE DEF js
<1>2. PlannedOK(a) /\ ActionOK(a) /\ a.todo # <<>> /\ a.todo[1] # "finish"
  BY DEF IInv, PlannedOK, ActionOK, Taken
<1>3. a.vmid = v => JobOurs(guest, a)
  <2>1. (a.vmid = v => PlanOurs(guest, plan, jobs, a)) /\ Begins(a) /\ a.kind # "web UI"
    BY DEF OursAt, HandInv, HandOK
  <2> QED
    BY <1>2, <2>1 DEF PlanOurs, JobOurs, Begins
<1>4. ASSUME NEW b \in plan, b.vmid = v PROVE PlanOurs(guest, plan \ {a}, js, b)
  <2>1. PlanOurs(guest, plan, jobs, b)
    BY <1>4 DEF OursAt
  <2>2. ASSUME b.type # "create", a.vmid = b.vmid PROVE a.todo[1] # "clone"
    BY <1>2, <2>1, <2>2 DEF PlanOurs
  <2> QED
    BY <1>1, <2>1, <2>2 DEF PlanOurs
<1> QED
  BY <1>1, <1>3, <1>4 DEF OursAt, js

\* A VMID where nothing becomes anybody else's.
LEMMA OursStay ==
    ASSUME NEW v, OursAt(guest, plan, jobs, v),
           /\ Present(guest', v) <=> Present(guest, v)
           /\ Owned(guest', v) <=> Owned(guest, v)
           /\ IsTemplate(guest', v) <=> IsTemplate(guest, v)
           /\ Present(guest', v) => guest'[v].name = guest[v].name,
           plan' \subseteq plan,
           \A k \in DOMAIN jobs' : jobs'[k].vmid = v => k \in DOMAIN jobs /\ jobs'[k] = jobs[k]
    PROVE  OursAt(guest', plan', jobs', v)
<1>1. Ours(guest', v) <=> Ours(guest, v)
  BY DEF Ours
<1>2. ASSUME NEW k \in DOMAIN jobs', jobs'[k].vmid = v PROVE JobOurs(guest', jobs'[k])
  BY <1>1, <1>2 DEF OursAt, JobOurs
<1>3. ASSUME NEW a \in plan', a.vmid = v PROVE PlanOurs(guest', plan', jobs', a)
  <2>1. PlanOurs(guest, plan, jobs, a)
    BY <1>3 DEF OursAt
  <2> QED
    BY <1>1, <1>3, <2>1 DEF PlanOurs
<1> QED
  BY <1>2, <1>3 DEF OursAt

\* So it stays as agreed as it was, when nothing new is to be done there.
LEMMA AgreeStays ==
    ASSUME NEW v \in VMID, Agree(v), UNCHANGED repo, want' \in {repo, want},
           /\ Owned(guest', v) => Owned(guest, v) /\ guest'[v].name = guest[v].name
           /\ IsTemplate(guest', v) => IsTemplate(guest, v),
           \A a \in Pending' : a.vmid = v =>
              \E b \in Pending : b.vmid = v /\ b.name = a.name /\ b.kind = a.kind /\ b.type = a.type
    PROVE  Agree(v)'
<1>1. \A a \in Pending' : a.vmid = v =>
        /\ a.name \in NamesAt(v)
        /\ a.kind = "Template" => TemplateAt(v)
        /\ a.kind = "VirtualMachine" /\ a.type = "create" => VMAt(v)
  BY PendingAt
<1>2. Owned(guest', v) => guest'[v].name \in NamesAt(v) /\ (IsTemplate(guest', v) => TemplateAt(v))
  BY OwnedAt
<1> QED
  BY <1>1, <1>2, AgreeKeeps

\* Two jobs at a VMID that is agreed on are of the two kinds, and neither clones.
LEMMA TwoJobs ==
    ASSUME IInv, HandInv, NEW v \in VMID, Agree(v), OursAt(guest, plan, jobs, v),
           NEW k \in DOMAIN jobs, NEW l \in DOMAIN jobs, k # l,
           jobs[k].vmid = v, jobs[l].vmid = v
    PROVE  /\ jobs[k].kind # jobs[l].kind
           /\ jobs[k].todo[1] \notin {"clone", "finish"}
<1>1. /\ ActionOK(jobs[k]) /\ jobs[k].todo # <<>> /\ Ordinary(jobs[k]) /\ KeyOf(jobs[k]) = k
      /\ ActionOK(jobs[l]) /\ KeyOf(jobs[l]) = l
  BY DEF IInv, JobOK, HandInv, HandOK
<1>2. jobs[k] \in Pending /\ jobs[l] \in Pending
  BY DEF Pending
<1>3. jobs[k].name = jobs[l].name
  BY <1>2, PendingAt DEF Agree
<1>4. jobs[k].kind # jobs[l].kind
  BY <1>1, <1>3 DEF KeyOf
<1>5. jobs[k].kind # "web UI" /\ jobs[l].kind # "web UI"
  BY DEF OursAt, JobOurs
<1>6. TemplateAt(v)
  BY <1>1, <1>2, <1>4, <1>5, PendingAt DEF ActionOK
<1>7. jobs[k].todo[1] \in {"clone", "finish"} => VMAt(v)
  BY <1>1, <1>2, ClonesAreOfVMs, PendingAt DEF ActionOK
<1> QED
  BY <1>4, <1>6, <1>7 DEF Agree

\* A call that has succeeded, of a job that goes on or not.
LEMMA WellCalled ==
    ASSUME IInv, HandInv, NEW k \in DOMAIN jobs, NEW v \in VMID, jobs[k].vmid = v,
           Agree(v), OursAt(guest, plan, jobs, v),
           May(Head(jobs[k].todo), jobs[k]),
           NEW o \in After(Head(jobs[k].todo), jobs[k]),
           guest' = [guest EXCEPT ![v] = o], UNCHANGED <<repo, want, plan>>,
           \A x \in DOMAIN jobs' :
              /\ x \in DOMAIN jobs
              /\ x # k => jobs'[x] = jobs[x]
              /\ x = k => LET rest == Rest(Head(jobs[k].todo), jobs[k])
                          IN  rest # <<>> /\ jobs'[k] = [jobs[k] EXCEPT !.todo = rest]
    PROVE  Agree(v)' /\ OursAt(guest', plan', jobs', v)
<1> DEFINE j == jobs[k]
           call == j.todo[1]
           rest == Rest(Head(jobs[k].todo), jobs[k])
<1>1. /\ Present(guest, v) <=> call \notin {"new", "clone"}
      /\ Present(guest', v) <=> call # "destroy"
      /\ call # "fail"
      /\ call \in {"new", "finish"} => Owned(guest', v)
      /\ call \notin {"new", "clone", "finish", "destroy"} => (Owned(guest', v) <=> Owned(guest, v))
      /\ call \in {"new", "clone"} => ~IsTemplate(guest', v) /\ guest'[v].name = j.name
      /\ call \notin {"new", "clone", "destroy"} => guest'[v].name = guest[v].name
      /\ call \notin {"destroy", "convert"} /\ IsTemplate(guest', v) => IsTemplate(guest, v)
  BY CallFlags
<1>2. /\ ActionOK(j) /\ j.todo # <<>> /\ Ordinary(j) /\ JobOurs(guest, j) /\ j \in Pending
      /\ j.todo \in Seq(Fitting(j.type, j.arg)) /\ j.vmid = v
  BY DEF IInv, JobOK, ActionOK, HandInv, HandOK, OursAt, Pending
<1>3. /\ call = "convert" => j.kind = "Template"
      /\ call \in {"clone", "finish"} => j.type = "create" /\ j.kind = "VirtualMachine"
  BY <1>2, ClonesAreOfVMs
<1>4. ASSUME NEW x \in DOMAIN jobs', x = k
      PROVE  /\ jobs'[x].vmid = v /\ jobs'[x].kind = j.kind
             /\ jobs'[x].name = j.name /\ jobs'[x].type = j.type
             /\ jobs'[x].todo[1] # "clone"
             /\ jobs'[x].todo[1] = "finish" <=> call = "clone"
  <2>1. rest # <<>> /\ jobs'[x] = [j EXCEPT !.todo = rest]
    BY <1>4
  <2>2. /\ jobs'[x].vmid = v /\ jobs'[x].kind = j.kind /\ jobs'[x].todo = rest
        /\ jobs'[x].name = j.name /\ jobs'[x].type = j.type
    BY <1>2, <2>1, Parts
  <2>3. rest[1] = "finish" => call = "clone"
    BY <1>2, <2>1, RestFits
  <2>4. rest[1] # "clone" /\ (call = "clone" => rest[1] = "finish")
    BY <1>2, <2>1, RestOrdinary
  <2> QED
    BY <2>2, <2>3, <2>4
<1>5. \A x \in DOMAIN jobs' : x \in DOMAIN jobs /\ (x # k => jobs'[x] = jobs[x])
  OBVIOUS
<1>6. ASSUME NEW x \in DOMAIN jobs, x # k, jobs[x].vmid = v
      PROVE  call \notin {"clone", "finish"} /\ jobs[x].todo[1] \notin {"clone", "finish"}
  BY <1>6, TwoJobs
<1> HIDE DEF j, call, rest
<1>7. /\ call # "clone" /\ Ours(guest, v) => Ours(guest', v)
      /\ call \in {"new", "finish"} => Ours(guest', v)
  BY <1>1 DEF Ours
<1>8. Agree(v)'
  <2>1. ASSUME NEW a \in Pending', a.vmid = v
        PROVE  \E b \in Pending : b.vmid = v /\ b.name = a.name /\ b.kind = a.kind /\ b.type = a.type
    <3>1. a \in plan \/ \E x \in DOMAIN jobs' : a = jobs'[x]
      BY <2>1 DEF Pending
    <3>2. CASE a \in plan
      BY <2>1, <3>2 DEF Pending
    <3>3. ASSUME NEW x \in DOMAIN jobs', a = jobs'[x], x # k
          PROVE  a \in Pending
      BY <1>5, <3>3 DEF Pending
    <3>4. ASSUME NEW x \in DOMAIN jobs', a = jobs'[x], x = k
          PROVE  j.vmid = v /\ j.name = a.name /\ j.kind = a.kind /\ j.type = a.type
      BY <1>2, <1>4, <3>4
    <3> QED
      BY <1>2, <2>1, <3>1, <3>2, <3>3, <3>4
  <2>2. \A a \in Pending' : a.vmid = v =>
          /\ a.name \in NamesAt(v)
          /\ a.kind = "Template" => TemplateAt(v)
          /\ a.kind = "VirtualMachine" /\ a.type = "create" => VMAt(v)
    BY <2>1, PendingAt
  <2>3. j.name \in NamesAt(v) /\ (j.kind = "Template" => TemplateAt(v))
    BY <1>2, PendingAt
  <2>4. Owned(guest', v) => guest'[v].name \in NamesAt(v) /\ (IsTemplate(guest', v) => TemplateAt(v))
    <3> SUFFICES ASSUME Owned(guest', v)
                 PROVE  guest'[v].name \in NamesAt(v) /\ (IsTemplate(guest', v) => TemplateAt(v))
      OBVIOUS
    <3>0. call # "destroy"
      BY <1>1 DEF Owned
    <3>1. CASE call \in {"new", "clone"}
      BY <1>1, <2>3, <3>1
    <3>2. CASE call = "finish"
      <4>1. ~IsTemplate(guest, v) /\ guest[v].name = j.name
        BY <1>1, <1>2, <3>2 DEF JobOurs, call
      <4> QED
        BY <1>1, <2>3, <3>2, <4>1
    <3>3. CASE call \notin {"new", "clone", "finish"}
      <4>1. Owned(guest, v) /\ guest'[v].name = guest[v].name
        BY <1>1, <3>0, <3>3
      <4>2. call # "convert" /\ IsTemplate(guest', v) => IsTemplate(guest, v)
        BY <1>1, <3>0
      <4> QED
        BY <1>3, <2>3, <4>1, <4>2, OwnedAt
    <3> QED
      BY <3>1, <3>2, <3>3
  <2> QED
    BY <2>2, <2>4, AgreeKeeps
<1>9. ASSUME NEW x \in DOMAIN jobs', jobs'[x].vmid = v PROVE JobOurs(guest', jobs'[x])
  <2>1. CASE x = k
    <3>1. jobs'[x].kind # "web UI"
      BY <1>2, <1>4, <2>1 DEF JobOurs
    <3>2. jobs'[x].todo[1] = "finish" => ~IsTemplate(guest', v) /\ guest'[v].name = jobs'[x].name
      BY <1>1, <1>4, <2>1
    <3>3. jobs'[x].todo[1] \notin {"new", "clone", "finish", "fail"} => Ours(guest', v)
      <4>1. call \notin {"new", "clone", "finish"} => Ours(guest, v)
        BY <1>1, <1>2 DEF JobOurs, call
      <4> QED
        BY <1>4, <1>7, <2>1, <4>1
    <3> QED
      BY <1>9, <3>1, <3>2, <3>3 DEF JobOurs
  <2>2. CASE x # k
    <3>1. x \in DOMAIN jobs /\ jobs'[x] = jobs[x] /\ jobs[x].vmid = v /\ JobOurs(guest, jobs[x])
      BY <1>5, <1>9, <2>2 DEF OursAt
    <3>2. call # "clone" /\ jobs[x].todo[1] # "finish"
      BY <1>6, <2>2, <3>1
    <3> QED
      BY <1>7, <3>1, <3>2 DEF JobOurs
  <2> QED
    BY <2>1, <2>2
<1>10. ASSUME NEW a \in plan, a.vmid = v PROVE PlanOurs(guest', plan, jobs', a)
  <2>1. PlanOurs(guest, plan, jobs, a)
    BY <1>10 DEF OursAt
  <2> SUFFICES ASSUME a.type # "create"
               PROVE  /\ Ours(guest', v)
                      /\ \A x \in DOMAIN jobs' : jobs'[x].vmid = v => jobs'[x].todo[1] # "clone"
    BY <1>10, <2>1 DEF PlanOurs
  <2>2. call # "clone"
    <3>1. call = "clone" => Owned(guest, v)
      BY <1>2, <1>10, <2>1 DEF PlanOurs, call, j
    <3> QED
      BY <1>1, <3>1 DEF Owned
  <2>3. Ours(guest', v)
    BY <1>7, <1>10, <2>1, <2>2 DEF PlanOurs
  <2>4. ASSUME NEW x \in DOMAIN jobs', jobs'[x].vmid = v PROVE jobs'[x].todo[1] # "clone"
    BY <1>4, <1>5, <1>6, <2>4
  <2> QED
    BY <2>3, <2>4
<1> QED
  BY <1>8, <1>9, <1>10 DEF OursAt

-----------------------------------------------------------------------------
(* Every step. *)

\* Somebody who stops a guest or changes its configuration leaves its tag alone.
LEMMA TamperFlags ==
    ASSUME IInv, Tamper
    PROVE  \A v \in VMID : /\ Present(guest', v) <=> Present(guest, v)
                           /\ Owned(guest', v) <=> Owned(guest, v)
                           /\ IsTemplate(guest', v) <=> IsTemplate(guest, v)
                           /\ Present(guest', v) => guest'[v].name = guest[v].name
<1>1. PICK v \in VMID :
        /\ IsVM(guest, v)
        /\ \/ guest' = [guest EXCEPT ![v].running = FALSE]
           \/ \E f \in Field : \E x \in Values : guest' = [guest EXCEPT ![v].conf[f] = x]
  BY DEF Tamper
<1>2. guest \in [VMID -> Guest \cup {Absent}] /\ guest[v] \in Guest
  BY <1>1 DEF IInv, TypeOK, IsVM, Present
<1>3. PICK o \in Guest : /\ o.owned = guest[v].owned /\ o.template = guest[v].template
                         /\ o.name = guest[v].name
                         /\ guest' = [guest EXCEPT ![v] = o]
  <2>1. CASE guest' = [guest EXCEPT ![v].running = FALSE]
    <3>1. [guest[v] EXCEPT !.running = FALSE] \in Guest
      BY <1>2 DEF Guest
    <3> QED
      BY <1>2, <2>1, <3>1 DEF Guest
  <2>2. CASE \E f \in Field : \E x \in Values : guest' = [guest EXCEPT ![v].conf[f] = x]
    <3>1. PICK f \in Field, x \in Values : guest' = [guest EXCEPT ![v].conf[f] = x]
      BY <2>2
    <3>2. [guest[v] EXCEPT !.conf[f] = x] \in Guest
      BY <1>2 DEF Guest
    <3> QED
      BY <1>2, <3>1, <3>2 DEF Guest
  <2> QED
    BY <1>1, <2>1, <2>2
<1>4. guest'[v] = o /\ o # Absent /\ guest[v] # Absent /\ \A x \in VMID \ {v} : guest'[x] = guest[x]
  BY <1>1, <1>2, <1>3, GuestsAssumption DEF IsVM, Present
<1> QED
  BY <1>3, <1>4 DEF Present, Owned, IsTemplate

\* A step in which nothing becomes of what is at v, and nothing is begun there.
LEMMA WellStays ==
    ASSUME NEW v \in VMID, Agree(v), OursAt(guest, plan, jobs, v),
           UNCHANGED repo, want' \in {repo, want},
           /\ Present(guest', v) <=> Present(guest, v)
           /\ Owned(guest', v) <=> Owned(guest, v)
           /\ IsTemplate(guest', v) <=> IsTemplate(guest, v)
           /\ Present(guest', v) => guest'[v].name = guest[v].name,
           plan' \subseteq plan,
           \A k \in DOMAIN jobs' : jobs'[k].vmid = v => k \in DOMAIN jobs /\ jobs'[k] = jobs[k]
    PROVE  Agree(v)' /\ OursAt(guest', plan', jobs', v)
<1>1. OursAt(guest', plan', jobs', v)
  BY OursStay
<1>2. \A a \in Pending' : a.vmid = v => a \in Pending
  BY DEF Pending
<1>3. Owned(guest', v) => Owned(guest, v) /\ guest'[v].name = guest[v].name
  BY DEF Owned
<1>4. Agree(v)'
  BY <1>2, <1>3, AgreeStays
<1> QED
  BY <1>1, <1>4

\* Jobs that are the same but for one that goes on, at another VMID.
LEMMA OtherJobs ==
    ASSUME IInv, NEW k \in DOMAIN jobs, NEW v, jobs[k].vmid # v,
           \A x \in DOMAIN jobs' :
              /\ x \in DOMAIN jobs
              /\ x # k => jobs'[x] = jobs[x]
              /\ x = k => LET rest == Rest(Head(jobs[k].todo), jobs[k])
                          IN  rest # <<>> /\ jobs'[k] = [jobs[k] EXCEPT !.todo = rest]
    PROVE  \A x \in DOMAIN jobs' : jobs'[x].vmid = v => x \in DOMAIN jobs /\ jobs'[x] = jobs[x]
<1> DEFINE rest == Rest(Head(jobs[k].todo), jobs[k])
<1>1. k \in DOMAIN jobs' => jobs'[k] = [jobs[k] EXCEPT !.todo = rest]
  OBVIOUS
<1> HIDE DEF rest
<1>2. ActionOK(jobs[k])
  BY DEF IInv, JobOK
<1>3. k \in DOMAIN jobs' => jobs'[k].vmid = jobs[k].vmid
  BY <1>1, <1>2, Parts
<1> QED
  BY <1>3

\* The calls that succeed, and those that do not.
LEMMA WellCalls ==
    ASSUME IInv, HandInv, WellInv, NEW k \in Keys, Call(k) \/ Refused(k) \/ Failed(k)
    PROVE  WellInv'
<1> DEFINE j == jobs[k]
<1>1. /\ k \in DOMAIN jobs /\ j.vmid \in VMID /\ guest \in [VMID -> Guest \cup {Absent}]
      /\ UNCHANGED <<repo, want, plan, astray>>
  BY DEF Call, Refused, Failed, passVars, IInv, TypeOK
<1>2. \A x \in DOMAIN jobs' :
        /\ x \in DOMAIN jobs
        /\ x # k => jobs'[x] = jobs[x]
        /\ x = k => LET rest == Rest(Head(jobs[k].todo), jobs[k])
                    IN  rest # <<>> /\ jobs'[k] = [jobs[k] EXCEPT !.todo = rest]
  <2>1. CASE Call(k)
    BY <2>1, CallGoesOn DEF JobsGoOn
  <2>2. CASE Refused(k) \/ Failed(k)
    <3>1. jobs' = Drop(k)
      BY <2>2 DEF Refused, Failed
    <3> QED
      BY <3>1 DEF Drop
  <2> QED
    BY <2>1, <2>2
<1>3. \/ guest' = guest /\ jobs' = Drop(k)
      \/ /\ May(Head(j.todo), j)
         /\ \E o \in After(Head(j.todo), j) : guest' = [guest EXCEPT ![j.vmid] = o]
  <2>1. CASE Call(k)
    BY <2>1 DEF Call
  <2>2. CASE Refused(k)
    BY <2>2 DEF Refused
  <2>3. CASE Failed(k)
    <3>1. /\ May(Head(j.todo), j) /\ jobs' = Drop(k)
          /\ \E o \in After(Head(j.todo), j) \cup {guest[j.vmid]} :
                guest' = [guest EXCEPT ![j.vmid] = o]
      BY <2>3 DEF Failed
    <3>2. guest = [guest EXCEPT ![j.vmid] = guest[j.vmid]]
      BY <1>1
    <3> QED
      BY <3>1, <3>2
  <2> QED
    BY <2>1, <2>2, <2>3
<1> SUFFICES ASSUME NEW v \in VMID \ astray'
             PROVE  Agree(v)' /\ OursAt(guest', plan', jobs', v)
  BY WellNext
<1>4. Agree(v) /\ OursAt(guest, plan, jobs, v)
  BY <1>1 DEF WellInv
<1>5. CASE guest' = guest /\ jobs' = Drop(k)
  <2>1. \A x \in DOMAIN jobs' : x \in DOMAIN jobs /\ jobs'[x] = jobs[x]
    BY <1>5 DEF Drop
  <2> QED
    BY <1>1, <1>4, <1>5, <2>1, WellStays
<1>6. ASSUME May(Head(j.todo), j), NEW o \in After(Head(j.todo), j),
             guest' = [guest EXCEPT ![j.vmid] = o]
      PROVE  Agree(v)' /\ OursAt(guest', plan', jobs', v)
  <2>1. CASE j.vmid = v
    BY <1>1, <1>2, <1>4, <1>6, <2>1, WellCalled
  <2>2. CASE j.vmid # v
    <3>1. guest'[v] = guest[v]
      BY <1>1, <1>6, <2>2
    <3>2. \A x \in DOMAIN jobs' : jobs'[x].vmid = v => x \in DOMAIN jobs /\ jobs'[x] = jobs[x]
      BY <1>1, <1>2, <2>2, OtherJobs
    <3>3. /\ Present(guest', v) <=> Present(guest, v)
          /\ Owned(guest', v) <=> Owned(guest, v)
          /\ IsTemplate(guest', v) <=> IsTemplate(guest, v)
      BY <3>1 DEF Present, Owned, IsTemplate
    <3> QED
      BY <1>1, <1>4, <3>1, <3>2, <3>3, WellStays
  <2> QED
    BY <2>1, <2>2
<1> QED
  BY <1>3, <1>5, <1>6

\* A guest that somebody takes over is one for which nothing was planned, or astray.
LEMMA WellTakenOver ==
    ASSUME IInv, WellInv, TakeOver
    PROVE  WellInv'
<1>1. PICK u \in VMID :
        /\ \E o \in Others(u) : guest' = [guest EXCEPT ![u] = o]
        /\ astray' = astray \cup Disagreeing' \cup {x \in {u} : Handled(x)}
  BY DEF TakeOver
<1>2. UNCHANGED <<repo, want, plan, jobs>> /\ guest \in [VMID -> Guest \cup {Absent}]
  BY DEF TakeOver, passVars, IInv, TypeOK
<1> SUFFICES ASSUME NEW v \in VMID \ astray'
             PROVE  Agree(v)' /\ OursAt(guest', plan', jobs', v)
  BY WellNext
<1>3. Agree(v)' /\ OursAt(guest, plan, jobs, v)
  BY <1>1, NotedAgree DEF WellInv
<1>4. CASE v = u
  <2>1. ~Handled(v)
    BY <1>1, <1>4
  <2>2. (\A k \in DOMAIN jobs : jobs[k].vmid # v) /\ \A a \in plan : a.vmid # v
    BY <2>1 DEF Handled, Pending
  <2> QED
    BY <1>2, <1>3, <2>2 DEF OursAt
<1>5. CASE v # u
  <2>1. guest'[v] = guest[v]
    BY <1>1, <1>2, <1>5
  <2>2. /\ Present(guest', v) <=> Present(guest, v)
        /\ Owned(guest', v) <=> Owned(guest, v)
        /\ IsTemplate(guest', v) <=> IsTemplate(guest, v)
    BY <2>1 DEF Present, Owned, IsTemplate
  <2> QED
    BY <1>2, <1>3, <2>1, <2>2, OursStay
<1> QED
  BY <1>4, <1>5

\* A deletion in the web UI is of a VMID that is astray from then on.
LEMMA WellClicked ==
    ASSUME IInv, WellInv, Click
    PROVE  WellInv'
<1>1. PICK vm \in repo.vms :
        /\ jobs' = Enter(<<"web UI", vm.name>>,
                         Action("delete", "web UI", vm.name, vm.vmid, <<"find">>, NoArg))
        /\ astray' = astray \cup {vm.vmid}
  BY DEF Click
<1> DEFINE a == Action("delete", "web UI", vm.name, vm.vmid, <<"find">>, NoArg)
<1>2. UNCHANGED <<guest, repo, want, plan>>
  BY DEF Click, passVars
<1>3. a.vmid = vm.vmid
  BY DEF Action
<1> HIDE DEF a
<1>4. \A k \in DOMAIN jobs' : (k \in DOMAIN jobs /\ jobs'[k] = jobs[k]) \/ jobs'[k] = a
  BY <1>1 DEF Enter, a
<1> SUFFICES ASSUME NEW v \in VMID \ astray'
             PROVE  Agree(v)' /\ OursAt(guest', plan', jobs', v)
  BY WellNext
<1>5. Agree(v) /\ OursAt(guest, plan, jobs, v) /\ v # vm.vmid
  BY <1>1 DEF WellInv
<1> QED
  BY <1>2, <1>3, <1>4, <1>5, WellStays

LEMMA WellKeeps ==
    ASSUME IInv, HandInv, WellInv, [Next]_vars
    PROVE  WellInv'
<1>1. CASE ListTemplates
  <2>1. PICK g \in Listings : Listed(g) /\ plan' = TemplatePlan(repo, g)
    BY <1>1 DEF ListTemplates
  <2>2. UNCHANGED <<guest, repo, jobs>> /\ want' = repo
    BY <1>1 DEF ListTemplates
  <2>3. \A a \in plan' : a \in FullPlan(repo, g)
    BY <2>1, PlanKinds
  <2> QED
    BY <2>1, <2>2, <2>3, WellListed
<1>2. CASE ListVMs
  <2>1. PICK g \in Listings : Listed(g) /\ plan' = plan \cup GuestPlan(want, g)
    BY <1>2 DEF ListVMs
  <2>2. UNCHANGED <<guest, repo, want, jobs>> /\ stage = "listed"
    BY <1>2 DEF ListVMs
  <2>3. \A a \in plan' : a \in FullPlan(want, g) \/ (a \in plan /\ a.kind = "Template")
    BY <2>1, <2>2, PlanKinds DEF HandInv, HandOK
  <2> QED
    BY <2>1, <2>2, <2>3, WellListed
<1>3. CASE Submit
  <2>1. PICK a \in plan : /\ jobs' = IF Taken(a) THEN Enter(KeyOf(a), a) ELSE jobs
                          /\ plan' = plan \ {a}
    BY <1>3 DEF Submit
  <2>2. UNCHANGED <<guest, repo, want, astray>>
    BY <1>3 DEF Submit
  <2> SUFFICES ASSUME NEW v \in VMID \ astray'
               PROVE  Agree(v)' /\ OursAt(guest', plan', jobs', v)
    BY WellNext
  <2>3. Agree(v) /\ OursAt(guest, plan, jobs, v)
    BY <2>2 DEF WellInv
  <2>4. OursAt(guest', plan', jobs', v)
    <3>1. CASE Taken(a)
      BY <2>1, <2>2, <2>3, <3>1, OursSubmitted
    <3>2. CASE ~Taken(a)
      BY <2>1, <2>2, <2>3, <3>2, OursStay
    <3> QED
      BY <3>1, <3>2
  <2>5. \A b \in Pending' : b \in Pending
    <3>1. \A k \in DOMAIN jobs' : (k \in DOMAIN jobs /\ jobs'[k] = jobs[k]) \/ jobs'[k] = a
      BY <2>1 DEF Enter
    <3> QED
      BY <2>1, <3>1 DEF Pending
  <2>6. Agree(v)'
    BY <2>2, <2>3, <2>5, AgreeStays
  <2> QED
    BY <2>4, <2>6
<1>4. ASSUME NEW k \in Keys, Call(k) \/ Refused(k) \/ Failed(k) PROVE WellInv'
  BY <1>4, WellCalls
<1>5. CASE Commit
  <2>1. UNCHANGED <<guest, plan, jobs>> /\ astray' = astray \cup Disagreeing'
    BY <1>5 DEF Commit, passVars
  <2> SUFFICES ASSUME NEW v \in VMID \ astray'
               PROVE  Agree(v)' /\ OursAt(guest', plan', jobs', v)
    BY WellNext
  <2> QED
    BY <2>1, NotedAgree DEF WellInv
<1>6. CASE Restart
  <2>1. plan' = {} /\ DOMAIN jobs' = {} /\ astray' = Disagreeing'
    BY <1>6 DEF Restart
  <2> SUFFICES ASSUME NEW v \in VMID \ astray'
               PROVE  Agree(v)' /\ OursAt(guest', plan', jobs', v)
    BY WellNext
  <2> QED
    BY <2>1, NotedAgree DEF OursAt
<1>7. CASE Tamper \/ UNCHANGED vars
  <2>1. UNCHANGED <<repo, want, plan, jobs, astray>>
    BY <1>7 DEF Tamper, vars, passVars
  <2>2. \A v \in VMID : /\ Present(guest', v) <=> Present(guest, v)
                        /\ Owned(guest', v) <=> Owned(guest, v)
                        /\ IsTemplate(guest', v) <=> IsTemplate(guest, v)
                        /\ Present(guest', v) => guest'[v].name = guest[v].name
    BY <1>7, TamperFlags DEF vars
  <2> SUFFICES ASSUME NEW v \in VMID \ astray'
               PROVE  Agree(v)' /\ OursAt(guest', plan', jobs', v)
    BY WellNext
  <2>3. Agree(v) /\ OursAt(guest, plan, jobs, v)
    BY <2>1 DEF WellInv
  <2> QED
    BY <2>1, <2>2, <2>3, WellStays
<1> QED
  BY <1>1, <1>2, <1>3, <1>4, <1>5, <1>6, <1>7, WellTakenOver, WellClicked DEF Next, Pass

-----------------------------------------------------------------------------
(* As long as the repository stays as it is, what is planned or done goes  *)
(* by it: nothing that it declares is deleted, and what is cloned is there.*)

Steady(g, r, out, a) ==
    /\ a.type = "delete" /\ a.kind # "web UI" =>
         a.vmid \notin Declared(r.templates) \cup Declared(r.vms) \/ a.vmid \in out
    /\ a.todo # <<>> /\ a.todo[1] = "clone" =>
         \/ a.arg.from \in Declared(r.templates) /\ IsTemplate(g, a.arg.from)
         \/ a.arg.from \in out

AllSteady(g, r, out, p, js) ==
    /\ \A a \in p : Steady(g, r, out, a)
    /\ \A k \in DOMAIN js : Steady(g, r, out, js[k])

SteadyInv == spent.commit = 0 => want = repo /\ AllSteady(guest, repo, astray, plan, jobs)

LEMMA SteadyNext ==
    SteadyInv' <=> (spent'.commit = 0 =>
        want' = repo' /\ AllSteady(guest', repo', astray', plan', jobs'))
  BY DEF SteadyInv, AllSteady, Steady, Declared, IsTemplate, Present

\* It stays so as long as the templates that are declared are there.
LEMMA SteadyStays ==
    ASSUME NEW a, NEW r, NEW out, NEW more, Steady(guest, r, out, a), out \subseteq more,
           \A t \in Declared(r.templates) \ more : IsTemplate(guest, t) => IsTemplate(guest', t)
    PROVE  Steady(guest', r, more, a)
  BY DEF Steady

\* What is planned goes by the repository it is planned for.
LEMMA SteadyPlanned ==
    ASSUME TypeOK, NEW c \in Commits, NEW g \in Listings, NEW a \in FullPlan(c, g),
           a \in plan', a.vmid \in VMID, c = repo', UNCHANGED guest, WellInv'
    PROVE  Steady(guest, c, astray', a)
<1>1. ASSUME a.type = "delete", a.vmid \notin astray'
      PROVE  a.vmid \notin Declared(c.templates) \cup Declared(c.vms)
  <2>1. /\ a.vmid \notin Declared(c.templates)
        /\ a.kind = "VirtualMachine" => a.vmid \notin Declared(c.vms)
    BY <1>1, PlansKeepDeclared
  <2>2. ASSUME a.kind = "Template" PROVE a.vmid \notin Declared(c.vms)
    <3>1. TemplateAt(a.vmid)'
      BY <2>2 DEF TemplateAt, Pending
    <3>2. Agree(a.vmid)'
      BY <1>1, WellNext
    <3>3. a.vmid \in Declared(c.vms) => VMAt(a.vmid)'
      BY DEF VMAt, Declared
    <3> QED
      BY <3>1, <3>2, <3>3 DEF Agree
  <2>3. a.kind \in {"Template", "VirtualMachine"}
    BY PlanOrdinary
  <2> QED
    BY <2>1, <2>2, <2>3
<1>2. ASSUME a.todo # <<>>, a.todo[1] = "clone"
      PROVE  a.arg.from \in Declared(c.templates) /\ IsTemplate(guest, a.arg.from)
  <2>1. a.arg.from \in Declared(c.templates) /\ IsTemplate(g, a.arg.from)
    BY <1>2, PlanClones
  <2>2. a.arg.from \in VMID
    BY <2>1, GuestsAssumption DEF Declared, TemplateManifest
  <2> QED
    BY <2>1, <2>2, ListedFlags
<1> QED
  BY <1>1, <1>2 DEF Steady

\* A listing is no commit, and nobody comes back from being astray by it.
LEMMA ListedSpends ==
    ASSUME IInv, NEW g, Listed(g)
    PROVE  spent'.commit = spent.commit /\ astray \subseteq astray'
  BY Spending DEF Listed, IInv

\* Jobs go on as they began.
LEMMA SteadyMoves ==
    ASSUME IInv, HandInv, astray \subseteq astray',
           AllSteady(guest, repo, astray, plan, jobs), JobsGoOn, plan' \subseteq plan,
           \A t \in Declared(repo.templates) \ astray' :
              IsTemplate(guest, t) => IsTemplate(guest', t)
    PROVE  AllSteady(guest', repo, astray', plan', jobs')
<1>1. ASSUME NEW k \in DOMAIN jobs' PROVE Steady(guest', repo, astray', jobs'[k])
  <2>1. /\ k \in DOMAIN jobs /\ Steady(guest, repo, astray, jobs[k])
        /\ ActionOK(jobs[k]) /\ jobs[k].todo # <<>> /\ Ordinary(jobs[k])
    BY <1>1 DEF JobsGoOn, AllSteady, IInv, JobOK, HandInv, HandOK
  <2>2. CASE jobs'[k] = jobs[k]
    BY <2>1, <2>2, SteadyStays
  <2>3. ASSUME NEW rest, rest = Rest(Head(jobs[k].todo), jobs[k]), rest # <<>>,
               jobs'[k] = [jobs[k] EXCEPT !.todo = rest]
        PROVE  Steady(guest', repo, astray', jobs'[k])
    <3>1. rest[1] # "clone"
      BY <2>1, <2>3, RestOrdinary
    <3>2. /\ jobs'[k].type = jobs[k].type /\ jobs'[k].vmid = jobs[k].vmid
          /\ jobs'[k].kind = jobs[k].kind /\ jobs'[k].todo = rest
      BY <2>1, <2>3, Parts
    <3> QED
      BY <2>1, <3>1, <3>2 DEF Steady
  <2> QED
    BY <1>1, <2>2, <2>3 DEF JobsGoOn
<1>2. ASSUME NEW a \in plan' PROVE Steady(guest', repo, astray', a)
  BY <1>2, SteadyStays DEF AllSteady
<1> QED
  BY <1>1, <1>2 DEF AllSteady

\* No call takes a template away that is declared: those of the reconcilers delete
\* nothing that is, and those of the web UI are at VMIDs that are astray.
LEMMA TemplatesStay ==
    ASSUME IInv, HandInv, WellInv, NEW k \in DOMAIN jobs, Steady(guest, repo, astray, jobs[k]),
           May(Head(jobs[k].todo), jobs[k]), NEW o \in After(Head(jobs[k].todo), jobs[k]),
           guest' = [guest EXCEPT ![jobs[k].vmid] = o],
           NEW t \in Declared(repo.templates), t \notin astray, IsTemplate(guest, t)
    PROVE  IsTemplate(guest', t)
<1>1. t \in VMID
  BY GuestsAssumption DEF IInv, TypeOK, Declared, TemplateManifest
<1>2. /\ \A x \in VMID \ {jobs[k].vmid} : guest'[x] = guest[x]
      /\ jobs[k].todo[1] # "destroy" /\ IsTemplate(guest, jobs[k].vmid) =>
            IsTemplate(guest', jobs[k].vmid)
  BY CallFlags
<1>3. ActionOK(jobs[k]) /\ jobs[k].todo # <<>> /\ Ordinary(jobs[k])
  BY DEF IInv, JobOK, HandInv, HandOK
<1>4. jobs[k].vmid = t => jobs[k].kind # "web UI"
  BY <1>1 DEF WellInv, OursAt, JobOurs
<1>5. jobs[k].todo[1] = "destroy" => jobs[k].vmid # t
  BY <1>3, <1>4, ClonesAreOfVMs DEF ActionOK, Steady
<1> QED
  BY <1>1, <1>2, <1>5 DEF IsTemplate, Present

\* Nor does somebody who takes a guest over that nothing waits for.
LEMMA SteadyTakenOver ==
    ASSUME IInv, HandInv, TakeOver, AllSteady(guest, repo, astray, plan, jobs)
    PROVE  AllSteady(guest', repo, astray', plan', jobs')
<1>1. PICK u \in VMID :
        /\ \E o \in Others(u) : guest' = [guest EXCEPT ![u] = o]
        /\ astray' = astray \cup Disagreeing' \cup {x \in {u} : Handled(x)}
  BY DEF TakeOver
<1>2. UNCHANGED <<plan, jobs>> /\ guest \in [VMID -> Guest \cup {Absent}]
  BY DEF TakeOver, passVars, IInv, TypeOK
<1>3. ASSUME NEW a \in Pending, a.todo # <<>>, a.todo[1] = "clone", a.arg.from \notin astray'
      PROVE  a.arg.from # u /\ a.arg.from \in VMID
  <2>1. ActionOK(a) /\ Ordinary(a)
    BY <1>3 DEF Pending, IInv, PlannedOK, JobOK, HandInv, HandOK
  <2>2. a.type = "create" /\ a.kind = "VirtualMachine"
    BY <1>3, <2>1, ClonesAreOfVMs DEF ActionOK
  <2>3. a.arg.from = u => Handled(u)
    BY <1>3, <2>2 DEF Handled
  <2>4. "clone" \in Fitting(a.type, a.arg)
    <3>1. a.todo \in Seq(Fitting(a.type, a.arg))
      BY <2>1 DEF ActionOK
    <3> QED
      BY <1>3, <3>1
  <2> QED
    BY <1>1, <1>3, <2>3, <2>4 DEF Fitting
<1>4. ASSUME NEW a \in Pending, Steady(guest, repo, astray, a) PROVE Steady(guest', repo, astray', a)
  <2>1. \A x \in VMID : x # u => guest'[x] = guest[x]
    BY <1>1, <1>2
  <2>2. astray \subseteq astray'
    BY <1>1
  <2>3. ASSUME a.todo # <<>>, a.todo[1] = "clone", a.arg.from \notin astray'
        PROVE  a.arg.from \in Declared(repo.templates) /\ IsTemplate(guest', a.arg.from)
    <3>1. a.arg.from # u /\ a.arg.from \in VMID
      BY <1>3, <2>3
    <3>2. a.arg.from \in Declared(repo.templates) /\ IsTemplate(guest, a.arg.from)
      BY <1>4, <2>2, <2>3 DEF Steady
    <3> QED
      BY <2>1, <3>1, <3>2 DEF IsTemplate, Present
  <2> QED
    BY <1>4, <2>2, <2>3 DEF Steady
<1> QED
  BY <1>2, <1>4 DEF AllSteady, Pending

\* Every step goes by the repository.
LEMMA SteadyKeeps ==
    ASSUME IInv, HandInv, WellInv, WellInv', SteadyInv, [Next]_vars
    PROVE  SteadyInv'
<1> SUFFICES ASSUME spent'.commit = 0
             PROVE  want' = repo' /\ AllSteady(guest', repo', astray', plan', jobs')
  BY SteadyNext
<1>0. spent.commit = 0 => want = repo /\ AllSteady(guest, repo, astray, plan, jobs)
  BY DEF SteadyInv
<1>1. CASE ListTemplates
  <2>1. PICK g \in Listings : Listed(g) /\ plan' = TemplatePlan(repo, g)
    BY <1>1 DEF ListTemplates
  <2>2. spent.commit = 0 /\ g \in [VMID -> Seen \cup {Absent}] /\ astray \subseteq astray'
    BY <2>1, ListedGood, ListedSpends
  <2>3. want' = repo /\ repo' = repo /\ guest' = guest /\ jobs' = jobs /\ repo \in Commits
    BY <1>1 DEF ListTemplates, IInv, TypeOK
  <2>4. ASSUME NEW a \in plan' PROVE Steady(guest, repo, astray', a)
    <3>1. a \in FullPlan(repo, g)
      BY <2>1, PlanKinds
    <3>2. a.vmid \in VMID
      BY <2>2, <2>3, <3>1, PlanGood DEF PlannedOK, ActionOK
    <3> QED
      BY <2>3, <3>1, <3>2, SteadyPlanned DEF IInv
  <2>5. ASSUME NEW k \in DOMAIN jobs PROVE Steady(guest, repo, astray', jobs[k])
    BY <1>0, <2>2, <2>5 DEF AllSteady, Steady
  <2> QED
    BY <2>3, <2>4, <2>5 DEF AllSteady
<1>2. CASE ListVMs
  <2>1. PICK g \in Listings : Listed(g) /\ plan' = plan \cup GuestPlan(want, g)
    BY <1>2 DEF ListVMs
  <2>2. spent.commit = 0 /\ g \in [VMID -> Seen \cup {Absent}] /\ astray \subseteq astray'
    BY <2>1, ListedGood, ListedSpends
  <2>3. /\ want' = want /\ repo' = repo /\ guest' = guest /\ jobs' = jobs
        /\ want = repo /\ repo \in Commits
    BY <1>0, <1>2, <2>2 DEF ListVMs, IInv, TypeOK
  <2>4. ASSUME NEW a \in plan' PROVE Steady(guest, repo, astray', a)
    <3>1. CASE a \in GuestPlan(want, g)
      <4>1. a \in FullPlan(repo, g)
        BY <2>3, <3>1, PlanKinds
      <4>2. a.vmid \in VMID
        BY <2>2, <2>3, <4>1, PlanGood DEF PlannedOK, ActionOK
      <4> QED
        BY <2>3, <4>1, <4>2, SteadyPlanned DEF IInv
    <3>2. CASE a \in plan
      BY <1>0, <2>2, <3>2 DEF AllSteady, Steady
    <3> QED
      BY <2>1, <3>1, <3>2
  <2>5. ASSUME NEW k \in DOMAIN jobs PROVE Steady(guest, repo, astray', jobs[k])
    BY <1>0, <2>2, <2>5 DEF AllSteady, Steady
  <2> QED
    BY <2>3, <2>4, <2>5 DEF AllSteady
<1>3. CASE Submit
  <2>1. PICK a \in plan : /\ jobs' = IF Taken(a) THEN Enter(KeyOf(a), a) ELSE jobs
                          /\ plan' = plan \ {a}
    BY <1>3 DEF Submit
  <2>2. UNCHANGED <<guest, repo, want, astray, spent>>
    BY <1>3 DEF Submit
  <2>3. \A k \in DOMAIN jobs' : (k \in DOMAIN jobs /\ jobs'[k] = jobs[k]) \/ jobs'[k] = a
    BY <2>1 DEF Enter
  <2> QED
    BY <1>0, <2>1, <2>2, <2>3 DEF AllSteady
<1>4. ASSUME NEW k \in Keys, Call(k) \/ Failed(k)
      PROVE  want' = repo' /\ AllSteady(guest', repo', astray', plan', jobs')
  <2>1. /\ k \in DOMAIN jobs /\ May(Head(jobs[k].todo), jobs[k])
        /\ UNCHANGED <<repo, want, plan, astray>>
        /\ spent.commit = 0
    BY <1>4, Spending DEF Call, Failed, passVars, IInv
  <2>2. PICK o \in After(Head(jobs[k].todo), jobs[k]) \cup {guest[jobs[k].vmid]} :
          guest' = [guest EXCEPT ![jobs[k].vmid] = o]
    BY <1>4 DEF Call, Failed
  <2>3. JobsGoOn
    BY <1>4, CallGoesOn, DropGoesOn DEF Failed
  <2>4. Steady(guest, repo, astray, jobs[k])
    BY <1>0, <2>1 DEF AllSteady
  <2>5. ASSUME NEW t \in Declared(repo.templates) \ astray', IsTemplate(guest, t)
        PROVE  IsTemplate(guest', t)
    <3>1. CASE o \in After(Head(jobs[k].todo), jobs[k])
      BY <2>1, <2>2, <2>4, <2>5, <3>1, TemplatesStay
    <3>2. CASE o = guest[jobs[k].vmid]
      <4>1. guest' = guest
        BY <2>1, <2>2, <3>2 DEF IInv, TypeOK
      <4> QED
        BY <2>5, <4>1
    <3> QED
      BY <2>2, <3>1, <3>2
  <2>6. AllSteady(guest', repo, astray', plan', jobs')
    <3>1. AllSteady(guest, repo, astray, plan, jobs) /\ plan' \subseteq plan /\ astray \subseteq astray'
      BY <1>0, <2>1
    <3> QED
      BY <2>3, <2>5, <3>1, SteadyMoves
  <2> QED
    BY <1>0, <2>1, <2>6
<1>5. CASE Click
  <2>1. PICK vm \in repo.vms :
          /\ jobs' = Enter(<<"web UI", vm.name>>,
                           Action("delete", "web UI", vm.name, vm.vmid, <<"find">>, NoArg))
          /\ astray' = astray \cup {vm.vmid}
    BY <1>5 DEF Click
  <2> DEFINE a == Action("delete", "web UI", vm.name, vm.vmid, <<"find">>, NoArg)
  <2>2. /\ UNCHANGED <<guest, repo, want, plan>>
        /\ spent.commit = 0
    BY <1>5, Spending DEF Click, passVars, IInv
  <2>3. a.kind = "web UI" /\ a.todo = <<"find">> /\ a.todo[1] = "find"
    BY DEF Action
  <2> HIDE DEF a
  <2>4. Steady(guest, repo, astray', a)
    BY <2>3 DEF Steady
  <2>5. \A k \in DOMAIN jobs' : (k \in DOMAIN jobs /\ jobs'[k] = jobs[k]) \/ jobs'[k] = a
    BY <2>1 DEF Enter, a
  <2>6. \A b \in plan : Steady(guest, repo, astray', b)
    BY <1>0, <2>1, <2>2 DEF AllSteady, Steady
  <2>7. \A k \in DOMAIN jobs : Steady(guest, repo, astray', jobs[k])
    BY <1>0, <2>1, <2>2 DEF AllSteady, Steady
  <2> QED
    BY <1>0, <2>2, <2>4, <2>5, <2>6, <2>7 DEF AllSteady
<1>6. CASE Commit
  BY <1>6, Spending DEF Commit, IInv
<1>7. CASE Restart
  <2>1. want' = repo' /\ plan' = {} /\ jobs' = <<>>
    BY <1>7 DEF Restart
  <2> QED
    BY <2>1 DEF AllSteady
<1>8. ASSUME (\E k \in Keys : Refused(k)) \/ Tamper \/ UNCHANGED vars
      PROVE  want' = repo' /\ AllSteady(guest', repo', astray', plan', jobs')
  <2>1. /\ UNCHANGED <<repo, want, plan, astray>> /\ JobsGoOn
        /\ spent.commit = 0
    BY <1>8, Spending, DropGoesOn DEF Refused, Tamper, vars, passVars, IInv, JobsGoOn
  <2>2. guest' = guest \/ Tamper
    BY <1>8 DEF Refused, vars
  <2>3. ASSUME NEW t \in Declared(repo.templates), IsTemplate(guest, t) PROVE IsTemplate(guest', t)
    <3>1. t \in VMID
      BY GuestsAssumption DEF IInv, TypeOK, Declared, TemplateManifest
    <3> QED
      BY <2>2, <2>3, <3>1, TamperFlags
  <2>4. AllSteady(guest, repo, astray, plan, jobs) /\ plan' \subseteq plan /\ astray \subseteq astray'
    BY <1>0, <2>1
  <2>5. AllSteady(guest', repo, astray', plan', jobs')
    BY <2>1, <2>3, <2>4, SteadyMoves
  <2> QED
    BY <1>0, <2>1, <2>5
<1>9. CASE TakeOver
  <2>1. UNCHANGED <<repo, want>> /\ spent.commit = 0
    BY <1>9, Spending DEF TakeOver, passVars, IInv
  <2> QED
    BY <1>0, <1>9, <2>1, SteadyTakenOver
<1> QED
  BY <1>1, <1>2, <1>3, <1>4, <1>5, <1>6, <1>7, <1>8, <1>9 DEF Next, Pass

-----------------------------------------------------------------------------
\* The inductive invariant, in all its parts: what is planned and done keeps its
\* types, each action makes the calls of its kind, and where a VMID is not astray it
\* goes by one name and one kind and nothing planned or done there is anybody else's.
\* As long as nobody commits, none of it deletes what is declared or clones what is
\* not there.
THEOREM Invariance == Spec => [](IInv /\ HandInv /\ WellInv /\ SteadyInv)
<1> DEFINE I == IInv /\ HandInv /\ WellInv /\ SteadyInv
<1>1. Init => I
  <2> SUFFICES ASSUME Init PROVE HandInv /\ WellInv /\ SteadyInv
    BY InitIInv
  <2>1. want = repo /\ stage = "idle" /\ plan = {} /\ DOMAIN jobs = {} /\ astray = Disagreeing
    BY DEF Init
  <2>2. WellInv
    BY <2>1 DEF WellInv, OursAt, Disagreeing
  <2> QED
    BY <2>1, <2>2 DEF HandInv, HandOK, SteadyInv, AllSteady
<1>2. I /\ [Next]_vars => I'
  <2> SUFFICES ASSUME I, [Next]_vars PROVE I'
    OBVIOUS
  <2>1. IInv' /\ HandInv' /\ WellInv'
    BY IInvKeeps, HandKeeps, WellKeeps
  <2>2. SteadyInv'
    BY <2>1, SteadyKeeps
  <2> QED
    BY <2>1, <2>2
<1> QED
  BY <1>1, <1>2, PTL DEF Spec

\* Guests, plans and jobs keep their types, however the calls and the listings go.
THEOREM TypeCorrect == Spec => []TypeOK
<1>1. IInv => TypeOK
  BY DEF IInv
<1> QED
  BY <1>1, Invariance, PTL

LEMMA OneJob == IInv /\ WellInv => OneJobPerNamedGuest
<1> SUFFICES ASSUME IInv, WellInv, NEW k \in DOMAIN jobs, NEW l \in DOMAIN jobs,
                    jobs[k].kind = jobs[l].kind, jobs[k].vmid = jobs[l].vmid,
                    jobs[k].vmid \notin astray
             PROVE  k = l
  BY DEF OneJobPerNamedGuest
<1>1. Agree(jobs[k].vmid)
  BY DEF WellInv, IInv, TypeOK
<1>2. jobs[k] \in Pending /\ jobs[l] \in Pending
  BY DEF Pending
<1>3. jobs[k].name = jobs[l].name
  BY <1>1, <1>2, PendingAt DEF Agree
<1> QED
  BY <1>3 DEF IInv, JobOK, KeyOf

\* Two jobs of a kind never work on one guest, though the registry keeps them apart
\* by name: a VMID that is not astray goes by one name, in the repository, at the
\* cluster and in everything planned from either, whatever fails.
THEOREM JobsKeepApart == Spec => []OneJobPerNamedGuest
  BY OneJob, Invariance, PTL

\* When a job goes on or ends and a guest changes, the job is the one that changed
\* it, by a call that succeeded or failed half way.
LEMMA ChangedByItsJob ==
    ASSUME IInv, [Next]_vars, NEW k \in DOMAIN jobs, Steps(k), guest' # guest
    PROVE  /\ May(Head(jobs[k].todo), jobs[k])
           /\ \E o \in After(Head(jobs[k].todo), jobs[k]) : guest' = [guest EXCEPT ![jobs[k].vmid] = o]
<1>1. PICK l \in Keys : Call(l) \/ Failed(l)
  <2>1. ~ (Tamper \/ TakeOver)
    BY DEF Tamper, TakeOver, Steps
  <2>2. ~ (ListTemplates \/ ListVMs \/ Submit \/ Click \/ Commit \/ Restart \/ UNCHANGED vars)
    BY DEF ListTemplates, ListVMs, Submit, Click, Commit, Restart, vars
  <2>3. \A l \in Keys : ~ Refused(l)
    BY DEF Refused
  <2> QED
    BY <2>1, <2>2, <2>3 DEF Next, Pass
<1>2. l = k
  <2>1. jobs' = Drop(l) \/ \E rest : jobs' = [jobs EXCEPT ![l].todo = rest]
    BY <1>1 DEF Call, Failed
  <2> QED
    BY <2>1 DEF Steps, Drop
<1>3. /\ May(Head(jobs[k].todo), jobs[k])
      /\ \E o \in After(Head(jobs[k].todo), jobs[k]) \cup {guest[jobs[k].vmid]} :
            guest' = [guest EXCEPT ![jobs[k].vmid] = o]
  BY <1>1, <1>2 DEF Call, Failed
<1>4. guest = [guest EXCEPT ![jobs[k].vmid] = guest[jobs[k].vmid]]
  BY DEF IInv, TypeOK
<1> QED
  BY <1>3, <1>4

\* A job of a reconciler, which does not look at the tag when its turn comes, still
\* changes a guest only if it is tagged at that moment, or is the clone the job has
\* just made, unless the VMID is astray: no failure or crash leaves a job behind that
\* was planned on a tag and meets a guest without it.
THEOREM KeepToTheirOwn == Spec => ReconcilersKeepToTheirOwn
<1>1. ASSUME IInv, WellInv, [Next]_vars, NEW k \in DOMAIN jobs, Steps(k),
             jobs[k].vmid \notin astray
      PROVE  KeepsToItsOwn(k)
  <2> SUFFICES ASSUME Present(guest, jobs[k].vmid),
                      guest'[jobs[k].vmid] # guest[jobs[k].vmid]
               PROVE  Owned(guest, jobs[k].vmid) \/ Head(jobs[k].todo) = "finish"
    BY DEF KeepsToItsOwn
  <2>1. May(Head(jobs[k].todo), jobs[k])
    BY <1>1, ChangedByItsJob
  <2>2. /\ jobs[k].todo # <<>> /\ jobs[k].todo \in Seq(Fitting(jobs[k].type, jobs[k].arg))
        /\ JobOurs(guest, jobs[k])
    BY <1>1, Parts DEF IInv, TypeOK, JobOK, WellInv, OursAt
  <2>3. /\ Head(jobs[k].todo) = jobs[k].todo[1]
        /\ Head(jobs[k].todo) \in Fitting(jobs[k].type, jobs[k].arg)
    BY <2>2
  <2>4. jobs[k].todo[1] \notin {"new", "clone", "fail"}
    BY <2>1, <2>3, MayNeeds
  <2> QED
    BY <2>2, <2>3, <2>4 DEF JobOurs, Ours
<1>2. IInv /\ HandInv /\ WellInv /\ SteadyInv /\ [Next]_vars =>
        [\A k \in Reconcilers : Steps(k) => KeepsToItsOwn(k) \/ jobs[k].vmid \in astray]_vars
  BY <1>1 DEF Reconcilers
<1> QED
  BY <1>2, Invariance, PTL DEF Spec, ReconcilersKeepToTheirOwn

\* No job of a reconciler removes what the repository declares while that stays as it
\* is, whatever fails, crashes or is listed wrongly, unless the VMID is astray: a
\* deletion was planned of what was not declared, and of no other name or kind.
THEOREM DeclaredStays == Spec => NothingLost
<1>1. ASSUME IInv, HandInv, SteadyInv, [Next]_vars, spent.commit = 0,
             NEW k \in Reconcilers, Steps(k), NEW v, v = jobs[k].vmid, v \notin astray,
             v \in Declared(repo.vms) \cup Declared(repo.templates), Present(guest, v)
      PROVE  Present(guest', v)
  <2> SUFFICES ASSUME guest' # guest
               PROVE  Present(guest', v)
    BY <1>1
  <2>1. k \in DOMAIN jobs /\ k[1] # "web UI"
    BY <1>1 DEF Reconcilers
  <2>2. May(Head(jobs[k].todo), jobs[k])
    BY <1>1, <2>1, ChangedByItsJob
  <2>3. PICK o \in After(Head(jobs[k].todo), jobs[k]) : guest' = [guest EXCEPT ![jobs[k].vmid] = o]
    BY <1>1, <2>1, ChangedByItsJob
  <2>4. jobs[k].todo[1] # "destroy" => Present(guest', v)
    BY <1>1, <2>1, <2>2, <2>3, CallFlags
  <2>5. /\ ActionOK(jobs[k]) /\ jobs[k].todo # <<>> /\ Ordinary(jobs[k])
        /\ k = <<jobs[k].kind, jobs[k].name>>
    BY <1>1, <2>1 DEF IInv, JobOK, KeyOf, HandInv, HandOK
  <2>6. jobs[k].kind # "web UI"
    <3>1. <<jobs[k].kind, jobs[k].name>>[1] = jobs[k].kind
      OBVIOUS
    <3>2. k[1] = jobs[k].kind
      BY <2>5, <3>1, Zenon
    <3> QED
      BY <2>1, <3>2, Zenon
  <2>7. Steady(guest, repo, astray, jobs[k])
    BY <1>1, <2>1 DEF SteadyInv, AllSteady
  <2>8. jobs[k].todo[1] # "destroy"
    BY <1>1, <2>5, <2>6, <2>7, ClonesAreOfVMs DEF ActionOK, Steady
  <2> QED
    BY <2>4, <2>8
<1>2. IInv /\ HandInv /\ WellInv /\ SteadyInv /\ [Next]_vars =>
        [spent.commit = 0 =>
           \A k \in Reconcilers :
              LET v == jobs[k].vmid
              IN  Steps(k) /\ v \in Declared(repo.vms) \cup Declared(repo.templates) =>
                    (Present(guest, v) => Present(guest', v)) \/ v \in astray]_vars
  BY <1>1
<1> QED
  BY <1>2, Invariance, PTL DEF Spec, NothingLost

\* While the repository stays as it is, what a job clones is a template at the time
\* of the call, unless its VMID is astray: a listing that was right stays right in
\* that, through builds that fail half way, crashes and deletions.
THEOREM ClonesWait == Spec => WaitsForTheBuild
<1>1. ASSUME IInv, SteadyInv, spent.commit = 0, NEW k \in DOMAIN jobs,
             jobs[k].arg.from \notin astray
      PROVE  ClonesATemplate(k)
  <2>1. jobs[k].todo # <<>> /\ Steady(guest, repo, astray, jobs[k])
    BY <1>1 DEF IInv, TypeOK, SteadyInv, AllSteady
  <2>2. jobs[k].todo \in Seq(Fitting(jobs[k].type, jobs[k].arg))
    BY <1>1, Parts DEF IInv, JobOK
  <2>3. Head(jobs[k].todo) = jobs[k].todo[1]
    BY <2>1, <2>2
  <2> QED
    BY <1>1, <2>1, <2>3 DEF ClonesATemplate, Steady
<1>2. IInv /\ HandInv /\ WellInv /\ SteadyInv /\ [Next]_vars =>
        [spent.commit = 0 =>
           \A k \in DOMAIN jobs :
              Steps(k) => ClonesATemplate(k) \/ jobs[k].arg.from \in astray]_vars
  BY <1>1
<1> QED
  BY <1>2, Invariance, PTL DEF Spec, WaitsForTheBuild

-----------------------------------------------------------------------------
(* The jobs of the dispatcher are a pool as ActionPool describes it, but   *)
(* for the history, which is DispatcherHistory's subject, and for crashes. *)

PoolKept == IsFiniteSet(Dispatched) /\ Cardinality(Dispatched) <= Slots

PoolStep ==
    \/ Dispatched' = Dispatched
    \/ \E k : /\ k \notin Dispatched /\ Cardinality(Dispatched) < Slots
              /\ Dispatched' = Dispatched \cup {k}
    \/ \E k \in Dispatched : Dispatched' = Dispatched \ {k}
    \/ Restart /\ Dispatched' = {}

\* A submission starts a job when there is room, a call or its failure ends one;
\* the web UI takes no slot.
LEMMA DispatchedSteps ==
    ASSUME [Next]_vars
    PROVE  PoolStep
<1>1. CASE Submit
  <2>1. PICK a \in plan : jobs' = IF Taken(a) THEN Enter(KeyOf(a), a) ELSE jobs
    BY <1>1 DEF Submit
  <2>2. CASE Taken(a)
    <3>1. DOMAIN jobs' = DOMAIN jobs \cup {KeyOf(a)}
      BY <2>1, <2>2 DEF Enter
    <3>2. KeyOf(a) \notin Dispatched /\ Cardinality(Dispatched) < Slots
      BY <2>2 DEF Taken, Dispatched
    <3>3. Dispatched' = Dispatched \/ Dispatched' = Dispatched \cup {KeyOf(a)}
      BY <3>1 DEF Dispatched
    <3> QED
      BY <3>2, <3>3 DEF PoolStep
  <2>3. CASE ~Taken(a)
    BY <2>1, <2>3 DEF PoolStep, Dispatched
  <2> QED
    BY <2>2, <2>3
<1>2. ASSUME NEW k \in Keys, Call(k) \/ Refused(k) \/ Failed(k)
      PROVE  PoolStep
  <2>1. DOMAIN jobs' = DOMAIN jobs \/ DOMAIN jobs' = DOMAIN jobs \ {k}
    BY <1>2 DEF Call, Refused, Failed, Drop
  <2>2. Dispatched' = Dispatched \/ (k \in Dispatched /\ Dispatched' = Dispatched \ {k})
    BY <2>1 DEF Dispatched
  <2> QED
    BY <2>2 DEF PoolStep
<1>3. CASE Click
  <2>1. PICK vm \in repo.vms :
          jobs' = Enter(<<"web UI", vm.name>>,
                        Action("delete", "web UI", vm.name, vm.vmid, <<"find">>, NoArg))
    BY <1>3 DEF Click
  <2>2. DOMAIN jobs' = DOMAIN jobs \cup {<<"web UI", vm.name>>}
    BY <2>1 DEF Enter
  <2> DEFINE new == <<"web UI", vm.name>>
  <2>3. new[1] = "web UI"
    OBVIOUS
  <2> HIDE DEF new
  <2>4. DOMAIN jobs' = DOMAIN jobs \cup {new}
    BY <2>2 DEF new
  <2>5. Dispatched' = Dispatched
    BY <2>3, <2>4 DEF Dispatched
  <2> QED
    BY <2>5 DEF PoolStep
<1>4. CASE Restart
  <2>1. jobs' = <<>> /\ DOMAIN <<>> = {}
    BY <1>4 DEF Restart
  <2>2. Dispatched' = {}
    BY <2>1 DEF Dispatched
  <2> QED
    BY <1>4, <2>2 DEF PoolStep
<1>5. CASE ListTemplates \/ ListVMs \/ Commit \/ Tamper \/ TakeOver \/ UNCHANGED vars
  BY <1>5 DEF ListTemplates, ListVMs, Commit, Tamper, TakeOver, passVars, vars, Dispatched, PoolStep
<1> QED
  BY <1>1, <1>2, <1>3, <1>4, <1>5 DEF Next, Pass

\* There are never more jobs than slots, whatever is listed, clicked or fails, and
\* a step that is not a crash starts one job in a slot that is free or ends one.
THEOREM JobsArePooled == Spec => []PoolKept /\ [][PoolStep]_vars
<1>1. Init => PoolKept
  <2> SUFFICES ASSUME Init PROVE PoolKept
    OBVIOUS
  <2>1. Dispatched = {}
    BY DEF Init, Dispatched
  <2> QED
    BY <2>1, FS_EmptySet, GuestsAssumption DEF PoolKept
<1>2. ASSUME PoolKept, PoolStep PROVE PoolKept'
  <2> DEFINE D == Dispatched
             E == Dispatched'
  <2>1. IsFiniteSet(D) /\ Cardinality(D) \in Nat /\ Cardinality(D) <= Slots /\ Slots \in Nat
    BY <1>2, FS_CardinalityType, GuestsAssumption DEF PoolKept
  <2>2. \/ E = D \/ E = {}
        \/ \E k : k \notin D /\ Cardinality(D) < Slots /\ E = D \cup {k}
        \/ \E k \in D : E = D \ {k}
    BY <1>2 DEF PoolStep
  <2> HIDE DEF D, E
  <2>3. ASSUME NEW k, k \notin D, Cardinality(D) < Slots, E = D \cup {k}
        PROVE  IsFiniteSet(E) /\ Cardinality(E) <= Slots
    <3>1. IsFiniteSet(E) /\ Cardinality(E) = Cardinality(D) + 1
      BY <2>1, <2>3, FS_AddElement
    <3> QED
      BY <2>1, <2>3, <3>1
  <2>4. ASSUME NEW k \in D, E = D \ {k}
        PROVE  IsFiniteSet(E) /\ Cardinality(E) <= Slots
    <3>1. IsFiniteSet(E) /\ Cardinality(E) = Cardinality(D) - 1
      BY <2>1, <2>4, FS_RemoveElement
    <3> QED
      BY <2>1, <3>1
  <2>5. E = {} => IsFiniteSet(E) /\ Cardinality(E) <= Slots
    BY <2>1, FS_EmptySet
  <2>6. IsFiniteSet(E) /\ Cardinality(E) <= Slots
    BY <2>1, <2>2, <2>3, <2>4, <2>5
  <2> QED
    BY <2>6 DEF PoolKept, E
<1>3. PoolKept /\ [Next]_vars => PoolKept' /\ PoolStep
  BY <1>2, DispatchedSteps
<1> QED
  BY <1>1, <1>3, PTL DEF Spec
=============================================================================
