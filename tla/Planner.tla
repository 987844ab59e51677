------------------------------ MODULE Planner -------------------------------
(***************************************************************************)
(* What the template and the guest reconciler plan for a repository and an *)
(* observed cluster: pure definitions, the same for the daemon and for the *)
(* plan command.                                                           *)
(*                                                                         *)
(* The cluster is a function g from VMIDs to guests: Proxmox has one guest *)
(* for a VMID.  A manifest has as many fields as the properties tell       *)
(* apart: the configuration is a function of Field, the image of a VM is   *)
(* there or not, its user-data is a value.  VMIDs and names are unique     *)
(* among the manifests of a kind; a VMID may be declared as both a         *)
(* VirtualMachine and a Template, and under another name later.            *)
(*                                                                         *)
(* A plan is a set: which action meets a full pool first is the subject    *)
(* of Engine.  The apply function of an action is the list of the calls    *)
(* it makes of the Proxmox API, "todo", with their arguments, "arg".       *)
(***************************************************************************)
EXTENDS Naturals, Sequences

CONSTANTS
    VMID,
    Absent,     \* no guest has this VMID
    Field,      \* configuration fields that are corrected when they drift
    Always,     \* those an update writes in any case: cores, memory, CPU type
    Counted,    \* those whose pending change is noticed: cores and memory
    Unset,      \* a field the manifest does not declare
    None        \* no template to clone, no user-data, no seed

ASSUME PlannerAssumption == Counted \subseteq Always /\ Always \subseteq Field

Present(g, v) == g[v] # Absent
IsTemplate(g, v) == Present(g, v) /\ g[v].template
IsVM(g, v) == Present(g, v) /\ ~g[v].template
Owned(g, v) == Present(g, v) /\ g[v].owned

Declared(manifests) == {m.vmid : m \in manifests}

Action(type, kind, name, vmid, todo, arg) ==
    [type |-> type, kind |-> kind, name |-> name, vmid |-> vmid,
     informational |-> FALSE, todo |-> todo, arg |-> arg]

NoArg == [none |-> None]
If(condition, calls) == IF condition THEN calls ELSE <<>>

-----------------------------------------------------------------------------
(* The calls of CreateGuest, in order, for a VM and for a template. *)

CreateCalls(vm) ==
    IF vm.from = None
    THEN <<"new">> \o If(vm.image, <<"image", "init">>) \o
         If(vm.data # None, <<"seed">>) \o If(vm.state = "running", <<"start">>)
    ELSE <<"clone", "finish">> \o
         If(vm.data # None, <<"seed">>) \o If(vm.state = "running", <<"start">>)

\* A template always has an image, which brings no fields of its own with it, and is
\* never started.
BuildCalls == <<"new", "image", "convert">>

RebootCalls == <<"stop", "start">>

-----------------------------------------------------------------------------
(* The template reconciler. *)

BuildTemplates(want, g) ==
    {Action("create", "Template", t.name, t.vmid, BuildCalls, t) :
        t \in {t \in want.templates : ~Present(g, t.vmid)}}

\* An owned VM where a template is declared is taken for an interrupted build.
ConvertBuilt(want, g) ==
    {Action("update", "Template", t.name, t.vmid, <<"convert">>, NoArg) :
        t \in {t \in want.templates : IsVM(g, t.vmid) /\ Owned(g, t.vmid)}}

DeleteTemplates(want, g) ==
    {Action("delete", "Template", g[v].name, v, <<"find">>, NoArg) :
        v \in {v \in VMID : IsTemplate(g, v) /\ Owned(g, v)} \ Declared(want.templates)}

TemplatePlan(want, g) ==
    BuildTemplates(want, g) \cup ConvertBuilt(want, g) \cup DeleteTemplates(want, g)

-----------------------------------------------------------------------------
(* The guest reconciler: creates. *)

Vacant(want, g) == {vm \in want.vms : ~IsVM(g, vm.vmid)}

\* Mutant: a clone does not wait for its template.
NeverDeferred(want, g, vm) == FALSE

\* A clone waits for its template to be built and converted.
Deferred(want, g, vm) ==
    \E t \in want.templates : t.name = vm.from /\ ~IsTemplate(g, t.vmid)

\* desiredSpec: a clone of a template that is not declared fails when applied.
Unresolved(want, vm) ==
    vm.from # None /\ \A t \in want.templates : t.name # vm.from

Resolved(want, vm) ==
    [vm EXCEPT !.from =
        IF Unresolved(want, vm) \/ vm.from = None THEN None
        ELSE (CHOOSE t \in want.templates : t.name = vm.from).vmid]

CreateVMs(want, g) ==
    {Action("create", "VirtualMachine", vm.name, vm.vmid,
            IF Unresolved(want, vm) THEN <<"fail">> ELSE CreateCalls(vm),
            Resolved(want, vm)) :
        vm \in {vm \in Vacant(want, g) : ~Deferred(want, g, vm)}}

-----------------------------------------------------------------------------
(* The guest reconciler: drift, then user-data, then a pending reboot. *)

\* Mutant: every VM that is there is looked at, whoever made it.
EveryVM(want, g) == {vm \in want.vms : IsVM(g, vm.vmid)}

\* Only owned VMs are looked at: the others are left alone.
Managed(want, g) == {vm \in want.vms : IsVM(g, vm.vmid) /\ Owned(g, vm.vmid)}

\* Mutant: a field the manifest leaves out counts as different.
DriftedUndeclared(vm, o) == {f \in Field : vm.conf[f] # o.conf[f]}

Drifted(vm, o) == {f \in Field : vm.conf[f] # Unset /\ vm.conf[f] # o.conf[f]}
WantRunning(vm, o) == IF vm.state = Unset THEN o.running ELSE vm.state = "running"
HasDrift(vm, o) == Drifted(vm, o) # {} \/ WantRunning(vm, o) # o.running

\* What is not declared is written back as it was observed.
GuestUpdate(vm, o) ==
    [conf |-> [f \in Always \cup Drifted(vm, o) |->
                 IF f \in Drifted(vm, o) THEN vm.conf[f] ELSE o.conf[f]],
     running |-> WantRunning(vm, o)]

SeedStale(vm, o) == vm.data # None /\ vm.data # o.seed
RebootPending(o) == o.running /\ \E f \in Counted : o.conf[f] # o.live[f]

Update(vm, todo, arg) == Action("update", "VirtualMachine", vm.name, vm.vmid, todo, arg)
Report(vm) == [Update(vm, <<>>, NoArg) EXCEPT !.informational = TRUE]

UpdateOf(want, vm, o) ==
    CASE HasDrift(vm, o) -> {Update(vm, <<"find">>, GuestUpdate(vm, o))}
      [] ~HasDrift(vm, o) /\ SeedStale(vm, o) ->
            IF o.running /\ ~vm.reboot THEN {Report(vm)}
            ELSE IF Unresolved(want, vm) THEN {Update(vm, <<"fail">>, NoArg)}
            ELSE {Update(vm, <<"seed">> \o If(o.running, RebootCalls), vm)}
      [] ~HasDrift(vm, o) /\ ~SeedStale(vm, o) /\ RebootPending(o) ->
            IF vm.reboot THEN {Update(vm, RebootCalls, NoArg)} ELSE {Report(vm)}
      [] OTHER -> {}

UpdateVMs(want, g) == UNION {UpdateOf(want, vm, g[vm.vmid]) : vm \in Managed(want, g)}

-----------------------------------------------------------------------------
(* The guest reconciler: deletes. *)

\* Mutant: a template that is still being built is taken for a stray VM.
StrayOrBuilding(want, g) ==
    {v \in VMID : IsVM(g, v) /\ Owned(g, v)} \ Declared(want.vms)

\* Owned VMs that nothing declares, not even as a template still to be converted.
Stray(want, g) ==
    {v \in VMID : IsVM(g, v) /\ Owned(g, v)}
        \ (Declared(want.vms) \cup Declared(want.templates))

DeleteVMs(want, g) ==
    {Action("delete", "VirtualMachine", g[v].name, v, <<"find">>, NoArg) : v \in Stray(want, g)}

GuestPlan(want, g) == CreateVMs(want, g) \cup UpdateVMs(want, g) \cup DeleteVMs(want, g)

\* The reconcilers in the order of newEngine, on one listing.
FullPlan(want, g) == TemplatePlan(want, g) \cup GuestPlan(want, g)
=============================================================================
