------------------------------ MODULE MCGuests ------------------------------
(* One template and one VM cloned from it, on VMIDs 90 and 10.             *)
EXTENDS Guests

CONSTANTS tpl, web, other, Seed1, Seed2

MCName == {tpl, web, other}
MCData == {Seed1, Seed2}

\* Field "cores" is always written and counted; "user" is a cloud-init scalar,
\* which a manifest with user-data cannot have.
Fields(cores, user) == [f \in {"cores", "user"} |-> IF f = "cores" THEN cores ELSE user]

VM(name, cores, user, state, data, reboot) ==
    [name |-> name, vmid |-> 10, from |-> tpl, image |-> FALSE,
     conf |-> Fields(cores, user), state |-> state, data |-> data, reboot |-> reboot]
Template == [name |-> tpl, vmid |-> 90, conf |-> Fields(1, Unset)]

Cloned == [templates |-> {Template}, vms |-> {VM(web, 1, 1, "running", None, FALSE)}]
Seeded == [templates |-> {Template}, vms |-> {[VM(web, 2, Unset, Unset, Seed2, TRUE) EXCEPT
                                                 !.from = None, !.image = TRUE]}]
Orphaned == [templates |-> {}, vms |-> {VM(other, 1, 2, "stopped", None, FALSE)}]
Dropped == [templates |-> {}, vms |-> {}]

\* An empty cluster; one where somebody else has a VM at the VMID of web; one
\* where web was built and runs from an older commit.
NoGuests == [v \in {10, 90} |-> Absent]
Running(name, owned, cores, seed) ==
    [name |-> name, owned |-> owned, template |-> FALSE, running |-> TRUE, conf |-> Fields(cores, 1),
     live |-> Fields(cores, 1), seed |-> seed, read |-> seed, disk |-> TRUE]
Foreign == [NoGuests EXCEPT ![10] = Running(other, FALSE, 2, None)]
Built == [NoGuests EXCEPT
            ![10] = Running(web, TRUE, 2, Seed1),
            ![90] = [Running(tpl, TRUE, 1, None) EXCEPT !.template = TRUE, !.running = FALSE]]

AllCommits == {Cloned, Seeded, Orphaned, Dropped}
JustCloned == {Cloned}

MCStrangers == {Foreign[10]}

AllClusters == {NoGuests, Foreign, Built}
JustNoGuests == {NoGuests}
JustForeign == {Foreign}
=============================================================================
