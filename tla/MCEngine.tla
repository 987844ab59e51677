------------------------------ MODULE MCEngine ------------------------------
(* Two resources, one to create and one to delete, and a pool of one slot: *)
(* the first in the plan keeps the second out of the pool.                 *)
EXTENDS Engine

CONSTANTS k1, k2

MCRank == [k \in {k1, k2} |-> IF k = k1 THEN 1 ELSE 2]
MCFirstWorld == [k \in {k1, k2} |-> IF k = k1 THEN "missing" ELSE "orphan"]

On == [auto |-> TRUE, dry |-> FALSE, prune |-> TRUE]
Off == [auto |-> FALSE, dry |-> FALSE, prune |-> TRUE]
Dry == [auto |-> TRUE, dry |-> TRUE, prune |-> TRUE]
Unpruned == [auto |-> TRUE, dry |-> FALSE, prune |-> FALSE]

FourOptions == {On, Off, Dry, Unpruned}
OnlyOn == {On}
=============================================================================
