---------------------------- MODULE MCDispatcher ----------------------------
(* Three resources compete for two slots.  The first is acted upon twice,  *)
(* so that its second action meets what is left of its first.              *)
EXTENDS DispatcherHistory

CONSTANTS k1, k2, k3

MCKey == {k1, k2, k3}
MCMaxStarts == [k \in MCKey |-> IF k = k1 THEN 2 ELSE 1]
=============================================================================
