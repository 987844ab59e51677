----------------------------- MODULE MCAccounts -----------------------------
(* Three handlers, which is what it takes for two setups and a login, and   *)
(* two names.                                                               *)
EXTENDS Accounts, TLC

CONSTANTS r1, r2, r3, ann, bob

MCRequest == {r1, r2, r3}
MCName == {ann, bob}
Alike == Permutations(MCRequest) \cup Permutations(MCName)
=============================================================================
