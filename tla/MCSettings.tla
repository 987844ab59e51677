----------------------------- MODULE MCSettings -----------------------------
(* Two pages, two keys that can be generated and one for the environment,   *)
(* and a handful of edits: a first configuration, another endpoint, another *)
(* secret, a Git token, and a form with a required field missing.           *)
EXTENDS Settings

CONSTANTS p1, p2, s1, s2

Typed(p, s, g) == [plain |-> p, secret |-> s, git |-> g]

MCEdit == {Typed(p1, s1, Empty), Typed(p2, Empty, Empty), Typed(Untouched, s2, Empty),
           Typed(Untouched, Empty, s1), Typed(Blank, s1, Empty)}
=============================================================================
