---------------------------- MODULE MCLogBuffer -----------------------------
(* Two goroutines, a page that reads and one that need not, and a ring and  *)
(* channels of two.                                                         *)
EXTENDS LogBuffer

CONSTANTS p1, p2

MCPage == {p1, p2}
MCStalled == {p2}
=============================================================================
