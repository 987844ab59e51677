------------------------------ MODULE MCStreams ------------------------------
(* A tab that reads, one that need not, and channels of two snapshots, which *)
(* the loop overruns.                                                        *)
EXTENDS Streams

CONSTANTS r1, r2

MCReader == {r1, r2}
MCStalled == {r2}
=============================================================================
