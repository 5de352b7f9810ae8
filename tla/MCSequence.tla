----------------------------- MODULE MCSequence -----------------------------
(* Sequence on small instances.                                            *)
EXTENDS Sequence

CONSTANTS r1, r2, r3, i1
=============================================================================
