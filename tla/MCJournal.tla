----------------------------- MODULE MCJournal -----------------------------
(* Journal on small instances.                                             *)
EXTENDS Journal

CONSTANTS w1, w2, r1, i1
=============================================================================
