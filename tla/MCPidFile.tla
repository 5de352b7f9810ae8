----------------------------- MODULE MCPidFile -----------------------------
(* PidFile on small instances.                                             *)
EXTENDS PidFile, TLC

CONSTANTS s1, s2, s3

Symmetric == Permutations(Starters)
=============================================================================
