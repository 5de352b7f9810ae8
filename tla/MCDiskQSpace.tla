---------------------------- MODULE MCDiskQSpace ----------------------------
(* DiskQSpace on small files.                                              *)
EXTENDS DiskQSpace

CONSTANTS id1, id2, id3, id4

(* The map of the file does not depend on the order in which the headers   *)
(* are read, so one message is as good as another.                         *)
Symmetric == Permutations(Ids)
=============================================================================
