---------------------------- MODULE MCDiskQFile ----------------------------
(***************************************************************************)
(* The control file on small instances, against the abstract queue.        *)
(***************************************************************************)
EXTENDS DiskQRefinement
=============================================================================
