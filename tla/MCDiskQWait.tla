---------------------------- MODULE MCDiskQWait ----------------------------
(* DiskQWait on small instances: receivers that ask for types of their own,*)
(* for the same type, or for any.                                          *)
EXTENDS DiskQWait, TLC

CONSTANTS s1, s2, r1, r2

OwnTypes == (r1 :> {2}) @@ (r2 :> {-1})
SameType == [r \in {r1, r2} |-> {1}]
AnyType == [r \in {r1} |-> {0}]

(* All but the senders' requests for FLOCK and the open of one receiver.   *)
MostCalls ==
  ({s1} \X (Calls \ {"fcntl"})) \cup ({r1} \X Calls) \cup ({r2} \X (Calls \ {"open"}))
=============================================================================
