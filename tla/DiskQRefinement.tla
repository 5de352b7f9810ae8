--------------------------- MODULE DiskQRefinement --------------------------
(***************************************************************************)
(* The control file as a queue: the list of messages as a walk finds it,   *)
(* and through it the abstract queue the file stands for (MsgQueue).       *)
(***************************************************************************)
EXTENDS DiskQSelect

(* The messages on the queue; nslots steps are enough.                     *)
Live == Walk(mh, qh.ds, nslots)

MQ == INSTANCE MsgQueue WITH queue <- MsgsOf(Live), tcnt <- qh.tcnt

(* The pointer surgery on the two lists implements the abstract queue: no  *)
(* send, receive or removal loses, duplicates, alters or reorders another  *)
(* message, and the bytes on the queue never exceed its capacity.          *)
ImplementsMsgQueue == MQ!ASpec

(* The header's byte count is that of the messages on the list, which is   *)
(* what the capacity test of the next send relies on.                      *)
BytesAccounted == qh.cbytes = MQ!BytesOf(MsgsOf(Live))

(* The slot being unlinked is the first on the list of the type asked for, *)
(* or the one a removal was given.                                         *)
TakesOldest ==
  LET k == CHOOSE j \in 1 .. Len(Live) : Live[j] = scan.cur IN
  IF scan.kind = "rm" THEN scan.cur = scan.key
  ELSE /\ scan.key \in {0, mh[scan.cur].mtype}
       /\ \A j \in 1 .. k - 1 : scan.key # 0 /\ mh[Live[j]].mtype # scan.key

(* A completed receive returns the oldest message its caller asked for, a  *)
(* completed removal the message with the unique id the caller had seen.   *)
OldestAskedFor == [][Take => TakesOldest]_vars

=============================================================================
