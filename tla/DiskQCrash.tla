----------------------------- MODULE DiskQCrash -----------------------------
(***************************************************************************)
(* The control file again, one write at a time, with processes that may be *)
(* killed between two writes (signals are blocked there, SIGKILL is not).  *)
(* The file lock dies with its owner, so the next operation starts from    *)
(* whatever is on disk.  Operators of DiskQFile give the effect of each    *)
(* write; a header or an array of headers is one write call and lands      *)
(* whole.                                                                  *)
(***************************************************************************)
EXTENDS DiskQFile

CONSTANTS
  Keys,      (* the types receivers ask for (0: any); one that asks for a  *)
             (* type follows the link that a killed sender left behind     *)
  CrashAt    (* the writes a process may be killed after: "link" and       *)
             (* "slot" of a send, "take" of a receive                      *)

VARIABLE
  op         (* the writes still to come of the operation in progress      *)

cvars == <<qh, nslots, mh, scan, op>>

NoOp == [kind |-> "none"]

CInit == Init /\ op = NoOp

Idle == op = NoOp

(* Mutant: the queue header is written first.                              *)
SendLinkHeadFirst(t, s) ==
  /\ Idle /\ scan = NoScan
  /\ qh.cbytes + s <= QBytes
  /\ mh' = Linked(mh, qh.de, DesId)
  /\ qh' = HeadSent(qh, DesId, s, NextEmpty)
  /\ op' = [kind |-> "snd", id |-> DesId, slot |-> <<NewHead(qh, t, s)>>, head |-> qh']
  /\ UNCHANGED <<nslots, scan>>

(* d_msgsnd_main up to its first write to the control file.  Without a     *)
(* last message that write hits the low bytes of the header's tcnt, a      *)
(* double: its lowest bits are lost until the header is written.           *)
SendLink(t, s) ==
  /\ Idle /\ scan = NoScan
  /\ qh.cbytes + s <= QBytes
  /\ mh' = Linked(mh, qh.de, DesId)
  /\ qh' \in IF qh.de = NIL THEN {[qh EXCEPT !.tcnt = c] : c \in 0 .. qh.tcnt}
             ELSE {qh}
  /\ op' = [kind |-> "snd", id |-> DesId, slot |-> <<NewHead(qh, t, s)>>,
            head |-> HeadSent(qh, DesId, s, NextEmpty)]
  /\ UNCHANGED <<nslots, scan>>

SendSlot ==
  /\ op.kind = "snd" /\ op.slot # <<>>
  /\ mh' = SlotWritten(mh, nslots, op.id, op.slot[1])
  /\ nslots' = IF op.id < nslots THEN nslots ELSE op.id + 1
  /\ op' = [op EXCEPT !.slot = <<>>]
  /\ UNCHANGED <<qh, scan>>

SendHead ==
  /\ op.kind = "snd" /\ op.slot = <<>>
  /\ qh' = op.head
  /\ op' = NoOp
  /\ UNCHANGED <<nslots, mh, scan>>

TakeSlots ==
  /\ Idle /\ scan # NoScan /\ scan.found
  /\ mh' = SlotsTaken(mh, qh, scan.before, scan.cur)
  /\ op' = [kind |-> "rcv",
            head |-> HeadTaken(qh, scan.before, scan.cur, mh[scan.cur])]
  /\ UNCHANGED <<qh, nslots, scan>>

TakeHead ==
  /\ op.kind = "rcv"
  /\ qh' = op.head
  /\ op' = NoOp /\ scan' = NoScan
  /\ UNCHANGED <<nslots, mh>>

(* A kill after the last write of an operation, or during a walk, leaves   *)
(* no trace and is left out.                                               *)
LastWrite ==
  CASE op.kind = "snd" /\ op.slot # <<>> -> "link"
    [] op.kind = "snd" /\ op.slot = <<>> -> "slot"
    [] op.kind = "rcv" -> "take"
    [] OTHER -> "head"

Crash ==
  /\ LastWrite \in CrashAt
  /\ op' = NoOp /\ scan' = NoScan
  /\ UNCHANGED <<qh, nslots, mh>>

Search ==
  /\ Idle
  /\ (\E t \in Keys : BeginRecv(t)) \/ ScanNext \/ ScanFound \/ ScanEnd
  /\ UNCHANGED op

CNext ==
  \/ \E t \in Types, s \in Sizes : SendLink(t, s)
  \/ SendSlot \/ SendHead
  \/ Search
  \/ TakeSlots \/ TakeHead
  \/ Crash

CSpec == CInit /\ [][CNext]_cvars

----------------------------------------------------------------------------
(* The committed messages: what a walk from ds that stops at de visits;    *)
(* once a receive has written the slots its message is off the queue.      *)
CommittedHead == IF op.kind = "rcv" THEN op.head ELSE qh
Committed ==
  Walk(Linked(mh, CommittedHead.de, NIL), CommittedHead.ds, nslots)

Queue == INSTANCE MsgQueue WITH queue <- MsgsOf(Committed), tcnt <- qh.tcnt

(* Where senders are killed after the first of their three writes (CrashAt *)
(* = {"link"}) and receives are of any type, the committed messages stay as*)
(* they were: only the last write of a send adds one, at the end, and only *)
(* a receive takes one, the one it has found, which is the oldest when it  *)
(* asks for any.  A kill after the second write is not covered; what it    *)
(* costs the header's counts: README, "Where code and comments part".      *)
KilledSendLeavesNoTrace ==
  [][LET msgs == MsgsOf(Committed) IN
       \/ MsgsOf(Committed)' = msgs
       \/ /\ SendHead
          /\ Len(Committed') = Len(msgs) + 1
          /\ SubSeq(MsgsOf(Committed)', 1, Len(msgs)) = msgs
       \/ /\ TakeSlots
          /\ \E k \in 1 .. Len(msgs) :
               /\ Committed[k] = scan.cur
               /\ scan.key = 0 => k = 1
               /\ MsgsOf(Committed)' = Queue!Without(msgs, k)]_cvars

(* Between operations qnum is the number of messages on the queue and      *)
(* cbytes their bytes (the field comments of struct d_msqid_ds).           *)
HeaderCountsMessages ==
  Idle => /\ qh.qnum = Len(Committed)
          /\ qh.cbytes = Queue!BytesOf(MsgsOf(Committed))

=============================================================================
