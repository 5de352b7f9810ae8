----------------------------- MODULE DiskQFile -----------------------------
(***************************************************************************)
(* The control file of a DiskQ queue: one queue header and an array of     *)
(* message headers ("slots") that only grows.  The slots are threaded into *)
(* two singly linked lists, the messages on the queue (ds .. de) and the   *)
(* empty slots (es .. ee).  Every operation runs under the queue's file    *)
(* lock (module DiskQWait), so here one operation runs at a time.  A send  *)
(* is one step; a receive or a removal first walks the list with a cursor, *)
(* one slot per step, then unlinks the slot it stopped at.                 *)
(*                                                                         *)
(* The data file is abstracted to the number of bytes in use: a message    *)
(* whose bytes fit is taken to find room.  Module DiskQSpace says when     *)
(* FindSpace does find it.                                                 *)
(***************************************************************************)
EXTENDS Integers, Sequences

CONSTANTS
  Types,      (* message types in use, positive numbers                    *)
  Sizes,      (* message lengths in use                                    *)
  QBytes,     (* d_msg_qbytes, the capacity of the data file               *)
  InitSlots,  (* INIT_MSG_NUM, slots a new control file is made with       *)
  MaxCnt      (* MAX_CNT, after which the message counter starts at 0      *)

ASSUME ConstantsAssumption ==
  /\ Types \subseteq Nat \ {0}
  /\ Sizes \subseteq Nat
  /\ QBytes \in Nat
  /\ InitSlots \in Nat \ {0}
  /\ MaxCnt \in Nat

VARIABLES
  qh,      (* the queue header, struct d_msqid_ds                          *)
  nslots,  (* message headers in the file: (st_size - QHEAD_SZ) / MHEAD_SZ *)
  mh,      (* the message headers, struct d_msghd_ds, by d_msg_id          *)
  scan     (* the cursor of the walk in progress, or NoScan                *)

vars == <<qh, nslots, mh, scan>>

NIL == -1
Slots == 0 .. nslots - 1
Link == Slots \cup {NIL}

MHead(n) ==
  [mtype : Types \cup {0}, alive : {0, 1}, mbytes : Sizes \cup {0},
   uid : 0 .. MaxCnt, nextid : (0 .. n - 1) \cup {NIL}]

NoScan == [kind |-> "none"]

(* A receive looks for a type (0: any), a removal for a slot.              *)
Scans ==
  [kind : {"rcv", "rm"}, key : Nat, before : Link, cur : Link, found : BOOLEAN]

----------------------------------------------------------------------------
(* A new control file: nothing on the queue, all slots empty, in order.    *)
MakeControlFile ==
  /\ qh = [cbytes |-> 0, qnum |-> 0, ds |-> NIL, de |-> NIL,
           es |-> 0, ee |-> InitSlots - 1, tcnt |-> 0]
  /\ nslots = InitSlots
  /\ mh = [i \in 0 .. InitSlots - 1 |->
             [mtype |-> 0, alive |-> 0, mbytes |-> 0, uid |-> 0,
              nextid |-> IF i = InitSlots - 1 THEN NIL ELSE i + 1]]

Init == MakeControlFile /\ scan = NoScan

----------------------------------------------------------------------------
(* d_msgsnd_main, in the order of its writes.                              *)

(* The slot a send uses: the first empty one, else one past the last.      *)
DesId == IF qh.es = NIL THEN qh.qnum ELSE qh.es

(* Mutant: the last message is not linked to the new one.                  *)
LinkedNot(m, last, id) == m

(* First write: the last message's header gets its successor.  With no     *)
(* last message the write lands on the tail of the queue header, which the *)
(* third write replaces.                                                   *)
Linked(m, last, id) ==
  [i \in DOMAIN m |->
     IF i = last THEN [m[i] EXCEPT !.nextid = id] ELSE m[i]]

(* Second write: the new message's own header, at the end of the file when *)
(* the slot is new.                                                        *)
SlotWritten(m, n, id, h) ==
  [i \in 0 .. (IF id < n THEN n ELSE id + 1) - 1 |->
     IF i = id THEN h ELSE m[i]]

NewHead(q, t, s) ==
  [mtype |-> t, alive |-> 1, mbytes |-> s, uid |-> q.tcnt, nextid |-> NIL]

(* Mutant: the unique id does not start again at 0.                        *)
HeadSentNoWrap(q, id, s, nexte) ==
  [cbytes |-> q.cbytes + s,
   qnum   |-> q.qnum + 1,
   ds     |-> IF q.ds = NIL THEN id ELSE q.ds,
   de     |-> id,
   es     |-> IF q.es # NIL /\ q.es # q.ee THEN nexte ELSE NIL,
   ee     |-> IF q.es # NIL /\ q.es = q.ee THEN NIL ELSE q.ee,
   tcnt   |-> q.tcnt + 1]

(* Third write: the queue header.  nexte is the link of the empty slot     *)
(* used, read before the first write.                                      *)
HeadSent(q, id, s, nexte) ==
  [cbytes |-> q.cbytes + s,
   qnum   |-> q.qnum + 1,
   ds     |-> IF q.ds = NIL THEN id ELSE q.ds,
   de     |-> id,
   es     |-> IF q.es # NIL /\ q.es # q.ee THEN nexte ELSE NIL,
   ee     |-> IF q.es # NIL /\ q.es = q.ee THEN NIL ELSE q.ee,
   tcnt   |-> IF q.tcnt >= MaxCnt THEN 0 ELSE q.tcnt + 1]

NextEmpty == IF qh.es = NIL THEN NIL ELSE mh[qh.es].nextid

Send(t, s) ==
  /\ scan = NoScan
  /\ qh.cbytes + s <= QBytes                      \* else EAGAIN
  /\ LET id == DesId IN
       /\ mh' = SlotWritten(Linked(mh, qh.de, id), nslots, id,
                            NewHead(qh, t, s))
       /\ nslots' = IF id < nslots THEN nslots ELSE id + 1
       /\ qh' = HeadSent(qh, id, s, NextEmpty)
  /\ UNCHANGED scan

----------------------------------------------------------------------------
(* The walk of d_msgrcv and msg_rm: from ds along nextid.                  *)

BeginRecv(t) ==
  /\ scan = NoScan
  /\ qh.ds # NIL
  /\ scan' = [kind |-> "rcv", key |-> t, before |-> NIL, cur |-> qh.ds,
              found |-> FALSE]
  /\ UNCHANGED <<qh, nslots, mh>>

(* The caller names the slot and the unique id it saw in a listing.        *)
BeginRm(i, u) ==
  /\ scan = NoScan
  /\ i \in Slots
  /\ mh[i].uid = u /\ mh[i].alive = 1             \* else EINVAL
  /\ qh.ds # NIL
  /\ scan' = [kind |-> "rm", key |-> i, before |-> NIL, cur |-> qh.ds,
              found |-> FALSE]
  /\ UNCHANGED <<qh, nslots, mh>>

(* Mutant: a receiver takes any type up to the one it asks for.            *)
MatchesUpTo ==
  IF scan.kind = "rm" THEN scan.cur = scan.key
  ELSE scan.key = 0 \/ mh[scan.cur].mtype <= scan.key

Matches ==
  IF scan.kind = "rm" THEN scan.cur = scan.key
  ELSE scan.key = 0 \/ mh[scan.cur].mtype = scan.key

ScanNext ==
  /\ scan # NoScan /\ ~scan.found /\ scan.cur # NIL
  /\ ~Matches
  /\ scan' = [scan EXCEPT !.before = scan.cur, !.cur = mh[scan.cur].nextid]
  /\ UNCHANGED <<qh, nslots, mh>>

ScanFound ==
  /\ scan # NoScan /\ ~scan.found /\ scan.cur # NIL
  /\ Matches
  /\ scan' = [scan EXCEPT !.found = TRUE]
  /\ UNCHANGED <<qh, nslots, mh>>

(* A receive that reached the end waits or returns ENOMSG; the queue stays *)
(* as it is.  A removal does not test for the end: it unlinks the slot it  *)
(* was given, behind the last slot it walked.                              *)
ScanEnd ==
  /\ scan # NoScan /\ ~scan.found /\ scan.cur = NIL
  /\ scan' = IF scan.kind = "rcv" THEN NoScan
             ELSE [scan EXCEPT !.cur = scan.key, !.found = TRUE]
  /\ UNCHANGED <<qh, nslots, mh>>

(* read_data refuses a message longer than the buffer (E2BIG).             *)
TooBig ==
  /\ scan # NoScan /\ scan.found /\ scan.kind = "rcv"
  /\ scan' = NoScan
  /\ UNCHANGED <<qh, nslots, mh>>

(* Mutant: the slot taken is not put behind the last empty one.            *)
SlotsTakenUnlinked(m, q, before, id) ==
  [i \in DOMAIN m |->
     IF i = id THEN [m[i] EXCEPT !.alive = 0, !.nextid = NIL]
     ELSE IF i = before THEN [m[i] EXCEPT !.nextid = m[id].nextid]
     ELSE m[i]]

(* First write of read_data and msg_rm: all message headers, with slot id  *)
(* unlinked from the messages and appended to the empty slots.             *)
SlotsTaken(m, q, before, id) ==
  [i \in DOMAIN m |->
     IF i = id THEN [m[i] EXCEPT !.alive = 0, !.nextid = NIL]
     ELSE IF i = q.ee THEN [m[i] EXCEPT !.nextid = id]
     ELSE IF i = before THEN [m[i] EXCEPT !.nextid = m[id].nextid]
     ELSE m[i]]

(* Mutant: the bytes of the message stay accounted for.                    *)
HeadTakenKeepsBytes(q, before, id, h) ==
  [q EXCEPT
     !.qnum   = @ - 1,
     !.es     = IF @ = NIL THEN id ELSE @,
     !.ee     = id,
     !.ds     = IF q.ds = q.de THEN NIL
                ELSE IF before = NIL THEN h.nextid ELSE @,
     !.de     = IF q.ds = q.de THEN NIL
                ELSE IF h.nextid = NIL THEN before ELSE @]

(* Second write: the queue header; h is the slot's header as it was read.  *)
HeadTaken(q, before, id, h) ==
  [q EXCEPT
     !.cbytes = @ - h.mbytes,
     !.qnum   = @ - 1,
     !.es     = IF @ = NIL THEN id ELSE @,
     !.ee     = id,
     !.ds     = IF q.ds = q.de THEN NIL
                ELSE IF before = NIL THEN h.nextid ELSE @,
     !.de     = IF q.ds = q.de THEN NIL
                ELSE IF h.nextid = NIL THEN before ELSE @]

Take ==
  /\ scan # NoScan /\ scan.found
  /\ mh' = SlotsTaken(mh, qh, scan.before, scan.cur)
  /\ qh' = HeadTaken(qh, scan.before, scan.cur, mh[scan.cur])
  /\ scan' = NoScan
  /\ UNCHANGED nslots

Next ==
  \/ \E t \in Types, s \in Sizes : Send(t, s)
  \/ \E t \in Types \cup {0} : BeginRecv(t)
  \/ \E i \in Slots : BeginRm(i, mh[i].uid)
  \/ ScanNext \/ ScanFound \/ ScanEnd \/ TooBig \/ Take

Spec == Init /\ [][Next]_vars

----------------------------------------------------------------------------
(* What a list of slots says.                                              *)
(* What n steps from first along nextid visit.                             *)
Walk(m, first, n) ==
  LET visited[k \in 0 .. n] ==
        IF k = 0 THEN IF first = NIL THEN <<>> ELSE <<first>>
        ELSE LET p == visited[k - 1] IN
             IF p = <<>> \/ m[p[Len(p)]].nextid = NIL THEN p
             ELSE Append(p, m[p[Len(p)]].nextid)
  IN visited[n]

(* The messages of the slots p, as a receiver sees them.                   *)
MsgsOf(p) ==
  [k \in 1 .. Len(p) |->
     [mtype |-> mh[p[k]].mtype, mbytes |-> mh[p[k]].mbytes, uid |-> mh[p[k]].uid]]

----------------------------------------------------------------------------
(* Types of the variables.                                                 *)
TypeOK ==
  /\ nslots \in Nat
  /\ qh \in [cbytes : Int, qnum : Int, ds : Link, de : Link,
             es : Link, ee : Link, tcnt : 0 .. MaxCnt]
  /\ mh \in [Slots -> MHead(nslots)]
  /\ scan \in {NoScan} \cup Scans

(* The slots p, in this order, are the list that starts at first and ends  *)
(* at last.                                                                *)
IsList(p, first, last) ==
  IF p = <<>> THEN first = NIL /\ last = NIL
  ELSE /\ first = p[1]
       /\ last = p[Len(p)]
       /\ \A k \in 1 .. Len(p) :
            mh[p[k]].nextid = IF k = Len(p) THEN NIL ELSE p[k + 1]

Distinct(p) == \A j, k \in DOMAIN p : p[j] = p[k] => j = k

OnList(i, p) == \E k \in DOMAIN p : p[k] = i

SlotSeqs == UNION {[1 .. n -> Slots] : n \in 0 .. nslots}

(* live and free thread every slot of the file exactly once, and the       *)
(* header's counter and the slots' alive flags agree with them.            *)
LiveList(live) ==
  /\ IsList(live, qh.ds, qh.de)
  /\ Distinct(live)
  /\ qh.qnum = Len(live)
  /\ \A k \in DOMAIN live : mh[live[k]].alive = 1

FreeList(free, live) ==
  /\ IsList(free, qh.es, qh.ee)
  /\ Distinct(free)
  /\ \A k \in DOMAIN free : mh[free[k]].alive = 0
  /\ Len(live) + Len(free) = nslots
  /\ \A i \in Slots : OnList(i, live) \/ OnList(i, free)

(* The cursor stands on the list with its predecessor behind it, or is     *)
(* past the end; nothing it passed was what it looks for, and a removal    *)
(* still has its slot in front of it.                                      *)
ScanOn(live) ==
  scan # NoScan =>
    \E k \in 1 .. Len(live) + 1 :
      /\ scan.cur = IF k > Len(live) THEN NIL ELSE live[k]
      /\ scan.before = IF k = 1 THEN NIL ELSE live[k - 1]
      /\ scan.found => k <= Len(live) /\ Matches
      /\ scan.kind = "rcv" =>
           \A j \in 1 .. k - 1 : scan.key # 0 /\ mh[live[j]].mtype # scan.key
      /\ scan.kind = "rm" => \E j \in k .. Len(live) : live[j] = scan.key

(* No slot is ever lost, shared or threaded twice: the two lists are       *)
(* proper and disjoint, together they are the whole file, and qnum counts  *)
(* the first (d_msgsnd_main's choice of slot qnum for a new one, and       *)
(* read_data's relinking, both depend on it).                              *)
SlotsConserved ==
  \E live \in SlotSeqs :
    /\ LiveList(live)
    /\ \E free \in SlotSeqs : FreeList(free, live)
    /\ ScanOn(live)

=============================================================================
