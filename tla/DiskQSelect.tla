----------------------------- MODULE DiskQSelect ----------------------------
(***************************************************************************)
(* How d_msgrcv chooses a message when msgtyp is negative, on the lists of *)
(* DiskQFile: one walk over the message headers for the type to take, a    *)
(* second for the first message of that type, which read_data then takes.  *)
(* Both walks count up to the number of slots of the file, not the length  *)
(* of the list, and follow nextid without testing for its end.             *)
(***************************************************************************)
EXTENDS DiskQFile

CONSTANT
  Garbage   (* what a read in front of the array of headers may give       *)

ASSUME SelectAssumption == Garbage \subseteq Int /\ Garbage # {}

VARIABLE
  sel       (* the selection in progress, or NoSel                         *)

svars == <<qh, nslots, mh, scan, sel>>

NoSel == [phase |-> "none"]

SInit == Init /\ sel = NoSel

(* The queue is locked and its headers are read.  The first walk starts    *)
(* with the type of the first message, in the place of the caller's.       *)
BeginSelect(bound) ==
  /\ scan = NoScan /\ sel = NoSel
  /\ qh.ds # NIL
  /\ sel' = [phase |-> "type", bound |-> bound, cnt |-> nslots, ix |-> 1,
             msgtyp |-> mh[qh.ds].mtype, next |-> mh[qh.ds].nextid, before |-> NIL]
  /\ UNCHANGED vars

(* Mutant: the walk stays where no smaller type follows.                   *)
SmallerTypeStays ==
  /\ sel.phase = "type" /\ sel.ix < sel.cnt /\ sel.next # NIL
  /\ sel' = IF mh[sel.next].mtype < sel.msgtyp
            THEN [sel EXCEPT !.msgtyp = mh[sel.next].mtype,
                             !.next = mh[sel.next].nextid, !.ix = @ + 1]
            ELSE sel
  /\ UNCHANGED vars

(* It advances only over a message of a smaller type.                      *)
SmallerType ==
  /\ sel.phase = "type" /\ sel.ix < sel.cnt /\ sel.next # NIL
  /\ sel' = IF mh[sel.next].mtype < sel.msgtyp
            THEN [sel EXCEPT !.msgtyp = mh[sel.next].mtype,
                             !.next = mh[sel.next].nextid, !.ix = @ + 1]
            ELSE [sel EXCEPT !.ix = @ + 1]
  /\ UNCHANGED vars

(* Past the end of the list it reads in front of the array; a small value  *)
(* there sends it anywhere.                                                *)
OutsideType ==
  /\ sel.phase = "type" /\ sel.ix < sel.cnt /\ sel.next = NIL
  /\ \E g \in Garbage :
       sel' = IF g < sel.msgtyp THEN [sel EXCEPT !.phase = "lost"]
              ELSE [sel EXCEPT !.ix = @ + 1]
  /\ UNCHANGED vars

StartMessage ==
  /\ sel.phase = "type" /\ sel.ix = sel.cnt
  /\ sel' = [sel EXCEPT !.phase = "message", !.ix = 0, !.next = qh.ds]
  /\ UNCHANGED vars

(* Mutant: the predecessor is not remembered.                              *)
WalkMessageForgets ==
  /\ sel.phase = "message" /\ sel.ix < sel.cnt /\ sel.next # NIL
  /\ mh[sel.next].mtype # sel.msgtyp
  /\ sel' = [sel EXCEPT !.next = mh[sel.next].nextid, !.ix = @ + 1]
  /\ UNCHANGED vars

(* The second walk.                                                        *)
WalkMessage ==
  /\ sel.phase = "message" /\ sel.ix < sel.cnt /\ sel.next # NIL
  /\ mh[sel.next].mtype # sel.msgtyp
  /\ sel' = [sel EXCEPT !.before = sel.next, !.next = mh[sel.next].nextid, !.ix = @ + 1]
  /\ UNCHANGED vars

(* The message read_data is called with (Take, or TooBig).                 *)
Choose ==
  /\ sel.phase = "message" /\ sel.ix < sel.cnt /\ sel.next # NIL
  /\ mh[sel.next].mtype = sel.msgtyp
  /\ scan' = [kind |-> "rcv", key |-> sel.msgtyp, before |-> sel.before,
              cur |-> sel.next, found |-> TRUE]
  /\ sel' = NoSel
  /\ UNCHANGED <<qh, nslots, mh>>

Select == SmallerType \/ OutsideType \/ StartMessage \/ WalkMessage \/ Choose

(* What a walk that has left the array does is not defined.                *)
Lost == sel.phase = "lost" /\ UNCHANGED svars

SNext ==
  \/ sel = NoSel /\ Next /\ UNCHANGED sel
  \/ \E t \in Types : BeginSelect(t)
  \/ Select
  \/ Lost

SSpec == SInit /\ [][SNext]_svars /\ WF_svars(Select)

----------------------------------------------------------------------------
(* The second walk stands on the list, with its predecessor remembered;    *)
(* it has passed no message of the type it looks for and has one ahead.    *)
SelectOn(live) ==
  \E k \in DOMAIN live :
    /\ sel.next = live[k] /\ sel.ix = k - 1
    /\ sel.before = IF k = 1 THEN NIL ELSE live[k - 1]
    /\ \A j \in 1 .. k - 1 : mh[live[j]].mtype # sel.msgtyp
    /\ \E j \in k .. Len(live) : mh[live[j]].mtype = sel.msgtyp

(* Unless the first walk has left the array, a negative msgtyp yields a    *)
(* message that read_data can unlink, the first of its type: the second    *)
(* walk cannot pass the end of the list, which it does not test for.       *)
ChosenIsUnlinkable ==
  sel.phase = "message" => \E live \in SlotSeqs : LiveList(live) /\ SelectOn(live)

(* "The first to arrive among the messages of the smallest type": the      *)
(* comment over the second walk.                                           *)
(* Does not hold: README, "Where code and comments part".                  *)
SmallestTypeTaken ==
  [][Choose => \A i \in Slots : mh[i].alive = 1 => sel.msgtyp <= mh[i].mtype]_svars

(* "Searching for a message whose type is smaller than the absolute value  *)
(* of mtype": the comment over the first walk.                             *)
(* Does not hold: README, "Where code and comments part".                  *)
BoundRespected == [][Choose => sel.msgtyp <= sel.bound]_svars

(* The walks come to an end, on every list a sequence of sends, receives   *)
(* and removals can leave.                                                 *)
SelectionEnds == sel.phase \in {"type", "message"} ~> sel.phase \in {"none", "lost"}

=============================================================================
