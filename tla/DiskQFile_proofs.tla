-------------------------- MODULE DiskQFile_proofs --------------------------
(***************************************************************************)
(* For every capacity, every set of types and sizes and every initial      *)
(* number of slots: the slots of the control file are never lost, shared   *)
(* or threaded twice, and the header's fields stay in range; the control   *)
(* file implements the abstract queue; and senders killed after their      *)
(* first write leave it as it was.                                         *)
(***************************************************************************)
EXTENDS DiskQRefinement, DiskQCrash, SequenceTheorems, WellFoundedInduction, TLAPS


IInv == TypeOK /\ SlotsConserved

(* A sequence of slots as a function and as a sequence.                    *)
LEMMA SlotSeqFacts ==
  ASSUME nslots \in Nat, NEW p \in SlotSeqs
  PROVE  /\ p \in Seq(Slots)
         /\ Len(p) \in 0 .. nslots
         /\ p \in [1 .. Len(p) -> Slots]
         /\ DOMAIN p = 1 .. Len(p)
         /\ \A k \in 1 .. Len(p) : p[k] \in Slots
<1>1. PICK n \in 0 .. nslots : p \in [1 .. n -> Slots]
  BY DEF SlotSeqs
<1>2. n \in Nat
  OBVIOUS
<1>3. p \in Seq(Slots) /\ Len(p) = n
  BY <1>1, <1>2
<1>. QED
  BY <1>1, <1>3

(* A longer list of slots is still a list of slots of a larger file.       *)
LEMMA SlotSeqIntro ==
  ASSUME nslots \in Nat, NEW n \in 0 .. nslots, NEW p \in [1 .. n -> Slots]
  PROVE  p \in SlotSeqs /\ Len(p) = n /\ DOMAIN p = 1 .. n
<1>1. p \in Seq(Slots) /\ Len(p) = n
  OBVIOUS
<1>. QED
  BY <1>1 DEF SlotSeqs

LEMMA EmptySlotSeq == nslots \in Nat => <<>> \in SlotSeqs
<1>. SUFFICES ASSUME nslots \in Nat PROVE <<>> \in SlotSeqs
  OBVIOUS
<1>1. <<>> \in [1 .. 0 -> Slots]
  OBVIOUS
<1>. QED
  BY <1>1 DEF SlotSeqs

LEMMA InitInv == Init => IInv
<1>. SUFFICES ASSUME Init PROVE IInv
  OBVIOUS
<1>. USE ConstantsAssumption DEF Init, MakeControlFile, NoScan, NIL
<1>1. TypeOK
  BY DEF TypeOK, Link, Slots, MHead
<1>2. SlotsConserved
  <2>. DEFINE free == [k \in 1 .. InitSlots |-> k - 1]
  <2>1. nslots \in Nat /\ InitSlots \in 0 .. nslots /\ 0 \in 0 .. nslots
    OBVIOUS
  <2>2. free \in [1 .. InitSlots -> Slots]
    BY DEF Slots
  <2>3. free \in SlotSeqs /\ Len(free) = InitSlots /\ DOMAIN free = 1 .. InitSlots
    BY <2>1, <2>2, SlotSeqIntro
  <2>4. <<>> \in SlotSeqs
    BY <2>1, EmptySlotSeq
  <2>5. LiveList(<<>>)
    BY DEF LiveList, IsList, Distinct
  <2>6. FreeList(free, <<>>)
    <3>1. free # <<>>
      BY <2>3
    <3>2. IsList(free, qh.es, qh.ee)
      BY <2>3, <3>1, SMTT(30) DEF IsList
    <3>3. Distinct(free)
      BY <2>3 DEF Distinct
    <3>4. \A i \in Slots : OnList(i, free)
      <4>. TAKE i \in Slots
      <4>1. i + 1 \in DOMAIN free /\ free[i + 1] = i
        BY <2>3 DEF Slots
      <4>. QED
        BY <4>1 DEF OnList
    <3>. QED
      BY <2>3, <3>2, <3>3, <3>4 DEF FreeList, Slots
  <2>7. ScanOn(<<>>)
    BY DEF ScanOn
  <2>. HIDE DEF free
  <2>. QED
    BY <2>3, <2>4, <2>5, <2>6, <2>7 DEF SlotsConserved
<1>. QED
  BY <1>1, <1>2 DEF IInv

(* A function on 1 .. n is a sequence of length n.                         *)
LEMMA FcnSeq ==
  ASSUME NEW S, NEW n \in Nat, NEW p \in [1 .. n -> S]
  PROVE  p \in Seq(S) /\ Len(p) = n /\ DOMAIN p = 1 .. n
OBVIOUS

(* What a send leaves in the slots, field by field.                        *)
LEMMA SendSlots ==
  ASSUME TypeOK, NEW t \in Types, NEW s \in Sizes, Send(t, s),
         NEW id \in Nat, id = DesId, id <= nslots
  PROVE  /\ nslots' = IF id < nslots THEN nslots ELSE nslots + 1
         /\ nslots' \in Nat /\ nslots <= nslots'
         /\ id \in Slots' /\ Slots \subseteq Slots'
         /\ mh' \in [Slots' -> MHead(nslots)']
         /\ \A i \in Slots' :
              /\ i # id => i \in Slots
              /\ mh'[i].nextid = IF i = id THEN NIL
                                 ELSE IF i = qh.de THEN id ELSE mh[i].nextid
              /\ mh'[i].alive = IF i = id THEN 1 ELSE mh[i].alive
<1>. USE ConstantsAssumption DEF TypeOK, Slots
<1>1. /\ nslots' = IF id < nslots THEN nslots ELSE nslots + 1
      /\ nslots' \in Nat /\ nslots <= nslots'
      /\ id \in Slots' /\ Slots \subseteq Slots'
  BY DEF Send
<1>2. mh' = SlotWritten(Linked(mh, qh.de, id), nslots, id, NewHead(qh, t, s))
  BY DEF Send
<1>3. DOMAIN mh' = Slots'
  BY <1>1, <1>2 DEF SlotWritten
<1>4. ASSUME NEW i \in Slots', i # id
      PROVE  /\ i \in Slots
             /\ mh'[i] = IF i = qh.de THEN [mh[i] EXCEPT !.nextid = id] ELSE mh[i]
  <2>1. i \in Slots
    BY <1>1, <1>4
  <2>2. DOMAIN mh = Slots
    OBVIOUS
  <2>3. mh'[i] = Linked(mh, qh.de, id)[i]
    BY <1>1, <1>2, <1>4 DEF SlotWritten
  <2>. QED
    BY <2>1, <2>2, <2>3 DEF Linked
<1>5. mh'[id] = NewHead(qh, t, s)
  BY <1>1, <1>2 DEF SlotWritten
<1>6. NewHead(qh, t, s) \in MHead(nslots)'
  BY DEF NewHead, MHead, NIL
<1>7. ASSUME NEW i \in Slots', i # id
      PROVE  /\ mh'[i] \in MHead(nslots)'
             /\ mh'[i].nextid = IF i = qh.de THEN id ELSE mh[i].nextid
             /\ mh'[i].alive = mh[i].alive
  <2>1. mh[i] \in MHead(nslots)
    BY <1>4, <1>7
  <2>2. id \in 0 .. nslots' - 1 /\ nslots <= nslots' /\ nslots' \in Nat
    BY <1>1
  <2>3. mh[i] \in MHead(nslots')
    BY <2>1, <2>2 DEF MHead, NIL
  <2>4. [mh[i] EXCEPT !.nextid = id] \in MHead(nslots')
    BY <2>2, <2>3 DEF MHead, NIL
  <2>5. mh'[i] \in MHead(nslots)'
    BY <1>4, <1>7, <2>3, <2>4 DEF MHead
  <2>6. /\ [mh[i] EXCEPT !.nextid = id].nextid = id
        /\ [mh[i] EXCEPT !.nextid = id].alive = mh[i].alive
    BY <2>1 DEF MHead
  <2>. QED
    BY <1>4, <1>7, <2>5, <2>6
<1>8. mh'[id].nextid = NIL /\ mh'[id].alive = 1
  BY <1>5 DEF NewHead
<1>9. mh' \in [Slots' -> MHead(nslots)']
  <2>1. mh' = [i \in Slots' |-> mh'[i]]
    BY <1>1, <1>2 DEF SlotWritten
  <2>. QED
    BY <1>5, <1>6, <1>7, <2>1
<1>. QED
  BY <1>1, <1>4, <1>7, <1>8, <1>9

(* The slot a send uses is in the file or the next one: the empty list's   *)
(* first, or, when every slot carries a message, slot qnum.                *)
LEMMA DesIdFacts ==
  ASSUME TypeOK, NEW live \in SlotSeqs, NEW free \in SlotSeqs,
         LiveList(live), FreeList(free, live)
  PROVE  /\ DesId \in Nat /\ DesId <= nslots
         /\ free = <<>> => DesId = nslots /\ qh.es = NIL /\ qh.ee = NIL
         /\ free # <<>> => /\ DesId = free[1] /\ DesId < nslots /\ qh.es = free[1]
                           /\ NextEmpty = IF Len(free) = 1 THEN NIL ELSE free[2]
         /\ \A k \in DOMAIN live : live[k] # DesId
<1>. USE DEF TypeOK, Slots, NIL
<1>1. /\ live \in Seq(Slots) /\ Len(live) \in Nat /\ DOMAIN live = 1 .. Len(live)
      /\ \A k \in 1 .. Len(live) : live[k] \in Slots
      /\ free \in Seq(Slots) /\ Len(free) \in Nat /\ DOMAIN free = 1 .. Len(free)
      /\ \A k \in 1 .. Len(free) : free[k] \in Slots
  BY SlotSeqFacts
<1>2. CASE free = <<>>
  <2>1. qh.es = NIL /\ qh.ee = NIL
    BY <1>2 DEF FreeList, IsList
  <2>2. DesId = nslots
    BY <1>1, <1>2, <2>1 DEF FreeList, LiveList, DesId
  <2>. QED
    BY <1>1, <1>2, <2>1, <2>2
<1>3. CASE free # <<>>
  <2>1. 1 \in DOMAIN free /\ Len(free) >= 1
    BY <1>1, <1>3
  <2>2. qh.es = free[1] /\ mh[free[1]].nextid = IF Len(free) = 1 THEN NIL ELSE free[2]
    <3>1. IsList(free, qh.es, qh.ee)
      BY DEF FreeList
    <3>2. /\ qh.es = free[1]
          /\ \A k \in 1 .. Len(free) :
               mh[free[k]].nextid = IF k = Len(free) THEN NIL ELSE free[k + 1]
      BY <1>3, <3>1 DEF IsList
    <3>3. 1 \in 1 .. Len(free) /\ 1 + 1 = 2
      BY <1>1, <2>1
    <3>4. mh[free[1]].nextid = IF 1 = Len(free) THEN NIL ELSE free[1 + 1]
      BY <3>2, <3>3
    <3>. QED
      BY <3>2, <3>3, <3>4
  <2>3. free[1] \in Slots /\ free[1] # NIL
    BY <1>1, <2>1
  <2>4. mh[free[1]].alive = 0
    BY <2>1 DEF FreeList
  <2>5. \A k \in DOMAIN live : live[k] # free[1]
    BY <2>4 DEF LiveList
  <2>6. DesId = free[1] /\ NextEmpty = mh[free[1]].nextid
    BY <2>2, <2>3 DEF DesId, NextEmpty
  <2>7. free[1] \in Nat /\ free[1] < nslots /\ free[1] <= nslots
    BY <2>3
  <2>. QED
    BY <1>3, <2>2, <2>5, <2>6, <2>7
<1>. QED
  BY <1>2, <1>3

(* The list live2 is live with slot id behind it.                          *)
Grown(live, id, live2) ==
  /\ Len(live2) = Len(live) + 1
  /\ live2[Len(live) + 1] = id
  /\ \A k \in 1 .. Len(live) : live2[k] = live[k] /\ live[k] # id

(* A send puts its slot at the end of the list of messages, and takes it   *)
(* from the front of the empty slots or from the end of the file.          *)
LEMMA SendLists ==
  ASSUME IInv, NEW t \in Types, NEW s \in Sizes, Send(t, s)
  PROVE  /\ TypeOK'
         /\ \E live \in SlotSeqs : \E live2 \in SlotSeqs' :
              /\ LiveList(live) /\ Grown(live, DesId, live2)
              /\ LiveList(live2)'
              /\ \E free \in SlotSeqs' : FreeList(free, live2)'
              /\ ScanOn(live2)'
<1>. USE DEF IInv
<1>1. PICK live \in SlotSeqs, free \in SlotSeqs : LiveList(live) /\ FreeList(free, live)
  BY DEF SlotsConserved
<1>2. PICK id \in Nat : id = DesId
  BY <1>1, DesIdFacts
<1>3. PICK nl \in Nat : nl = Len(live)
  BY SlotSeqFacts DEF TypeOK
<1>4. PICK nf \in Nat : nf = Len(free)
  BY SlotSeqFacts DEF TypeOK
<1>5. /\ live \in [1 .. nl -> Slots] /\ DOMAIN live = 1 .. nl /\ nl <= nslots
      /\ free \in [1 .. nf -> Slots] /\ DOMAIN free = 1 .. nf /\ nf <= nslots
      /\ nl + nf = nslots
  BY <1>1, <1>3, <1>4, SlotSeqFacts DEF TypeOK, FreeList
<1>6. /\ id <= nslots
      /\ nf = 0 => id = nslots /\ qh.es = NIL /\ qh.ee = NIL
      /\ nf # 0 => /\ id = free[1] /\ id < nslots /\ qh.es = free[1]
                   /\ NextEmpty = IF nf = 1 THEN NIL ELSE free[2]
      /\ \A k \in 1 .. nl : live[k] # id
  <2>1. nf = 0 <=> free = <<>>
    BY <1>4, <1>5
  <2>. QED
    BY <1>1, <1>2, <1>4, <1>5, <2>1, DesIdFacts
<1>7. /\ nslots' = IF id < nslots THEN nslots ELSE nslots + 1
      /\ nslots' \in Nat /\ nslots <= nslots'
      /\ id \in Slots' /\ Slots \subseteq Slots'
      /\ mh' \in [Slots' -> MHead(nslots)']
      /\ \A i \in Slots' :
           /\ i # id => i \in Slots
           /\ mh'[i].nextid = IF i = id THEN NIL
                              ELSE IF i = qh.de THEN id ELSE mh[i].nextid
           /\ mh'[i].alive = IF i = id THEN 1 ELSE mh[i].alive
  BY <1>2, <1>6, SendSlots
<1>8. qh' = HeadSent(qh, id, s, NextEmpty) /\ scan' = NoScan
  BY <1>2 DEF Send
<1>9. /\ qh'.qnum = qh.qnum + 1
      /\ qh'.ds = IF qh.ds = NIL THEN id ELSE qh.ds
      /\ qh'.de = id
      /\ qh'.es = IF qh.es # NIL /\ qh.es # qh.ee THEN NextEmpty ELSE NIL
      /\ qh'.ee = IF qh.es # NIL /\ qh.es = qh.ee THEN NIL ELSE qh.ee
  BY <1>8 DEF HeadSent
<1>. DEFINE live2 == [k \in 1 .. nl + 1 |-> IF k <= nl THEN live[k] ELSE id]
            nf2 == IF nf = 0 THEN 0 ELSE nf - 1
            free2 == [k \in 1 .. nf2 |-> free[k + 1]]
<1>a. live2[nl + 1] = id
  BY <1>5
<1>b. \A k \in 1 .. nl : /\ live2[k] = live[k] /\ live[k] \in Slots
                         /\ live[k] \in Slots' /\ live[k] # id
  <2>1. \A k \in 1 .. nl : live[k] \in Slots /\ live[k] # id
    BY <1>5, <1>6
  <2>2. \A k \in 1 .. nl : live2[k] = live[k]
    OBVIOUS
  <2>. QED
    BY <1>7, <2>1, <2>2
<1>c. \A k \in 1 .. nf2 : /\ k + 1 \in 1 .. nf /\ free2[k] = free[k + 1]
                          /\ free[k + 1] \in Slots /\ free[k + 1] \in Slots'
  <2>1. \A k \in 1 .. nf2 : k + 1 \in 1 .. nf
    OBVIOUS
  <2>2. \A k \in 1 .. nf : free[k] \in Slots /\ free[k] \in Slots'
    BY <1>5, <1>7
  <2>. QED
    BY <2>1, <2>2
<1>d. \A i \in Slots' :
        /\ mh'[i].nextid = IF i = id THEN NIL
                           ELSE IF i = qh.de THEN id ELSE mh[i].nextid
        /\ mh'[i].alive = IF i = id THEN 1 ELSE mh[i].alive
  BY <1>7
<1>10. TypeOK'
  <2>1. qh' = [cbytes |-> qh.cbytes + s, qnum |-> qh.qnum + 1, ds |-> qh'.ds,
               de |-> qh'.de, es |-> qh'.es, ee |-> qh'.ee,
               tcnt |-> IF qh.tcnt >= MaxCnt THEN 0 ELSE qh.tcnt + 1]
    BY <1>8 DEF HeadSent
  <2>2. Link \subseteq Link' /\ NIL \in Link /\ id \in Link'
    BY <1>7 DEF Link
  <2>3. NextEmpty \in Link
    BY <1>5, <1>6, <2>2 DEF TypeOK, NextEmpty, Link, Slots, MHead
  <2>4. /\ qh'.ds \in Link' /\ qh'.de \in Link'
        /\ qh'.es \in Link' /\ qh'.ee \in Link'
    BY <1>9, <2>2, <2>3 DEF TypeOK
  <2>5. /\ qh.cbytes + s \in Int /\ qh.qnum + 1 \in Int
        /\ (IF qh.tcnt >= MaxCnt THEN 0 ELSE qh.tcnt + 1) \in 0 .. MaxCnt
    BY ConstantsAssumption DEF TypeOK
  <2>. QED
    BY <1>7, <1>8, <2>1, <2>4, <2>5 DEF TypeOK
<1>11. live2 \in SlotSeqs' /\ Len(live2) = nl + 1 /\ DOMAIN live2 = 1 .. nl + 1
  <2>1. live2 \in [1 .. nl + 1 -> Slots']
    <3>1. ASSUME NEW k \in 1 .. nl + 1 PROVE live2[k] \in Slots'
      <4>1. id \in Slots'
        BY <1>7
      <4>2. CASE k \in 1 .. nl
        BY <1>b, <4>2
      <4>3. CASE k = nl + 1
        BY <1>a, <4>1, <4>3
      <4>4. k \in 1 .. nl \/ k = nl + 1
        OBVIOUS
      <4>. QED
        BY <4>2, <4>3, <4>4
    <3>. QED
      BY <3>1
  <2>2. nl + 1 \in 0 .. nslots'
    BY <1>5, <1>6, <1>7 DEF TypeOK
  <2>. QED
    BY <2>1, <2>2, FcnSeq DEF SlotSeqs
<1>12. free2 \in SlotSeqs' /\ Len(free2) = nf2 /\ DOMAIN free2 = 1 .. nf2
  <2>1. free2 \in [1 .. nf2 -> Slots']
    BY <1>c
  <2>2. nf2 \in 0 .. nslots' /\ nf2 \in Nat
    BY <1>5, <1>7 DEF TypeOK
  <2>. QED
    BY <2>1, <2>2, FcnSeq DEF SlotSeqs
<1>13. LiveList(live2)'
  <2>1. qh.qnum = nl
    BY <1>1, <1>3 DEF LiveList
  <2>2. IF nl = 0 THEN qh.ds = NIL /\ qh.de = NIL
        ELSE /\ qh.ds = live[1] /\ qh.de = live[nl] /\ qh.ds # NIL
             /\ \A k \in 1 .. nl - 1 : mh[live[k]].nextid = live[k + 1]
    BY <1>1, <1>3, <1>5 DEF LiveList, IsList, Slots, NIL
  <2>3. Distinct(live2)
    <3>1. \A j, k \in 1 .. nl : live[j] = live[k] => j = k
      BY <1>1, <1>5 DEF LiveList, Distinct
    <3>2. ASSUME NEW j \in 1 .. nl + 1, NEW k \in 1 .. nl + 1, live2[j] = live2[k]
          PROVE  j = k
      <4>1. (j \in 1 .. nl \/ j = nl + 1) /\ (k \in 1 .. nl \/ k = nl + 1)
        OBVIOUS
      <4>. HIDE DEF live2
      <4>. QED
        BY <1>a, <1>b, <3>1, <3>2, <4>1
    <3>. QED
      BY <1>11, <3>2 DEF Distinct
  <2>4. qh'.ds = live2[1] /\ qh'.de = live2[nl + 1]
    BY <1>5, <1>9, <2>2
  <2>5. \A k \in 1 .. nl + 1 :
          mh'[live2[k]].nextid = IF k = nl + 1 THEN NIL ELSE live2[k + 1]
    <3>. TAKE k \in 1 .. nl + 1
    <3>1. CASE k = nl + 1
      BY <1>7, <3>1
    <3>2. CASE k = nl /\ nl # 0
      <4>1. live2[k] = live[nl] /\ live[nl] = qh.de /\ live2[k + 1] = id
        BY <1>a, <1>b, <2>2, <3>2
      <4>2. mh'[live[nl]].nextid = id
        <5>1. nl \in 1 .. nl
          BY <3>2
        <5>. QED
          BY <1>b, <1>d, <4>1, <5>1
      <4>. QED
        BY <3>2, <4>1, <4>2
    <3>3. CASE k < nl
      <4>1. live[k] # live[nl]
        BY <1>1, <1>5, <3>3 DEF LiveList, Distinct
      <4>2. /\ k \in 1 .. nl - 1 /\ k \in 1 .. nl /\ k + 1 \in 1 .. nl /\ nl # 0
            /\ k # nl + 1
        BY <3>3
      <4>3. mh'[live[k]].nextid = mh[live[k]].nextid
        BY <1>b, <1>d, <2>2, <4>1, <4>2
      <4>. QED
        BY <1>b, <2>2, <4>2, <4>3
    <3>. QED
      BY <3>1, <3>2, <3>3
  <2>6. IsList(live2, qh.ds, qh.de)'
    <3>1. live2 # <<>>
      BY <1>11
    <3>. QED
      BY <1>11, <2>4, <2>5, <3>1 DEF IsList
  <2>7. \A k \in DOMAIN live2 : mh'[live2[k]].alive = 1
    <3>1. \A k \in 1 .. nl : mh[live[k]].alive = 1
      BY <1>1, <1>5 DEF LiveList
    <3>2. ASSUME NEW k \in 1 .. nl + 1 PROVE mh'[live2[k]].alive = 1
      <4>1. CASE k = nl + 1
        BY <1>7, <1>a, <1>d, <4>1
      <4>2. CASE k \in 1 .. nl
        BY <1>b, <1>d, <3>1, <4>2
      <4>. QED
        BY <4>1, <4>2
    <3>. QED
      BY <1>11, <3>2
  <2>. QED
    BY <1>9, <1>11, <2>1, <2>3, <2>6, <2>7 DEF LiveList
<1>14. FreeList(free2, live2)'
  <2>1. /\ IF nf = 0 THEN TRUE
           ELSE /\ qh.es = free[1] /\ qh.ee = free[nf]
                /\ \A k \in 1 .. nf :
                     mh[free[k]].nextid = IF k = nf THEN NIL ELSE free[k + 1]
        /\ \A k \in 1 .. nf : mh[free[k]].alive = 0
        /\ \A j, k \in 1 .. nf : free[j] = free[k] => j = k
    <3>1. /\ IsList(free, qh.es, qh.ee) /\ Distinct(free)
          /\ \A k \in DOMAIN free : mh[free[k]].alive = 0
      BY <1>1 DEF FreeList
    <3>2. nf # 0 => free # <<>>
      BY <1>4, <1>5
    <3>. QED
      BY <1>4, <1>5, <3>1, <3>2 DEF IsList, Distinct
  <2>2. \A k \in 1 .. nf : free[k] # qh.de
    <3>1. nl # 0 => qh.de = live[nl]
      BY <1>1, <1>3, <1>5 DEF LiveList, IsList
    <3>2. nl = 0 => qh.de = NIL
      BY <1>1, <1>3, <1>5 DEF LiveList, IsList
    <3>3. nl # 0 => mh[live[nl]].alive = 1
      BY <1>1, <1>5 DEF LiveList
    <3>. QED
      BY <1>5, <2>1, <3>1, <3>2, <3>3 DEF Slots, NIL
  <2>3. Distinct(free2)
    BY <1>5, <1>12, <2>1 DEF Distinct
  <2>4. \A k \in 1 .. nf2 : free2[k] # id /\ free2[k] \in Slots /\ free2[k] # qh.de
    BY <1>5, <1>6, <2>1, <2>2
  <2>5. \A k \in 1 .. nf2 : mh'[free2[k]].alive = 0
    <3>1. \A k \in 1 .. nf2 : mh[free2[k]].alive = 0
      BY <1>c, <2>1
    <3>. QED
      BY <1>7, <1>c, <1>d, <2>4, <3>1
  <2>6. IsList(free2, qh.es, qh.ee)'
    <3>1. CASE nf2 = 0
      <4>1. free2 = <<>>
        BY <1>12, <3>1
      <4>2. qh'.es = NIL /\ qh'.ee = NIL
        BY <1>6, <1>9, <2>1, <3>1 DEF NIL
      <4>. QED
        BY <4>1, <4>2 DEF IsList
    <3>2. CASE nf2 # 0
      <4>1. /\ nf > 1 /\ nf2 = nf - 1 /\ 1 \in 1 .. nf /\ nf \in 1 .. nf
            /\ free2 # <<>>
        BY <1>12, <3>2
      <4>2. free[1] \in Slots /\ free[1] # NIL /\ free[1] # free[nf]
        BY <1>5, <2>1, <4>1 DEF Slots, NIL
      <4>3. qh'.es = free2[1] /\ qh'.ee = free2[nf2]
        BY <1>6, <1>9, <2>1, <4>1, <4>2
      <4>4. ASSUME NEW k \in 1 .. nf2
            PROVE  mh'[free2[k]].nextid = IF k = nf2 THEN NIL ELSE free2[k + 1]
        <5>1. k + 1 \in 1 .. nf /\ (k + 1 = nf <=> k = nf2)
          BY <4>1
        <5>2. mh'[free2[k]].nextid = mh[free[k + 1]].nextid
          BY <1>c, <1>d, <2>4
        <5>3. mh[free[k + 1]].nextid = IF k + 1 = nf THEN NIL ELSE free[(k + 1) + 1]
          BY <2>1, <4>1, <5>1
        <5>. QED
          BY <4>1, <5>1, <5>2, <5>3
      <4>. QED
        BY <1>12, <4>1, <4>3, <4>4 DEF IsList
    <3>. QED
      BY <3>1, <3>2
  <2>7. \A i \in Slots' : OnList(i, live2) \/ OnList(i, free2)
    <3>1. \A k \in 1 .. nl : OnList(live[k], live2)
      BY <1>11, <1>b DEF OnList
    <3>2. OnList(id, live2)
      BY <1>11, <1>a DEF OnList
    <3>3. \A k \in 1 .. nf : free[k] = id \/ OnList(free[k], free2)
      <4>. TAKE k \in 1 .. nf
      <4>1. CASE k = 1
        BY <1>6, <4>1
      <4>2. CASE k # 1
        <5>1. k - 1 \in 1 .. nf2 /\ free2[k - 1] = free[k]
          BY <4>2
        <5>. QED
          BY <1>12, <5>1 DEF OnList
      <4>. QED
        BY <4>1, <4>2
    <3>4. \A i \in Slots : OnList(i, live) \/ OnList(i, free)
      BY <1>1 DEF FreeList
    <3>5. \A i \in Slots' : i = id \/ i \in Slots
      BY <1>7
    <3>6. ASSUME NEW i \in Slots PROVE OnList(i, live2) \/ OnList(i, free2)
      <4>1. CASE OnList(i, live)
        BY <1>5, <3>1, <4>1 DEF OnList
      <4>2. CASE OnList(i, free)
        BY <1>5, <3>2, <3>3, <4>2 DEF OnList
      <4>. QED
        BY <3>4, <4>1, <4>2
    <3>. QED
      BY <3>2, <3>5, <3>6
  <2>8. Len(live2) + Len(free2) = nslots'
    BY <1>5, <1>6, <1>7, <1>11, <1>12
  <2>. QED
    BY <1>11, <1>12, <2>3, <2>5, <2>6, <2>7, <2>8 DEF FreeList, OnList
<1>15. ScanOn(live2)'
  BY <1>8 DEF ScanOn
<1>16. Grown(live, DesId, live2)
  BY <1>2, <1>3, <1>5, <1>6, <1>11, <1>a, <1>b DEF Grown
<1>. HIDE DEF live2, free2
<1>. QED
  BY <1>1, <1>10, <1>11, <1>12, <1>13, <1>14, <1>15, <1>16

LEMMA SendInv ==
  ASSUME IInv, NEW t \in Types, NEW s \in Sizes, Send(t, s)
  PROVE  IInv'
BY SendLists DEF IInv, SlotsConserved

(* A step that only moves the cursor keeps the lists.                      *)
LEMMA Frame ==
  ASSUME UNCHANGED <<qh, nslots, mh>>,
         NEW live \in SlotSeqs, LiveList(live),
         \E free \in SlotSeqs : FreeList(free, live),
         scan' \in {NoScan} \cup Scans, ScanOn(live)', TypeOK
  PROVE  IInv'
<1>1. TypeOK'
  <2>1. Slots' = Slots /\ Link' = Link
    BY DEF Slots, Link
  <2>2. Scans' = Scans /\ MHead(nslots)' = MHead(nslots)
    BY <2>1 DEF Scans, MHead
  <2>. QED
    BY <2>1, <2>2 DEF TypeOK
<1>2. SlotSeqs' = SlotSeqs
  BY DEF SlotSeqs, Slots
<1>3. LiveList(live)'
  BY DEF LiveList, IsList
<1>4. \E free \in SlotSeqs' : FreeList(free, live)'
  BY <1>2 DEF FreeList, IsList, Slots
<1>. QED
  BY <1>1, <1>2, <1>3, <1>4 DEF IInv, SlotsConserved

(* The message list without sequence operators.                            *)
LEMMA LiveFacts ==
  ASSUME TypeOK, NEW live \in SlotSeqs, LiveList(live)
  PROVE  /\ Len(live) \in 0 .. nslots /\ DOMAIN live = 1 .. Len(live)
         /\ \A k \in 1 .. Len(live) :
              /\ live[k] \in Slots /\ live[k] # NIL
              /\ mh[live[k]].alive = 1
              /\ mh[live[k]].nextid = IF k = Len(live) THEN NIL ELSE live[k + 1]
         /\ \A j, k \in 1 .. Len(live) : live[j] = live[k] => j = k
         /\ qh.qnum = Len(live)
         /\ Len(live) = 0 => qh.ds = NIL /\ qh.de = NIL
         /\ Len(live) # 0 => qh.ds = live[1] /\ qh.de = live[Len(live)]
<1>1. /\ Len(live) \in 0 .. nslots /\ DOMAIN live = 1 .. Len(live)
      /\ \A k \in 1 .. Len(live) : live[k] \in Slots
      /\ live \in Seq(Slots)
  BY SlotSeqFacts DEF TypeOK
<1>2. \A k \in 1 .. Len(live) : live[k] # NIL
  BY <1>1 DEF Slots, NIL, TypeOK
<1>3. Len(live) = 0 <=> live = <<>>
  BY <1>1
<1>4. IsList(live, qh.ds, qh.de) /\ Distinct(live) /\ qh.qnum = Len(live)
  BY DEF LiveList
<1>5. \A k \in 1 .. Len(live) : mh[live[k]].alive = 1
  BY <1>1 DEF LiveList
<1>6. \A k \in 1 .. Len(live) :
        mh[live[k]].nextid = IF k = Len(live) THEN NIL ELSE live[k + 1]
  <2>. TAKE k \in 1 .. Len(live)
  <2>1. live # <<>>
    BY <1>1, <1>3
  <2>. QED
    BY <1>4, <2>1 DEF IsList
<1>7. /\ Len(live) = 0 => qh.ds = NIL /\ qh.de = NIL
      /\ Len(live) # 0 => qh.ds = live[1] /\ qh.de = live[Len(live)]
  BY <1>3, <1>4 DEF IsList
<1>8. \A j, k \in 1 .. Len(live) : live[j] = live[k] => j = k
  BY <1>1, <1>4 DEF Distinct
<1>. QED
  BY <1>1, <1>2, <1>4, <1>5, <1>6, <1>7, <1>8

LEMMA BeginRecvInv ==
  ASSUME IInv, NEW t \in Types \cup {0}, BeginRecv(t)
  PROVE  IInv'
<1>1. PICK live \in SlotSeqs :
        LiveList(live) /\ \E free \in SlotSeqs : FreeList(free, live)
  BY DEF IInv, SlotsConserved
<1>2. TypeOK /\ t \in Nat
  BY ConstantsAssumption DEF IInv
<1>3. /\ scan' = [kind |-> "rcv", key |-> t, before |-> NIL, cur |-> qh.ds,
                  found |-> FALSE]
      /\ UNCHANGED <<qh, nslots, mh>> /\ qh.ds # NIL
  BY DEF BeginRecv
<1>4. scan' \in {NoScan} \cup Scans
  BY <1>2, <1>3 DEF TypeOK, Scans, Link
<1>5. 1 \in 1 .. Len(live) /\ qh.ds = live[1] /\ Len(live) \in Nat
  BY <1>1, <1>2, <1>3, LiveFacts, SMTT(30)
<1>6. ScanOn(live)'
  BY <1>3, <1>5 DEF ScanOn
<1>. QED
  BY <1>1, <1>2, <1>3, <1>4, <1>6, Frame

LEMMA BeginRmInv ==
  ASSUME IInv, NEW i \in Slots, BeginRm(i, mh[i].uid)
  PROVE  IInv'
<1>1. PICK live \in SlotSeqs :
        LiveList(live) /\ \E free \in SlotSeqs : FreeList(free, live)
  BY DEF IInv, SlotsConserved
<1>2. TypeOK /\ i \in Nat
  BY DEF IInv, TypeOK, Slots
<1>3. /\ scan' = [kind |-> "rm", key |-> i, before |-> NIL, cur |-> qh.ds,
                  found |-> FALSE]
      /\ UNCHANGED <<qh, nslots, mh>> /\ qh.ds # NIL /\ mh[i].alive = 1
  BY DEF BeginRm
<1>4. scan' \in {NoScan} \cup Scans
  BY <1>2, <1>3 DEF TypeOK, Scans, Link
<1>5. 1 \in 1 .. Len(live) /\ qh.ds = live[1] /\ Len(live) \in Nat
  BY <1>1, <1>2, <1>3, LiveFacts, SMTT(30)
<1>6. OnList(i, live)
  <2>1. PICK free \in SlotSeqs : FreeList(free, live)
    BY <1>1
  <2>2. ~ OnList(i, free)
    BY <1>3, <2>1 DEF FreeList, OnList
  <2>. QED
    BY <2>1, <2>2 DEF FreeList
<1>7. \E j \in 1 .. Len(live) : live[j] = i
  BY <1>1, <1>2, <1>6, LiveFacts DEF OnList
<1>8. ScanOn(live)'
  BY <1>3, <1>5, <1>7 DEF ScanOn
<1>. QED
  BY <1>1, <1>2, <1>3, <1>4, <1>8, Frame

LEMMA ScanNextInv ==
  ASSUME IInv, ScanNext
  PROVE  IInv'
<1>1. PICK live \in SlotSeqs :
        /\ LiveList(live) /\ ScanOn(live)
        /\ \E free \in SlotSeqs : FreeList(free, live)
  BY DEF IInv, SlotsConserved
<1>2. TypeOK /\ scan # NoScan
  BY DEF IInv, ScanNext
<1>3. /\ scan' = [scan EXCEPT !.before = scan.cur, !.cur = mh[scan.cur].nextid]
      /\ UNCHANGED <<qh, nslots, mh>> /\ scan.cur # NIL /\ ~Matches /\ ~scan.found
  BY DEF ScanNext
<1>4. scan \in Scans
  BY <1>2 DEF TypeOK
<1>5. PICK k \in 1 .. Len(live) + 1 :
        /\ scan.cur = IF k > Len(live) THEN NIL ELSE live[k]
        /\ scan.kind = "rcv" =>
             \A j \in 1 .. k - 1 : scan.key # 0 /\ mh[live[j]].mtype # scan.key
        /\ scan.kind = "rm" => \E j \in k .. Len(live) : live[j] = scan.key
  BY <1>1, <1>2 DEF ScanOn
<1>6. /\ Len(live) \in Nat /\ k \in 1 .. Len(live) /\ scan.cur = live[k]
      /\ live[k] \in Slots
      /\ mh[live[k]].nextid = IF k = Len(live) THEN NIL ELSE live[k + 1]
  BY <1>1, <1>2, <1>3, <1>5, LiveFacts, SMTT(30)
<1>7. scan' = [kind |-> scan.kind, key |-> scan.key, before |-> live[k],
               cur |-> mh[live[k]].nextid, found |-> scan.found]
  BY <1>3, <1>4, <1>6 DEF Scans
<1>8. scan' \in {NoScan} \cup Scans
  BY <1>2, <1>4, <1>6, <1>7 DEF TypeOK, Scans, Link, MHead, Slots
<1>9. scan.kind = "rcv" =>
        \A j \in 1 .. k : scan.key # 0 /\ mh[live[j]].mtype # scan.key
  BY <1>3, <1>5, <1>6 DEF Matches
<1>10. scan.kind = "rm" => \E j \in k + 1 .. Len(live) : live[j] = scan.key
  BY <1>3, <1>5, <1>6 DEF Matches
<1>11. ScanOn(live)'
  <2>1. k + 1 \in 1 .. Len(live) + 1 /\ (k + 1) - 1 = k /\ k + 1 # 1
    BY <1>6
  <2>2. scan'.cur = IF k + 1 > Len(live) THEN NIL ELSE live[k + 1]
    BY <1>6, <1>7
  <2>3. scan'.before = IF k + 1 = 1 THEN NIL ELSE live[(k + 1) - 1]
    BY <1>6, <1>7
  <2>4. ~ scan'.found /\ scan'.kind = scan.kind /\ scan'.key = scan.key
    BY <1>3, <1>7
  <2>5. scan'.kind = "rcv" => \A j \in 1 .. (k + 1) - 1 :
          scan'.key # 0 /\ mh'[live[j]].mtype # scan'.key
    BY <1>3, <1>9, <2>1, <2>4
  <2>6. scan'.kind = "rm" => \E j \in k + 1 .. Len(live) : live[j] = scan'.key
    BY <1>10, <2>4
  <2>. QED
    BY <2>1, <2>2, <2>3, <2>4, <2>5, <2>6 DEF ScanOn
<1>. QED
  BY <1>1, <1>2, <1>3, <1>8, <1>11, Frame

LEMMA ScanFoundInv ==
  ASSUME IInv, ScanFound
  PROVE  IInv'
<1>1. PICK live \in SlotSeqs :
        /\ LiveList(live) /\ ScanOn(live)
        /\ \E free \in SlotSeqs : FreeList(free, live)
  BY DEF IInv, SlotsConserved
<1>2. TypeOK /\ scan # NoScan
  BY DEF IInv, ScanFound
<1>3. /\ scan' = [scan EXCEPT !.found = TRUE]
      /\ UNCHANGED <<qh, nslots, mh>> /\ scan.cur # NIL /\ Matches
  BY DEF ScanFound
<1>4. scan \in Scans
  BY <1>2 DEF TypeOK
<1>5. /\ scan' \in {NoScan} \cup Scans
      /\ scan'.kind = scan.kind /\ scan'.key = scan.key
      /\ scan'.before = scan.before /\ scan'.cur = scan.cur
  BY <1>3, <1>4 DEF Scans
<1>6. Matches'
  BY <1>3, <1>5 DEF Matches
<1>7. ScanOn(live)'
  BY <1>1, <1>2, <1>3, <1>5, <1>6 DEF ScanOn
<1>. QED
  BY <1>1, <1>2, <1>3, <1>5, <1>7, Frame

(* A removal never reaches the end: its slot is on the list.               *)
LEMMA ScanEndInv ==
  ASSUME IInv, ScanEnd
  PROVE  IInv'
<1>1. PICK live \in SlotSeqs :
        /\ LiveList(live) /\ ScanOn(live)
        /\ \E free \in SlotSeqs : FreeList(free, live)
  BY DEF IInv, SlotsConserved
<1>2. TypeOK /\ scan # NoScan /\ scan.cur = NIL /\ UNCHANGED <<qh, nslots, mh>>
  BY DEF IInv, ScanEnd
<1>3. PICK k \in 1 .. Len(live) + 1 :
        /\ scan.cur = IF k > Len(live) THEN NIL ELSE live[k]
        /\ scan.kind = "rm" => \E j \in k .. Len(live) : live[j] = scan.key
  BY <1>1, <1>2 DEF ScanOn
<1>4. k = Len(live) + 1 /\ Len(live) \in Nat
  BY <1>1, <1>2, <1>3, LiveFacts, SMTT(30)
<1>5. scan.kind = "rcv"
  BY <1>2, <1>3, <1>4 DEF TypeOK, Scans
<1>6. scan' = NoScan
  BY <1>5 DEF ScanEnd
<1>7. ScanOn(live)'
  BY <1>6 DEF ScanOn
<1>. QED
  BY <1>1, <1>2, <1>6, <1>7, Frame

LEMMA TooBigInv ==
  ASSUME IInv, TooBig
  PROVE  IInv'
<1>1. PICK live \in SlotSeqs :
        LiveList(live) /\ \E free \in SlotSeqs : FreeList(free, live)
  BY DEF IInv, SlotsConserved
<1>2. scan' = NoScan /\ UNCHANGED <<qh, nslots, mh>> /\ TypeOK
  BY DEF IInv, TooBig
<1>3. ScanOn(live)'
  BY <1>2 DEF ScanOn
<1>. QED
  BY <1>1, <1>2, <1>3, Frame

LEMMA FreeFacts ==
  ASSUME TypeOK, NEW live \in SlotSeqs, NEW free \in SlotSeqs, FreeList(free, live)
  PROVE  /\ Len(free) \in 0 .. nslots /\ DOMAIN free = 1 .. Len(free)
         /\ \A k \in 1 .. Len(free) :
              /\ free[k] \in Slots /\ free[k] # NIL
              /\ mh[free[k]].alive = 0
              /\ mh[free[k]].nextid = IF k = Len(free) THEN NIL ELSE free[k + 1]
         /\ \A j, k \in 1 .. Len(free) : free[j] = free[k] => j = k
         /\ Len(free) = 0 => qh.es = NIL /\ qh.ee = NIL
         /\ Len(free) # 0 => qh.es = free[1] /\ qh.ee = free[Len(free)]
         /\ Len(live) + Len(free) = nslots
         /\ \A i \in Slots : OnList(i, live) \/ OnList(i, free)
<1>1. /\ Len(free) \in 0 .. nslots /\ DOMAIN free = 1 .. Len(free)
      /\ \A k \in 1 .. Len(free) : free[k] \in Slots
      /\ free \in Seq(Slots)
  BY SlotSeqFacts DEF TypeOK
<1>2. \A k \in 1 .. Len(free) : free[k] # NIL
  BY <1>1 DEF Slots, NIL, TypeOK
<1>3. Len(free) = 0 <=> free = <<>>
  BY <1>1
<1>4. IsList(free, qh.es, qh.ee) /\ Distinct(free)
  BY DEF FreeList
<1>5. \A k \in 1 .. Len(free) : mh[free[k]].alive = 0
  BY <1>1 DEF FreeList
<1>6. \A k \in 1 .. Len(free) :
        mh[free[k]].nextid = IF k = Len(free) THEN NIL ELSE free[k + 1]
  <2>. TAKE k \in 1 .. Len(free)
  <2>1. free # <<>>
    BY <1>1, <1>3
  <2>. QED
    BY <1>4, <2>1 DEF IsList
<1>7. /\ Len(free) = 0 => qh.es = NIL /\ qh.ee = NIL
      /\ Len(free) # 0 => qh.es = free[1] /\ qh.ee = free[Len(free)]
  BY <1>3, <1>4 DEF IsList
<1>8. \A j, k \in 1 .. Len(free) : free[j] = free[k] => j = k
  BY <1>1, <1>4 DEF Distinct
<1>9. /\ Len(live) + Len(free) = nslots
      /\ \A i \in Slots : OnList(i, live) \/ OnList(i, free)
  BY DEF FreeList
<1>. QED
  BY <1>1, <1>2, <1>5, <1>6, <1>7, <1>8, <1>9

(* What unlinking leaves in the slots, field by field.                     *)
LEMMA TakeSlotsFacts ==
  ASSUME TypeOK, NEW id \in Slots, NEW before \in Link,
         mh' = SlotsTaken(mh, qh, before, id), nslots' = nslots
  PROVE  /\ Slots' = Slots /\ Link' = Link
         /\ mh' \in [Slots' -> MHead(nslots)']
         /\ \A i \in Slots :
              /\ mh'[i].nextid = IF i = id THEN NIL ELSE IF i = qh.ee THEN id
                                 ELSE IF i = before THEN mh[id].nextid
                                 ELSE mh[i].nextid
              /\ mh'[i].alive = IF i = id THEN 0 ELSE mh[i].alive
<1>1. Slots' = Slots /\ Link' = Link /\ MHead(nslots)' = MHead(nslots)
  BY DEF Slots, Link, MHead
<1>2. DOMAIN mh = Slots /\ \A i \in Slots : mh[i] \in MHead(nslots)
  BY DEF TypeOK
<1>3. mh[id].nextid \in (0 .. nslots - 1) \cup {NIL} /\ id \in 0 .. nslots - 1
  BY <1>2 DEF MHead, Slots
<1>4. ASSUME NEW i \in Slots
      PROVE  /\ mh'[i] \in MHead(nslots)
             /\ mh'[i].nextid = IF i = id THEN NIL ELSE IF i = qh.ee THEN id
                                ELSE IF i = before THEN mh[id].nextid
                                ELSE mh[i].nextid
             /\ mh'[i].alive = IF i = id THEN 0 ELSE mh[i].alive
  <2>1. mh'[i] = IF i = id THEN [mh[i] EXCEPT !.alive = 0, !.nextid = NIL]
                 ELSE IF i = qh.ee THEN [mh[i] EXCEPT !.nextid = id]
                 ELSE IF i = before THEN [mh[i] EXCEPT !.nextid = mh[id].nextid]
                 ELSE mh[i]
    BY <1>2 DEF SlotsTaken
  <2>2. mh[i] \in MHead(nslots)
    BY <1>2
  <2>3. \A n \in (0 .. nslots - 1) \cup {NIL} :
          /\ [mh[i] EXCEPT !.nextid = n] \in MHead(nslots)
          /\ [mh[i] EXCEPT !.nextid = n].nextid = n
          /\ [mh[i] EXCEPT !.nextid = n].alive = mh[i].alive
    BY <2>2 DEF MHead
  <2>4. /\ [mh[i] EXCEPT !.alive = 0, !.nextid = NIL] \in MHead(nslots)
        /\ [mh[i] EXCEPT !.alive = 0, !.nextid = NIL].nextid = NIL
        /\ [mh[i] EXCEPT !.alive = 0, !.nextid = NIL].alive = 0
    BY <2>2 DEF MHead
  <2>. QED
    BY <1>3, <2>1, <2>2, <2>3, <2>4
<1>5. mh' = [i \in Slots |-> mh'[i]]
  BY <1>2 DEF SlotsTaken
<1>6. mh' \in [Slots -> MHead(nslots)]
  BY <1>4, <1>5
<1>. QED
  BY <1>1, <1>4, <1>6

(* The list live2 is live without its k-th slot.                           *)
Shortened(live, k, live2) ==
  /\ Len(live2) = Len(live) - 1
  /\ \A j \in 1 .. Len(live) - 1 :
       live2[j] = IF j < k THEN live[j] ELSE live[j + 1]

(* What has been taken is at place k of the list, nothing in front of it   *)
(* is what was asked for, and the list closes over it.                     *)
TakenAt(live, k) ==
  /\ scan.cur = live[k] /\ Matches
  /\ scan.kind = "rcv" =>
       \A j \in 1 .. k - 1 : scan.key # 0 /\ mh[live[j]].mtype # scan.key

LEMMA TakeLists ==
  ASSUME IInv, Take
  PROVE  /\ TypeOK'
         /\ \E live \in SlotSeqs : \E live2 \in SlotSeqs' : \E k \in 1 .. Len(live) :
              /\ LiveList(live) /\ TakenAt(live, k) /\ Shortened(live, k, live2)
              /\ LiveList(live2)'
              /\ \E free \in SlotSeqs' : FreeList(free, live2)'
              /\ ScanOn(live2)'
<1>1. TypeOK /\ scan # NoScan /\ scan.found /\ nslots' = nslots /\ scan' = NoScan
  BY DEF IInv, Take
<1>2. PICK live \in SlotSeqs, free \in SlotSeqs :
        LiveList(live) /\ FreeList(free, live) /\ ScanOn(live)
  BY DEF IInv, SlotsConserved
<1>3. PICK nl \in Nat, nf \in Nat : nl = Len(live) /\ nf = Len(free)
  BY <1>1, SlotSeqFacts DEF TypeOK
<1>4. PICK k \in 1 .. nl + 1 :
        /\ scan.cur = IF k > nl THEN NIL ELSE live[k]
        /\ scan.before = IF k = 1 THEN NIL ELSE live[k - 1]
        /\ k <= nl /\ Matches
        /\ scan.kind = "rcv" =>
             \A j \in 1 .. k - 1 : scan.key # 0 /\ mh[live[j]].mtype # scan.key
  BY <1>1, <1>2, <1>3 DEF ScanOn
<1>5. /\ nl <= nslots /\ DOMAIN live = 1 .. nl
      /\ \A j \in 1 .. nl :
           /\ live[j] \in Slots /\ live[j] # NIL
           /\ mh[live[j]].alive = 1
           /\ mh[live[j]].nextid = IF j = nl THEN NIL ELSE live[j + 1]
      /\ \A i, j \in 1 .. nl : live[i] = live[j] => i = j
      /\ qh.qnum = nl
      /\ nl # 0 => qh.ds = live[1] /\ qh.de = live[nl]
  BY <1>1, <1>2, <1>3, LiveFacts, SMTT(30)
<1>6. /\ nf <= nslots /\ DOMAIN free = 1 .. nf
      /\ \A j \in 1 .. nf :
           /\ free[j] \in Slots /\ free[j] # NIL
           /\ mh[free[j]].alive = 0
           /\ mh[free[j]].nextid = IF j = nf THEN NIL ELSE free[j + 1]
      /\ \A i, j \in 1 .. nf : free[i] = free[j] => i = j
      /\ nf = 0 => qh.es = NIL /\ qh.ee = NIL
      /\ nf # 0 => qh.es = free[1] /\ qh.ee = free[nf]
      /\ nl + nf = nslots
      /\ \A i \in Slots : OnList(i, live) \/ OnList(i, free)
  BY <1>1, <1>2, <1>3, FreeFacts, SMTT(30)
<1>7. PICK id \in Slots : id = live[k]
  BY <1>4, <1>5
<1>8. PICK before \in Link : before = scan.before
  BY <1>4, <1>5 DEF Link
<1>9. /\ k \in 1 .. nl /\ scan.cur = id /\ id # NIL
      /\ before = IF k = 1 THEN NIL ELSE live[k - 1]
      /\ mh[id].nextid = IF k = nl THEN NIL ELSE live[k + 1]
  BY <1>4, <1>5, <1>7, <1>8
<1>10. /\ mh' = SlotsTaken(mh, qh, before, id)
       /\ qh' = HeadTaken(qh, before, id, mh[id])
  BY <1>8, <1>9 DEF Take
<1>11. /\ Slots' = Slots /\ Link' = Link
       /\ mh' \in [Slots' -> MHead(nslots)']
       /\ \A i \in Slots :
            /\ mh'[i].nextid = IF i = id THEN NIL ELSE IF i = qh.ee THEN id
                               ELSE IF i = before THEN mh[id].nextid
                               ELSE mh[i].nextid
            /\ mh'[i].alive = IF i = id THEN 0 ELSE mh[i].alive
  BY <1>1, <1>10, TakeSlotsFacts
<1>12. /\ qh' = [cbytes |-> qh'.cbytes, qnum |-> qh'.qnum, ds |-> qh'.ds,
                 de |-> qh'.de, es |-> qh'.es, ee |-> qh'.ee, tcnt |-> qh'.tcnt]
       /\ qh'.cbytes = qh.cbytes - mh[id].mbytes
       /\ qh'.qnum = qh.qnum - 1
       /\ qh'.es = IF qh.es = NIL THEN id ELSE qh.es
       /\ qh'.ee = id
       /\ qh'.ds = IF qh.ds = qh.de THEN NIL
                   ELSE IF before = NIL THEN mh[id].nextid ELSE qh.ds
       /\ qh'.de = IF qh.ds = qh.de THEN NIL
                   ELSE IF mh[id].nextid = NIL THEN before ELSE qh.de
       /\ qh'.tcnt = qh.tcnt
  BY <1>1, <1>10 DEF HeadTaken, TypeOK
(* The lists after the step.                                               *)
<1>. DEFINE live2 == [j \in 1 .. nl - 1 |-> IF j < k THEN live[j] ELSE live[j + 1]]
            free2 == [j \in 1 .. nf + 1 |-> IF j <= nf THEN free[j] ELSE id]
<1>13. \A j \in 1 .. nl - 1 :
         /\ j < k => j \in 1 .. nl /\ live2[j] = live[j]
         /\ j >= k => j + 1 \in 1 .. nl /\ live2[j] = live[j + 1]
         /\ live2[j] \in Slots /\ live2[j] # id /\ mh[live2[j]].alive = 1
  <2>. TAKE j \in 1 .. nl - 1
  <2>1. CASE j < k
    BY <1>5, <1>7, <1>9, <2>1
  <2>2. CASE j >= k
    <3>1. j + 1 \in 1 .. nl /\ j + 1 # k /\ live2[j] = live[j + 1] /\ ~(j < k)
      BY <2>2
    <3>. QED
      BY <1>5, <1>7, <1>9, <3>1
  <2>. QED
    BY <2>1, <2>2
<1>14. /\ \A j \in 1 .. nf : free2[j] = free[j] /\ free[j] \in Slots /\ free[j] # id
       /\ free2[nf + 1] = id
  <2>1. mh[id].alive = 1
    BY <1>5, <1>7, <1>9
  <2>2. \A j \in 1 .. nf : free[j] # id
    BY <1>6, <2>1
  <2>3. \A j \in 1 .. nf : free2[j] = free[j]
    OBVIOUS
  <2>4. free2[nf + 1] = id
    OBVIOUS
  <2>. QED
    BY <1>6, <2>2, <2>3, <2>4
<1>15. live2 \in SlotSeqs' /\ Len(live2) = nl - 1 /\ DOMAIN live2 = 1 .. nl - 1
  <2>1. live2 \in [1 .. nl - 1 -> Slots']
    BY <1>11, <1>13
  <2>2. nl - 1 \in 0 .. nslots' /\ nl - 1 \in Nat
    BY <1>1, <1>5, <1>9 DEF TypeOK
  <2>. QED
    BY <2>1, <2>2, FcnSeq DEF SlotSeqs
<1>16. free2 \in SlotSeqs' /\ Len(free2) = nf + 1 /\ DOMAIN free2 = 1 .. nf + 1
  <2>1. ASSUME NEW j \in 1 .. nf + 1 PROVE free2[j] \in Slots'
    BY <1>11, <1>14
  <2>2. free2 \in [1 .. nf + 1 -> Slots']
    BY <2>1
  <2>3. nf + 1 \in 0 .. nslots' /\ nf + 1 \in Nat
    BY <1>1, <1>6, <1>9 DEF TypeOK
  <2>. QED
    BY <2>2, <2>3, FcnSeq DEF SlotSeqs
<1>17. TypeOK'
  <2>1. NIL \in Link /\ id \in Link /\ mh[id].nextid \in Link /\ mh[id].mbytes \in Int
    <3>1. mh[id] \in MHead(nslots)
      BY <1>1 DEF TypeOK
    <3>2. mh[id].nextid \in (0 .. nslots - 1) \cup {NIL} /\ mh[id].mbytes \in Sizes \cup {0}
      BY <3>1 DEF MHead
    <3>3. Sizes \cup {0} \subseteq Int
      BY ConstantsAssumption
    <3>. QED
      BY <3>2, <3>3 DEF Link, Slots
  <2>2. /\ qh'.ds \in Link' /\ qh'.de \in Link'
        /\ qh'.es \in Link' /\ qh'.ee \in Link'
    BY <1>1, <1>11, <1>12, <2>1 DEF TypeOK
  <2>3. qh'.cbytes \in Int /\ qh'.qnum \in Int /\ qh'.tcnt \in 0 .. MaxCnt
    BY <1>1, <1>12, <2>1 DEF TypeOK
  <2>. QED
    BY <1>1, <1>11, <1>12, <2>2, <2>3 DEF TypeOK
<1>18. LiveList(live2)'
  <2>1. \A j \in 1 .. nl : live[j] # qh.ee
    BY <1>5, <1>6
  <2>2. qh.ds = live[1] /\ qh.de = live[nl] /\ 1 \in 1 .. nl /\ nl \in 1 .. nl
    BY <1>5, <1>9
  <2>3. Distinct(live2)
    <3>. SUFFICES ASSUME NEW i \in 1 .. nl - 1, NEW j \in 1 .. nl - 1,
                         live2[i] = live2[j]
                  PROVE  i = j
      BY <1>15 DEF Distinct
    <3>1. CASE i < k /\ j < k
      BY <1>5, <1>13, <3>1
    <3>2. CASE i >= k /\ j >= k
      <4>1. i + 1 = j + 1
        BY <1>5, <1>13, <3>2
      <4>. QED
        BY <4>1
    <3>3. CASE i < k /\ j >= k
      <4>1. i = j + 1
        BY <1>5, <1>13, <3>3
      <4>. QED
        BY <3>3, <4>1
    <3>4. CASE i >= k /\ j < k
      <4>1. i + 1 = j
        BY <1>5, <1>13, <3>4
      <4>. QED
        BY <3>4, <4>1
    <3>. QED
      BY <3>1, <3>2, <3>3, <3>4
  <2>4. CASE nl = 1
    <3>1. k = 1 /\ live2 = <<>> /\ qh.ds = qh.de
      BY <1>9, <1>15, <2>2, <2>4
    <3>2. IsList(live2, qh.ds, qh.de)'
      BY <1>12, <3>1 DEF IsList
    <3>. QED
      BY <1>5, <1>12, <1>15, <2>3, <2>4, <3>2 DEF LiveList
  <2>5. CASE nl # 1
    <3>1. /\ nl > 1 /\ live2 # <<>> /\ qh.ds # qh.de
          /\ 1 \in 1 .. nl - 1 /\ nl - 1 \in 1 .. nl - 1 /\ nl - 1 \in 1 .. nl
      BY <1>5, <1>9, <1>15, <2>2, <2>5
    <3>2. qh'.ds = live2[1]
      <4>1. CASE k = 1
        BY <1>9, <1>12, <1>13, <3>1, <4>1
      <4>2. CASE k # 1
        <5>1. 1 < k /\ k - 1 \in 1 .. nl /\ live2[1] = live[1]
          BY <1>9, <1>13, <3>1, <4>2
        <5>2. before # NIL
          BY <1>5, <1>9, <4>2, <5>1
        <5>. QED
          BY <1>12, <2>2, <3>1, <5>1, <5>2
      <4>. QED
        BY <4>1, <4>2
    <3>3. qh'.de = live2[nl - 1]
      <4>1. CASE k = nl
        <5>1. live2[nl - 1] = live[nl - 1] /\ before = live[nl - 1]
          BY <1>9, <1>13, <3>1, <4>1
        <5>. QED
          BY <1>9, <1>12, <3>1, <4>1, <5>1
      <4>2. CASE k # nl
        <5>1. k < nl /\ k + 1 \in 1 .. nl /\ live2[nl - 1] = live[(nl - 1) + 1]
          BY <1>9, <1>13, <3>1, <4>2
        <5>2. mh[id].nextid # NIL
          BY <1>5, <1>9, <4>2, <5>1
        <5>. QED
          BY <1>12, <2>2, <3>1, <5>1, <5>2
      <4>. QED
        BY <4>1, <4>2
    <3>4. ASSUME NEW j \in 1 .. nl - 1
          PROVE  mh'[live2[j]].nextid = IF j = nl - 1 THEN NIL ELSE live2[j + 1]
      <4>0. mh'[live2[j]].nextid = IF live2[j] = before THEN mh[id].nextid
                                   ELSE mh[live2[j]].nextid
        <5>1. live2[j] # qh.ee /\ live2[j] # id /\ live2[j] \in Slots
          BY <1>13, <2>1
        <5>. QED
          BY <1>11, <5>1
      <4>1. CASE j >= k
        <5>1. j + 1 \in 1 .. nl /\ live2[j] = live[j + 1]
          BY <1>13, <4>1
        <5>2. live2[j] # before
          BY <1>5, <1>9, <4>1, <5>1
        <5>3. mh[live[j + 1]].nextid = IF j + 1 = nl THEN NIL ELSE live[(j + 1) + 1]
          BY <1>5, <5>1
        <5>4. j # nl - 1 => j + 1 \in 1 .. nl - 1 /\ live2[j + 1] = live[(j + 1) + 1]
          BY <1>13, <4>1
        <5>. QED
          BY <4>0, <5>1, <5>2, <5>3, <5>4
      <4>2. CASE j = k - 1
        <5>1. live2[j] = before /\ j < k /\ k # 1
          BY <1>9, <1>13, <4>2
        <5>2. j # nl - 1 => live2[j + 1] = live[k + 1] /\ k # nl
          <6>1. j # nl - 1 => j + 1 \in 1 .. nl - 1 /\ j + 1 = k
            BY <4>2
          <6>. QED
            BY <1>13, <6>1
        <5>. QED
          BY <1>9, <4>0, <4>2, <5>1, <5>2
      <4>3. CASE j < k - 1
        <5>1. /\ j \in 1 .. nl /\ live2[j] = live[j] /\ j # nl /\ j # nl - 1
              /\ j + 1 \in 1 .. nl - 1 /\ j + 1 < k
          BY <1>9, <1>13, <4>3
        <5>2. live[j] # before
          BY <1>5, <1>9, <4>3, <5>1
        <5>3. live2[j + 1] = live[j + 1]
          BY <1>13, <5>1
        <5>. QED
          BY <1>5, <4>0, <5>1, <5>2, <5>3
      <4>. QED
        BY <1>9, <4>1, <4>2, <4>3
    <3>5. IsList(live2, qh.ds, qh.de)'
      BY <1>15, <3>1, <3>2, <3>3, <3>4 DEF IsList
    <3>6. \A j \in DOMAIN live2 : mh'[live2[j]].alive = 1
      BY <1>11, <1>13, <1>15
    <3>. QED
      BY <1>5, <1>12, <1>15, <2>3, <3>5, <3>6 DEF LiveList
  <2>. QED
    BY <2>4, <2>5
<1>19. FreeList(free2, live2)'
  <2>1. \A j \in 1 .. nf : free[j] # before
    <3>1. before # NIL => mh[before].alive = 1
      <4>1. k # 1 => k - 1 \in 1 .. nl
        BY <1>9
      <4>. QED
        BY <1>5, <1>9, <4>1
    <3>. QED
      BY <1>6, <3>1
  <2>2. Distinct(free2)
    <3>. SUFFICES ASSUME NEW i \in 1 .. nf + 1, NEW j \in 1 .. nf + 1,
                         free2[i] = free2[j]
                  PROVE  i = j
      BY <1>16 DEF Distinct
    <3>1. CASE i = nf + 1 \/ j = nf + 1
      <4>1. \A m \in 1 .. nf : free2[m] # id
        BY <1>14
      <4>2. free2[i] = id
        BY <1>14, <3>1
      <4>3. ~(i \in 1 .. nf) /\ ~(j \in 1 .. nf)
        BY <4>1, <4>2
      <4>. QED
        BY <4>3
    <3>2. CASE i \in 1 .. nf /\ j \in 1 .. nf
      BY <1>6, <1>14, <3>2
    <3>. QED
      BY <3>1, <3>2
  <2>3. free2 # <<>>
    BY <1>16
  <2>4. qh'.es = free2[1] /\ qh'.ee = free2[nf + 1]
    <3>1. CASE nf = 0
      BY <1>6, <1>12, <1>14, <3>1
    <3>2. CASE nf # 0
      <4>1. 1 \in 1 .. nf
        BY <3>2
      <4>. QED
        BY <1>6, <1>12, <1>14, <3>2, <4>1
    <3>. QED
      BY <3>1, <3>2
  <2>5. ASSUME NEW j \in 1 .. nf + 1
        PROVE  mh'[free2[j]].nextid = IF j = nf + 1 THEN NIL ELSE free2[j + 1]
    <3>1. CASE j = nf + 1
      BY <1>11, <1>14, <3>1
    <3>2. CASE j = nf /\ nf # 0
      <4>1. free2[j] = qh.ee /\ qh.ee \in Slots /\ qh.ee # id /\ free2[j + 1] = id
        BY <1>6, <1>14, <3>2
      <4>. QED
        BY <1>11, <3>2, <4>1
    <3>3. CASE j < nf
      <4>1. j \in 1 .. nf /\ nf \in 1 .. nf /\ j + 1 \in 1 .. nf
        BY <3>3
      <4>2. free[j] # qh.ee
        BY <1>6, <3>3, <4>1
      <4>3. mh'[free2[j]].nextid = mh[free[j]].nextid
        BY <1>11, <1>14, <2>1, <4>1, <4>2
      <4>. QED
        BY <1>6, <1>14, <3>3, <4>1, <4>3
    <3>. QED
      BY <3>1, <3>2, <3>3
  <2>6. IsList(free2, qh.es, qh.ee)'
    BY <1>16, <2>3, <2>4, <2>5 DEF IsList
  <2>7. \A j \in DOMAIN free2 : mh'[free2[j]].alive = 0
    <3>. TAKE j \in 1 .. nf + 1
    <3>1. CASE j = nf + 1
      BY <1>11, <1>14, <3>1
    <3>2. CASE j \in 1 .. nf
      BY <1>6, <1>11, <1>14, <3>2
    <3>. QED
      BY <3>1, <3>2
  <2>8. \A i \in Slots' : OnList(i, live2) \/ OnList(i, free2)
    <3>1. \A j \in 1 .. nl : live[j] = id \/ OnList(live[j], live2)
      <4>. TAKE j \in 1 .. nl
      <4>1. CASE j < k
        <5>1. j \in 1 .. nl - 1 /\ live2[j] = live[j]
          BY <1>9, <1>13, <4>1
        <5>. QED
          BY <1>15, <5>1 DEF OnList
      <4>2. CASE j = k
        BY <1>7, <4>2
      <4>3. CASE j > k
        <5>1. j - 1 \in 1 .. nl - 1 /\ j - 1 >= k /\ (j - 1) + 1 = j
          BY <1>9, <4>3
        <5>2. live2[j - 1] = live[j]
          BY <1>13, <5>1
        <5>. QED
          BY <1>15, <5>1, <5>2 DEF OnList
      <4>. QED
        BY <1>9, <4>1, <4>2, <4>3
    <3>2. OnList(id, free2)
      BY <1>14, <1>16 DEF OnList
    <3>3. \A j \in 1 .. nf : OnList(free[j], free2)
      BY <1>14, <1>16 DEF OnList
    <3>4. ASSUME NEW i \in Slots PROVE OnList(i, live2) \/ OnList(i, free2)
      <4>1. CASE OnList(i, live)
        BY <1>5, <3>1, <3>2, <4>1 DEF OnList
      <4>2. CASE OnList(i, free)
        BY <1>6, <3>3, <4>2 DEF OnList
      <4>. QED
        BY <1>6, <4>1, <4>2
    <3>. QED
      BY <1>11, <3>4
  <2>9. Len(live2) + Len(free2) = nslots'
    <3>1. (nl - 1) + (nf + 1) = nslots
      BY <1>6
    <3>. QED
      BY <1>1, <1>15, <1>16, <3>1
  <2>. QED
    BY <1>15, <1>16, <2>2, <2>6, <2>7, <2>8, <2>9 DEF FreeList, OnList
<1>20. ScanOn(live2)'
  BY <1>1 DEF ScanOn
<1>21. TakenAt(live, k)
  BY <1>4, <1>7, <1>9 DEF TakenAt
<1>22. Shortened(live, k, live2)
  BY <1>3, <1>13, <1>15 DEF Shortened
<1>. HIDE DEF live2, free2
<1>. QED
  BY <1>2, <1>3, <1>9, <1>15, <1>16, <1>17, <1>18, <1>19, <1>20, <1>21, <1>22

LEMMA TakeInv ==
  ASSUME IInv, Take
  PROVE  IInv'
BY TakeLists DEF IInv, SlotsConserved

----------------------------------------------------------------------------
LEMMA StepInv == IInv /\ [Next]_vars => IInv'
<1>. SUFFICES ASSUME IInv, [Next]_vars PROVE IInv'
  OBVIOUS
<1>1. ASSUME NEW t \in Types, NEW s \in Sizes, Send(t, s) PROVE IInv'
  BY <1>1, SendInv
<1>2. ASSUME NEW t \in Types \cup {0}, BeginRecv(t) PROVE IInv'
  BY <1>2, BeginRecvInv
<1>3. ASSUME NEW i \in Slots, BeginRm(i, mh[i].uid) PROVE IInv'
  BY <1>3, BeginRmInv
<1>4. CASE ScanNext
  BY <1>4, ScanNextInv
<1>5. CASE ScanFound
  BY <1>5, ScanFoundInv
<1>6. CASE ScanEnd
  BY <1>6, ScanEndInv
<1>7. CASE TooBig
  BY <1>7, TooBigInv
<1>8. CASE Take
  BY <1>8, TakeInv
<1>9. CASE UNCHANGED vars
  <2>1. PICK live \in SlotSeqs :
          /\ LiveList(live) /\ ScanOn(live)
          /\ \E free \in SlotSeqs : FreeList(free, live)
    BY DEF IInv, SlotsConserved
  <2>2. UNCHANGED <<qh, nslots, mh>> /\ scan' = scan /\ TypeOK
    BY <1>9 DEF vars, IInv
  <2>3. ScanOn(live)'
    BY <2>1, <2>2 DEF ScanOn, Matches
  <2>. QED
    BY <2>1, <2>2, <2>3, Frame DEF TypeOK
<1>. QED
  BY <1>1, <1>2, <1>3, <1>4, <1>5, <1>6, <1>7, <1>8, <1>9 DEF Next

LEMMA Invariance == Spec => []IInv
  BY InitInv, StepInv, PTL DEF Spec

(* Whatever the capacity, the sizes and the types of the messages, and     *)
(* however sends, receives by type and removals follow each other: every   *)
(* slot of the control file is on exactly one of the two lists, both lists *)
(* end where the header says, and qnum counts the first.                   *)
THEOREM ListsStayProper == Spec => []SlotsConserved
<1>1. IInv => SlotsConserved
  BY DEF IInv
<1>. QED
  BY <1>1, Invariance, PTL

(* The header's links stay inside the file and its counter in range.       *)
THEOREM TypeCorrect == Spec => []TypeOK
<1>1. IInv => TypeOK
  BY DEF IInv
<1>. QED
  BY <1>1, Invariance, PTL

----------------------------------------------------------------------------
(* Induction, with a set in the place of a predicate.                      *)
Below == {ss \in Nat \X Nat : ss[1] < ss[2]}
(* The library proves that < on the naturals is well-founded, and that a   *)
(* well-founded relation has a minimum in every set.                       *)
LEMMA BelowIsWellFounded == IsWellFoundedOn(Below, Nat)
BY NatLessThanWellFounded DEF OpToRel, Below

LEMMA BelowDef == \A x, y \in Nat : (<<x, y>> \in Below) = (x < y)
BY DEF Below

(* A set that holds 0 and with a number its successor holds all numbers.   *)
LEMMA SetInduction ==
  ASSUME NEW S, 0 \in S, \A n \in Nat : n \in S => n + 1 \in S
  PROVE  \A n \in Nat : n \in S
<1>. DEFINE T == Nat \ S
<1>. SUFFICES ASSUME T # {} PROVE FALSE
  OBVIOUS
<1>0. T \subseteq Nat OBVIOUS
<1>1. \E n \in T : \A m \in T : ~ (<<m, n>> \in Below)
  <2>. HIDE DEF T
  <2>. QED BY ONLY T \subseteq Nat, T # {}, BelowIsWellFounded, WFMin
<1>2. PICK n \in T : \A m \in T : ~ (m < n)
  BY <1>1, BelowDef
<1>3. n - 1 \in Nat /\ n - 1 \notin T
  BY <1>2
<1>. QED
  BY <1>3

----------------------------------------------------------------------------
(* The list as a walk finds it.                                            *)
(* p is what following nextid from first passes.                           *)
Chain(m, p, first) ==
  /\ p = <<>> => first = NIL
  /\ p # <<>> => first = p[1]
  /\ \A k \in 1 .. Len(p) :
       m[p[k]].nextid = IF k = Len(p) THEN NIL ELSE p[k + 1]

(* The equation of Walk.                                                   *)
WalkStep(v, m, first, k) ==
  IF k = 0 THEN IF first = NIL THEN <<>> ELSE <<first>>
  ELSE LET p == v[k - 1] IN
       IF p = <<>> \/ m[p[Len(p)]].nextid = NIL THEN p
       ELSE Append(p, m[p[Len(p)]].nextid)

Reach(p, k) == IF k + 1 <= Len(p) THEN k + 1 ELSE Len(p)

(* The part of p a walk has seen after k steps.                            *)
Seen(p, k) == [j \in 1 .. Reach(p, k) |-> p[j]]

LEMMA SeenFacts ==
  ASSUME NEW p \in Seq(Nat), NEW k \in Nat
  PROVE /\ Seen(p, k) \in Seq(Nat)
        /\ Len(Seen(p, k)) = Reach(p, k) /\ Reach(p, k) \in Nat
        /\ \A j \in 1 .. Reach(p, k) : Seen(p, k)[j] = p[j]
<1>1. Reach(p, k) \in Nat /\ Reach(p, k) <= Len(p)
  BY DEF Reach
<1>2. Seen(p, k) \in [1 .. Reach(p, k) -> Nat]
  BY <1>1 DEF Seen
<1>3. Seen(p, k) \in Seq(Nat) /\ Len(Seen(p, k)) = Reach(p, k)
  BY <1>1, <1>2
<1>. QED
  BY <1>1, <1>3 DEF Seen

LEMMA SeenStep ==
  ASSUME NEW p \in Seq(Nat), NEW m, NEW first, Chain(m, p, first),
         NEW n \in Nat, NEW k \in 0 .. n,
         NEW v, k # 0 => v[k - 1] = Seen(p, k - 1)
  PROVE  Seen(p, k) = WalkStep(v, m, first, k)
<1>1. CASE k = 0
  <2>1. CASE p = <<>>
    <3>1. Reach(p, 0) = 0
      BY <2>1 DEF Reach
    <3>2. Seen(p, 0) \in Seq(Nat) /\ Len(Seen(p, 0)) = 0
      BY <3>1, SeenFacts
    <3>3. Seen(p, 0) = <<>>
      BY <3>2, EmptySeq
    <3>. QED
      BY <1>1, <2>1, <3>3 DEF WalkStep, Chain
  <2>2. CASE p # <<>>
    <3>1. Len(p) >= 1 /\ p[1] \in Nat
      BY <2>2, EmptySeq
    <3>2. Reach(p, 0) = 1
      BY <3>1 DEF Reach
    <3>3. first = p[1] /\ first # NIL
      BY <2>2, <3>1 DEF Chain, NIL
    <3>4. Seen(p, 0) = <<p[1]>>
      BY <3>2 DEF Seen
    <3>. QED
      BY <1>1, <3>3, <3>4 DEF WalkStep
  <2>. QED
    BY <2>1, <2>2
<1>2. CASE k # 0
  <2>. PICK l \in Nat : l = k - 1
    BY <1>2
  <2>1. v[k - 1] = Seen(p, l) /\ k = l + 1
    BY <1>2
  <2>2. /\ Seen(p, l) \in Seq(Nat)
        /\ Len(Seen(p, l)) = Reach(p, l) /\ Reach(p, l) \in Nat
        /\ \A j \in 1 .. Reach(p, l) : Seen(p, l)[j] = p[j]
    BY SeenFacts
  <2>3. CASE p = <<>>
    <3>1. Reach(p, l) = 0 /\ Reach(p, k) = 0
      BY <2>3 DEF Reach
    <3>. QED
      BY <1>2, <2>1, <2>2, <3>1 DEF WalkStep, Seen
  <2>4. CASE p # <<>> /\ l + 1 >= Len(p)
    <3>1. Reach(p, l) = Len(p) /\ Reach(p, k) = Len(p) /\ Len(p) \in 1 .. Len(p)
      BY <2>4, EmptySeq DEF Reach
    <3>2. Seen(p, l)[Len(p)] = p[Len(p)]
      BY <2>2, <3>1
    <3>3. m[Seen(p, l)[Len(Seen(p, l))]].nextid = NIL
      BY <2>2, <3>1, <3>2 DEF Chain
    <3>4. Seen(p, k) = Seen(p, l)
      BY <3>1 DEF Seen
    <3>. QED
      BY <1>2, <2>1, <3>3, <3>4 DEF WalkStep
  <2>5. CASE p # <<>> /\ l + 1 < Len(p)
    <3>1. /\ Reach(p, l) = l + 1 /\ Reach(p, k) = l + 2
          /\ l + 1 \in 1 .. Len(p) /\ l + 2 \in 1 .. Len(p)
      BY <2>5 DEF Reach
    <3>2. Seen(p, l)[l + 1] = p[l + 1]
      BY <2>2, <3>1
    <3>3. m[Seen(p, l)[Len(Seen(p, l))]].nextid = p[l + 2]
      <4>1. Len(Seen(p, l)) = l + 1
        BY <2>2, <3>1
      <4>2. m[p[l + 1]].nextid = p[(l + 1) + 1]
        BY <2>5, <3>1 DEF Chain
      <4>. QED
        BY <3>1, <3>2, <4>1, <4>2
    <3>4. p[l + 2] \in Nat /\ p[l + 2] # NIL
      BY <3>1 DEF NIL
    <3>5. Seen(p, l) # <<>>
      BY <2>2, <3>1
    <3>6. WalkStep(v, m, first, k) = Append(Seen(p, l), p[l + 2])
      BY <1>2, <2>1, <3>3, <3>4, <3>5 DEF WalkStep
    <3>7. Append(Seen(p, l), p[l + 2]) = Seen(p, k)
      BY <2>2, <3>1 DEF Seen
    <3>. QED
      BY <3>6, <3>7
  <2>. QED
    BY <2>3, <2>4, <2>5
<1>. QED
  BY <1>1, <1>2

(* A walk that takes as many steps as there are slots visits the whole     *)
(* list and nothing else, by induction on the steps.                       *)
LEMMA WalkFinds ==
  ASSUME NEW n \in Nat, NEW m, NEW p \in Seq(Nat), Len(p) <= n,
         NEW first, Chain(m, p, first)
  PROVE  Walk(m, first, n) = p
<1>. DEFINE Eq(v) == v = [k \in 0 .. n |-> WalkStep(v, m, first, k)]
            w == [k \in 0 .. n |-> Seen(p, k)]
            visited == CHOOSE v : Eq(v)
<1>1. Eq(w)
  <2>1. ASSUME NEW k \in 0 .. n PROVE Seen(p, k) = WalkStep(w, m, first, k)
    <3>1. k # 0 => w[k - 1] = Seen(p, k - 1)
      OBVIOUS
    <3>. HIDE DEF w
    <3>. QED
      BY <3>1, SeenStep
  <2>. QED
    BY <2>1
<1>2. Eq(visited)
  <2>. HIDE DEF Eq
  <2>. QED
    BY <1>1
<1>3. Walk(m, first, n) = visited[n]
  BY DEF Walk, WalkStep
<1>4. \A k \in 0 .. n : visited[k] = WalkStep(visited, m, first, k)
  BY <1>2
<1>. HIDE DEF visited
<1>. DEFINE S == {k \in Nat : k <= n => visited[k] = Seen(p, k)}
<1>5. 0 \in S
  <2>1. 0 \in 0 .. n
    OBVIOUS
  <2>2. Seen(p, 0) = WalkStep(visited, m, first, 0)
    BY <2>1, SeenStep
  <2>. QED
    BY <1>4, <2>1, <2>2
<1>6. \A k \in Nat : k \in S => k + 1 \in S
  <2>. SUFFICES ASSUME NEW k \in Nat, k \in S, k + 1 <= n PROVE visited[k + 1] = Seen(p, k + 1)
    OBVIOUS
  <2>1. k + 1 \in 0 .. n /\ k + 1 # 0 /\ visited[(k + 1) - 1] = Seen(p, (k + 1) - 1)
    OBVIOUS
  <2>2. Seen(p, k + 1) = WalkStep(visited, m, first, k + 1)
    <3>. HIDE DEF S
    <3>. QED BY <2>1, SeenStep
  <2>. QED
    BY <1>4, <2>1, <2>2
<1>7. n \in S
  <2>. HIDE DEF S
  <2>. QED
    BY <1>5, <1>6, SetInduction
<1>8. visited[n] = Seen(p, n)
  BY <1>7
<1>9. Seen(p, n) = p
  <2>1. Reach(p, n) = Len(p)
    BY DEF Reach
  <2>. QED
    BY <2>1, SeenFacts DEF Seen
<1>. QED
  BY <1>3, <1>8, <1>9
----------------------------------------------------------------------------
(* The sum of the bytes of a sequence of messages.                         *)
(* f holds the sums of the first bytes of q, one message more each time.   *)
Sums(f, q) ==
  f = [k \in 0 .. Len(q) |-> IF k = 0 THEN 0 ELSE f[k - 1] + q[k].mbytes]

(* The messages of q, with lengths that can be added.                      *)
Sized(q) == \E n \in Nat : Len(q) = n /\ \A k \in 1 .. n : q[k].mbytes \in Int

(* What is to be shown of a candidate, one sum at a time.                  *)
LEMMA SumsAre ==
  ASSUME NEW q, Sized(q), NEW f, f \in [0 .. Len(q) -> Int], f[0] = 0,
         \A k \in 1 .. Len(q) : f[k] = f[k - 1] + q[k].mbytes
  PROVE  Sums(f, q)
<1>1. Len(q) \in Nat
  BY DEF Sized
<1>2. ASSUME NEW k \in 0 .. Len(q)
      PROVE  f[k] = IF k = 0 THEN 0 ELSE f[k - 1] + q[k].mbytes
  BY <1>1
<1>3. DOMAIN f = 0 .. Len(q)
  OBVIOUS
<1>4. f = [k \in 0 .. Len(q) |-> f[k]]
  OBVIOUS
<1>. QED
  BY <1>2, <1>4 DEF Sums

(* The recursion of BytesOf has a solution, by induction on the length.    *)
LEMMA SumsExist ==
  ASSUME NEW q, Sized(q)
  PROVE  \E f \in [0 .. Len(q) -> Int] : Sums(f, q)
<1>. DEFINE Ok(n, f) == f[0] = 0 /\ \A k \in 1 .. n : f[k] = f[k - 1] + q[k].mbytes
            S == {n \in Nat : n <= Len(q) => \E f \in [0 .. n -> Int] : Ok(n, f)}
<1>1. Len(q) \in Nat /\ \A k \in 1 .. Len(q) : q[k].mbytes \in Int
  BY DEF Sized
<1>2. 0 \in S
  <2>1. [k \in 0 .. 0 |-> 0] \in [0 .. 0 -> Int] /\ Ok(0, [k \in 0 .. 0 |-> 0])
    OBVIOUS
  <2>. QED
    BY <2>1
<1>3. \A n \in Nat : n \in S => n + 1 \in S
  <2>. SUFFICES ASSUME NEW n \in Nat, n \in S, n + 1 <= Len(q)
                PROVE  \E f \in [0 .. n + 1 -> Int] : Ok(n + 1, f)
    OBVIOUS
  <2>1. PICK f \in [0 .. n -> Int] : Ok(n, f)
    BY <1>1
  <2>. DEFINE g == [k \in 0 .. n + 1 |-> IF k <= n THEN f[k] ELSE f[n] + q[n + 1].mbytes]
  <2>2. n + 1 \in 1 .. Len(q) /\ q[n + 1].mbytes \in Int
    BY <1>1
  <2>3. g \in [0 .. n + 1 -> Int]
    BY <2>2
  <2>4. g[0] = 0
    BY <2>1
  <2>5. ASSUME NEW k \in 1 .. n + 1 PROVE g[k] = g[k - 1] + q[k].mbytes
    <3>1. CASE k <= n
      <4>1. k \in 1 .. n /\ k \in 0 .. n + 1 /\ k - 1 \in 0 .. n + 1 /\ k - 1 <= n
        BY <3>1
      <4>2. g[k] = f[k] /\ g[k - 1] = f[k - 1]
        BY <3>1, <4>1
      <4>. QED
        BY <2>1, <4>1, <4>2
    <3>2. CASE k = n + 1
      BY <3>2
    <3>. QED
      BY <3>1, <3>2
  <2>. HIDE DEF g
  <2>. QED
    BY <2>3, <2>4, <2>5
<1>4. Len(q) \in S
  <2>. HIDE DEF S
  <2>. QED
    BY <1>1, <1>2, <1>3, SetInduction
<1>5. PICK f \in [0 .. Len(q) -> Int] : Ok(Len(q), f)
  BY <1>1, <1>4
<1>. QED
  BY <1>5, SumsAre

(* It has only one.                                                        *)
LEMMA SumsUnique ==
  ASSUME NEW q, Sized(q), NEW f, NEW g, Sums(f, q), Sums(g, q)
  PROVE  f[Len(q)] = g[Len(q)]
<1>. DEFINE S == {n \in Nat : n <= Len(q) => f[n] = g[n]}
<1>1. Len(q) \in Nat
  BY DEF Sized
<1>2. ASSUME NEW h, Sums(h, q), NEW k \in 0 .. Len(q)
      PROVE  h[k] = IF k = 0 THEN 0 ELSE h[k - 1] + q[k].mbytes
  BY <1>2 DEF Sums
<1>3. 0 \in S
  BY <1>1, <1>2
<1>4. \A n \in Nat : n \in S => n + 1 \in S
  BY <1>1, <1>2
<1>5. Len(q) \in S
  <2>. HIDE DEF S
  <2>. QED
    BY <1>1, <1>3, <1>4, SetInduction
<1>. QED
  BY <1>5

(* Whatever sums of q one has, their last is the byte count.               *)
LEMMA BytesOfIs ==
  ASSUME NEW q, Sized(q), NEW f, Sums(f, q)
  PROVE  MQ!BytesOf(q) = f[Len(q)]
<1>1. PICK v : v = CHOOSE upTo : Sums(upTo, q)
  OBVIOUS
<1>2. Sums(v, q)
  BY <1>1
<1>3. MQ!BytesOf(q) = v[Len(q)]
  BY <1>1 DEF MQ!BytesOf, Sums
<1>. QED
  BY <1>2, <1>3, SumsUnique

LEMMA BytesOfEmpty == MQ!BytesOf(<<>>) = 0
<1>1. Sized(<<>>)
  BY DEF Sized
<1>2. Sums([k \in 0 .. 0 |-> 0], <<>>)
  BY DEF Sums
<1>. QED
  BY <1>1, <1>2, BytesOfIs

(* One message more adds its bytes.                                        *)
LEMMA BytesOfLonger ==
  ASSUME NEW q, Sized(q), NEW r, Len(r) = Len(q) + 1, NEW b \in Int,
         \A k \in 1 .. Len(q) : r[k].mbytes = q[k].mbytes, r[Len(q) + 1].mbytes = b
  PROVE  MQ!BytesOf(r) = MQ!BytesOf(q) + b
<1>1. PICK f \in [0 .. Len(q) -> Int] : Sums(f, q)
  BY SumsExist
<1>2. PICK n \in Nat : n = Len(q) /\ \A k \in 1 .. n : q[k].mbytes \in Int
  BY DEF Sized
<1>3. Sized(r)
  <2>1. \A k \in 1 .. n + 1 : r[k].mbytes \in Int
    BY <1>2
  <2>. QED
    BY <1>2, <2>1 DEF Sized
<1>4. \A k \in 0 .. n : f[k] = IF k = 0 THEN 0 ELSE f[k - 1] + q[k].mbytes
  BY <1>1, <1>2 DEF Sums
<1>. DEFINE g == [k \in 0 .. n + 1 |-> IF k <= n THEN f[k] ELSE f[n] + b]
<1>5. g \in [0 .. n + 1 -> Int] /\ g[0] = 0 /\ g[n + 1] = f[n] + b
  BY <1>2, <1>4
<1>6. ASSUME NEW k \in 1 .. n + 1 PROVE g[k] = g[k - 1] + r[k].mbytes
  <2>1. CASE k <= n
    BY <1>2, <1>4, <2>1
  <2>2. CASE k = n + 1
    BY <1>2, <2>2
  <2>. QED
    BY <2>1, <2>2
<1>. HIDE DEF g
<1>7. Sums(g, r)
  BY <1>2, <1>3, <1>5, <1>6, SumsAre
<1>. QED
  BY <1>1, <1>2, <1>3, <1>5, <1>7, BytesOfIs

(* One message less, wherever it was, takes its bytes away.                *)
LEMMA BytesOfWithout ==
  ASSUME NEW q, Sized(q), NEW i \in 1 .. Len(q), NEW r, Len(r) = Len(q) - 1,
         \A k \in 1 .. Len(r) : r[k].mbytes = IF k < i THEN q[k].mbytes ELSE q[k + 1].mbytes
  PROVE  MQ!BytesOf(r) = MQ!BytesOf(q) - q[i].mbytes
<1>1. PICK f \in [0 .. Len(q) -> Int] : Sums(f, q)
  BY SumsExist
<1>2. PICK n \in Nat : n = Len(q) /\ \A k \in 1 .. n : q[k].mbytes \in Int
  BY DEF Sized
<1>3. i \in 1 .. n /\ n - 1 \in Nat /\ Len(r) = n - 1
  BY <1>2
<1>4. \A k \in 1 .. n - 1 : r[k].mbytes = IF k < i THEN q[k].mbytes ELSE q[k + 1].mbytes
  BY <1>3
<1>5. Sized(r)
  <2>1. \A k \in 1 .. n - 1 : r[k].mbytes \in Int
    BY <1>2, <1>4
  <2>. QED
    BY <1>3, <2>1 DEF Sized
<1>6. /\ f[0] = 0 /\ \A k \in 0 .. n : f[k] \in Int
      /\ \A k \in 1 .. n : f[k] = f[k - 1] + q[k].mbytes
  <2>1. \A k \in 0 .. n : f[k] = IF k = 0 THEN 0 ELSE f[k - 1] + q[k].mbytes
    BY <1>1, <1>2 DEF Sums
  <2>2. \A k \in 0 .. n : f[k] \in Int
    BY <1>1, <1>2
  <2>3. 0 \in 0 .. n /\ \A k \in 1 .. n : k \in 0 .. n /\ k # 0
    BY <1>2
  <2>. QED
    BY <2>1, <2>2, <2>3
<1>. DEFINE g == [k \in 0 .. n - 1 |-> IF k < i THEN f[k] ELSE f[k + 1] - q[i].mbytes]
<1>7. g \in [0 .. n - 1 -> Int] /\ g[0] = 0
  <2>1. \A k \in 0 .. n : f[k] \in Int
    BY <1>1, <1>2
  <2>2. q[i].mbytes \in Int
    BY <1>2, <1>3
  <2>3. g \in [0 .. n - 1 -> Int]
    BY <1>3, <2>1, <2>2
  <2>. QED
    BY <1>3, <1>6, <2>3
<1>8. g[n - 1] = f[n] - q[i].mbytes
  <2>1. CASE i = n
    <3>1. n \in 1 .. n /\ n - 1 \in 0 .. n
      BY <1>3
    <3>2. f[n] = f[n - 1] + q[n].mbytes /\ f[n - 1] \in Int /\ q[n].mbytes \in Int
      BY <1>2, <1>6, <3>1
    <3>. QED
      BY <1>3, <2>1, <3>2
  <2>2. CASE i < n
    BY <1>3, <2>2
  <2>. QED
    BY <1>3, <2>1, <2>2
<1>9. ASSUME NEW k \in 1 .. n - 1 PROVE g[k] = g[k - 1] + r[k].mbytes
  <2>1. /\ k \in 0 .. n - 1 /\ k - 1 \in 0 .. n - 1 /\ k \in 1 .. n /\ k + 1 \in 1 .. n
        /\ k \in 0 .. n /\ k + 1 \in 0 .. n /\ k - 1 \in 0 .. n /\ (k + 1) - 1 = k
    OBVIOUS
  <2>2. /\ f[k] = f[k - 1] + q[k].mbytes /\ f[k + 1] = f[k] + q[k + 1].mbytes
        /\ f[k - 1] \in Int /\ f[k] \in Int /\ f[k + 1] \in Int
        /\ q[k].mbytes \in Int /\ q[k + 1].mbytes \in Int /\ q[i].mbytes \in Int
    <3>1. f[k + 1] = f[(k + 1) - 1] + q[k + 1].mbytes
      BY <1>6, <2>1
    <3>. QED
      BY <1>2, <1>3, <1>6, <2>1, <3>1
  <2>3. CASE k < i
    BY <1>4, <2>1, <2>2, <2>3
  <2>4. CASE k = i
    BY <1>4, <2>1, <2>2, <2>4
  <2>5. CASE k > i
    BY <1>3, <1>4, <2>1, <2>2, <2>5
  <2>. QED
    BY <1>3, <2>3, <2>4, <2>5
<1>. HIDE DEF g
<1>10. Sums(g, r)
  BY <1>3, <1>5, <1>7, <1>9, SumsAre
<1>. QED
  BY <1>1, <1>2, <1>3, <1>5, <1>8, <1>10, BytesOfIs

----------------------------------------------------------------------------
(* A proper list of messages is what the walk visits.                      *)
LiveIs(live) == TypeOK /\ live \in SlotSeqs /\ LiveList(live) => Live = live

LEMMA LiveIsFound == \A live : LiveIs(live)
<1>. SUFFICES ASSUME NEW live, TypeOK, live \in SlotSeqs, LiveList(live)
              PROVE  Live = live
  BY DEF LiveIs
<1>1. /\ Len(live) \in 0 .. nslots
      /\ \A k \in 1 .. Len(live) :
           mh[live[k]].nextid = IF k = Len(live) THEN NIL ELSE live[k + 1]
      /\ Len(live) = 0 => qh.ds = NIL
      /\ Len(live) # 0 => qh.ds = live[1]
  BY LiveFacts
<1>a. Len(live) \in 0 .. nslots
  BY LiveFacts
<1>b. nslots \in Nat
  BY DEF TypeOK
<1>2. nslots \in Nat /\ live \in [1 .. Len(live) -> Slots]
  BY SlotSeqFacts DEF TypeOK
<1>3. live \in Seq(Nat)
  <2>1. Slots \subseteq Nat
    BY <1>2 DEF Slots
  <2>2. PICK n \in Nat : n = Len(live)
    BY ONLY <1>a, <1>b
  <2>3. live \in [1 .. n -> Nat]
    BY <1>2, <2>1, <2>2
  <2>. QED
    BY <2>3, FcnSeq
<1>4. Len(live) = 0 <=> live = <<>>
  BY <1>3, EmptySeq
<1>5. Chain(mh, live, qh.ds)
  BY <1>1, <1>4 DEF Chain
<1>6. nslots \in Nat /\ Len(live) <= nslots
  BY <1>a, <1>2
<1>7. Walk(mh, qh.ds, nslots) = live
  BY ONLY <1>3, <1>5, <1>6, WalkFinds
<1>. QED
  BY <1>7 DEF Live

LEMMA SlotSeqFactsNext ==
  ASSUME nslots' \in Nat, NEW p \in SlotSeqs'
  PROVE  /\ Len(p) \in 0 .. nslots'
         /\ \A k \in 1 .. Len(p) : p[k] \in Slots'
<1>1. PICK n \in 0 .. nslots' : p \in [1 .. n -> Slots']
  BY DEF SlotSeqs
<1>. QED
  BY <1>1, FcnSeq

LEMMA LiveIsFoundNext == \A live : LiveIs(live)'
<1>1. (\A live : LiveIs(live))'
  BY LiveIsFound, PTL
<1>. QED
  BY <1>1

----------------------------------------------------------------------------
(* The messages of a list of slots.                                        *)

(* The bytes of the message in every slot can be added.                    *)
LEMMA HeadFacts ==
  ASSUME TypeOK, NEW i \in Slots
  PROVE  /\ mh[i].mbytes \in Int /\ mh[i].mtype \in Types \cup {0}
         /\ mh[i].mtype \in Nat /\ mh[i].uid \in 0 .. MaxCnt
         /\ mh[i].nextid \in Link
<1>1. mh[i] \in MHead(nslots)
  BY DEF TypeOK
<1>2. Sizes \cup {0} \subseteq Int /\ Types \cup {0} \subseteq Nat
  BY ConstantsAssumption
<1>. QED
  BY <1>1, <1>2 DEF MHead, Link, Slots

LEMMA MsgsOfFacts ==
  ASSUME NEW n \in Nat, NEW p, Len(p) = n
  PROVE  /\ Len(MsgsOf(p)) = n
         /\ \A k \in 1 .. n :
              /\ MsgsOf(p)[k].mtype = mh[p[k]].mtype
              /\ MsgsOf(p)[k].mbytes = mh[p[k]].mbytes
              /\ MsgsOf(p)[k].uid = mh[p[k]].uid
BY DEF MsgsOf

LEMMA MsgsOfSized ==
  ASSUME TypeOK, NEW live \in SlotSeqs, LiveList(live)
  PROVE  Sized(MsgsOf(live))
<1>1. PICK n \in Nat : n = Len(live)
  BY LiveFacts DEF TypeOK
<1>2. \A k \in 1 .. n : live[k] \in Slots
  BY <1>1, LiveFacts
<1>3. \A k \in 1 .. n : mh[live[k]].mbytes \in Int
  BY <1>2, HeadFacts
<1>4. /\ Len(MsgsOf(live)) = n
      /\ \A k \in 1 .. n : MsgsOf(live)[k].mbytes = mh[live[k]].mbytes
  BY <1>1, MsgsOfFacts
<1>. QED
  BY <1>3, <1>4 DEF Sized

(* What a send leaves in the messages.                                     *)
LEMMA SendMsgs ==
  ASSUME TypeOK, NEW t \in Types, NEW s \in Sizes, Send(t, s),
         NEW i \in Slots, i # DesId
  PROVE  /\ mh'[i].mtype = mh[i].mtype
         /\ mh'[i].mbytes = mh[i].mbytes
         /\ mh'[i].uid = mh[i].uid
<1>1. mh' = SlotWritten(Linked(mh, qh.de, DesId), nslots, DesId, NewHead(qh, t, s))
  BY DEF Send
<1>2. i \in 0 .. (IF DesId < nslots THEN nslots ELSE DesId + 1) - 1
  BY DEF TypeOK, Slots, DesId, Link
<1>3. mh'[i] = Linked(mh, qh.de, DesId)[i]
  BY <1>1, <1>2 DEF SlotWritten
<1>4. DOMAIN mh = Slots /\ mh[i] \in MHead(nslots)
  BY DEF TypeOK
<1>5. mh'[i] = IF i = qh.de THEN [mh[i] EXCEPT !.nextid = DesId] ELSE mh[i]
  BY <1>3, <1>4 DEF Linked
<1>. QED
  BY <1>4, <1>5 DEF MHead

LEMMA SendMsg ==
  ASSUME TypeOK, NEW t \in Types, NEW s \in Sizes, Send(t, s), DesId \in Nat
  PROVE  /\ mh'[DesId].mtype = t
         /\ mh'[DesId].mbytes = s
         /\ mh'[DesId].uid = qh.tcnt
<1>1. mh' = SlotWritten(Linked(mh, qh.de, DesId), nslots, DesId, NewHead(qh, t, s))
  BY DEF Send
<1>2. DesId \in 0 .. (IF DesId < nslots THEN nslots ELSE DesId + 1) - 1
  BY DEF TypeOK
<1>3. mh'[DesId] = NewHead(qh, t, s)
  BY <1>1, <1>2 DEF SlotWritten
<1>. QED
  BY <1>3 DEF NewHead

(* A receive or a removal alters the message of no other slot.             *)
LEMMA TakeMsgs ==
  ASSUME TypeOK, Take, NEW i \in Slots, i # scan.cur, scan.cur \in Slots
  PROVE  /\ mh'[i].mtype = mh[i].mtype
         /\ mh'[i].mbytes = mh[i].mbytes
         /\ mh'[i].uid = mh[i].uid
<1>1. mh' = SlotsTaken(mh, qh, scan.before, scan.cur)
  BY DEF Take
<1>2. DOMAIN mh = Slots /\ mh[i] \in MHead(nslots)
  BY DEF TypeOK
<1>3. mh'[i] = IF i = qh.ee THEN [mh[i] EXCEPT !.nextid = scan.cur]
               ELSE IF i = scan.before THEN [mh[i] EXCEPT !.nextid = mh[scan.cur].nextid]
               ELSE mh[i]
  BY <1>1, <1>2 DEF SlotsTaken
<1>. QED
  BY <1>2, <1>3 DEF MHead


----------------------------------------------------------------------------
(* The invariant: that of DiskQFile, with the walks of a selection, on one *)
(* and the same list, and the bytes of that list.                          *)

(* The selection in progress; its cursors are slots.                       *)
Sels ==
  [phase : {"type", "message", "lost"}, bound : Types, cnt : Nat, ix : Nat,
   msgtyp : Nat, next : Link, before : Link]

SelTypeOK == sel \in {NoSel} \cup Sels /\ (sel # NoSel => scan = NoScan)

(* The first walk has the type of a message on the list and stands on the  *)
(* list or has left it; the second is as ChosenIsUnlinkable has it.        *)
WalkOn(live) ==
  /\ sel.phase = "type" =>
       /\ sel.before = NIL
       /\ sel.next # NIL => \E k \in 1 .. Len(live) : live[k] = sel.next
       /\ \E k \in 1 .. Len(live) : mh[live[k]].mtype = sel.msgtyp
  /\ sel.phase = "message" => SelectOn(live)

(* A receive looks for a type in use.                                      *)
KeyOK == scan # NoScan /\ scan.kind = "rcv" => scan.key \in Types \cup {0}

(* Messages have a type, so that 0 can ask for any.                        *)
MessagesTyped == \A i \in Slots : mh[i].alive = 1 => mh[i].mtype \in Types

(* The lists, the walk of a receive or removal and that of a selection are *)
(* about the same list of messages.                                        *)
ListsAndWalks ==
  \E live \in SlotSeqs :
    /\ LiveList(live)
    /\ \E free \in SlotSeqs : FreeList(free, live)
    /\ ScanOn(live)
    /\ WalkOn(live)

SInv ==
  /\ TypeOK /\ SelTypeOK /\ KeyOK /\ MessagesTyped
  /\ ListsAndWalks /\ BytesAccounted

(* The lists are where the walk finds them, before a step and after it.    *)
LEMMA SendRefines ==
  ASSUME SInv, NEW t \in Types, NEW s \in Sizes, Send(t, s)
  PROVE  MQ!Put(t, s) /\ BytesAccounted'
<1>1. TypeOK /\ IInv
  BY DEF SInv, ListsAndWalks, IInv, SlotsConserved
<1>2. PICK live \in SlotSeqs, live2 \in SlotSeqs' :
        LiveList(live) /\ Grown(live, DesId, live2) /\ LiveList(live2)' /\ TypeOK'
  BY <1>1, SendLists
<1>3. Live = live /\ Live' = live2
  BY <1>1, <1>2, LiveIsFound, LiveIsFoundNext DEF LiveIs
<1>4. PICK n \in Nat : n = Len(live) /\ \A k \in 1 .. n : live[k] \in Slots
  BY <1>1, <1>2, LiveFacts DEF TypeOK
<1>5. /\ Len(live2) = n + 1 /\ live2[n + 1] = DesId
      /\ \A k \in 1 .. n : live2[k] = live[k] /\ live[k] # DesId
  BY <1>2, <1>4 DEF Grown
<1>. DEFINE q == MsgsOf(live)
            m == [mtype |-> t, mbytes |-> s, uid |-> qh.tcnt]
<1>6. MsgsOf(Live)' = Append(q, m)
  <2>1. Len(q) = n /\ q = [k \in 1 .. n |-> q[k]]
    BY <1>4, MsgsOfFacts DEF MsgsOf
  <2>2. MsgsOf(Live)' = [k \in 1 .. n + 1 |->
          [mtype |-> mh'[live2[k]].mtype, mbytes |-> mh'[live2[k]].mbytes,
           uid |-> mh'[live2[k]].uid]]
    BY <1>3, <1>5 DEF MsgsOf
  <2>3. \A k \in 1 .. n :
          [mtype |-> mh'[live2[k]].mtype, mbytes |-> mh'[live2[k]].mbytes,
           uid |-> mh'[live2[k]].uid] = q[k]
    BY <1>1, <1>4, <1>5, SendMsgs DEF MsgsOf
  <2>4. DesId \in Nat
    <3>1. live2[n + 1] \in Slots' /\ nslots' \in Nat
      <4>1. Len(live2) \in 0 .. nslots' /\ (\A k \in 1 .. Len(live2) : live2[k] \in Slots')
        BY <1>2, SlotSeqFactsNext DEF TypeOK
      <4>. QED
        BY <1>2, <1>5, <4>1 DEF TypeOK
    <3>. QED
      BY <1>5, <3>1 DEF Slots
  <2>5. [mtype |-> mh'[live2[n + 1]].mtype, mbytes |-> mh'[live2[n + 1]].mbytes,
         uid |-> mh'[live2[n + 1]].uid] = m
    BY <1>1, <1>5, <2>4, SendMsg
  <2>. HIDE DEF q, m
  <2>6. Append(q, m) = [k \in 1 .. n + 1 |-> IF k = n + 1 THEN m ELSE q[k]]
    BY <2>1
  <2>. QED
    BY <2>2, <2>3, <2>5, <2>6
<1>7. qh.cbytes = MQ!BytesOf(q) /\ Sized(q)
  BY <1>1, <1>2, <1>3, MsgsOfSized DEF SInv, BytesAccounted
<1>8. qh'.cbytes = qh.cbytes + s /\ qh'.tcnt = (qh.tcnt + 1) % (MaxCnt + 1)
  <2>1. qh' = HeadSent(qh, DesId, s, NextEmpty)
    BY DEF Send
  <2>2. qh.tcnt \in 0 .. MaxCnt /\ MaxCnt \in Nat
    BY <1>1, ConstantsAssumption DEF TypeOK
  <2>. QED
    BY <2>1, <2>2 DEF HeadSent
<1>9. s \in Int /\ qh.cbytes + s <= QBytes
  BY ConstantsAssumption DEF Send
<1>10. MQ!BytesOf(Append(q, m)) = MQ!BytesOf(q) + s
  <2>1. PICK l \in Nat : l = Len(q)
    BY <1>7 DEF Sized
  <2>2. Len(Append(q, m)) = l + 1 /\ Append(q, m)[l + 1] = m /\ \A k \in 1 .. l : Append(q, m)[k] = q[k]
    BY <2>1, <1>4, MsgsOfFacts
  <2>3. m.mbytes = s
    OBVIOUS
  <2>. HIDE DEF q, m
  <2>. QED
    BY <1>7, <1>9, <2>1, <2>2, <2>3, BytesOfLonger
<1>11. BytesAccounted'
  BY <1>6, <1>7, <1>8, <1>10 DEF BytesAccounted
<1>12. MQ!Put(t, s)
  BY <1>3, <1>6, <1>7, <1>8, <1>9 DEF MQ!Put
<1>. QED
  BY <1>11, <1>12

LEMMA TakeRefines ==
  ASSUME SInv, Take
  PROVE  /\ \/ \E t \in Types \cup {0} : MQ!Receive(t)
            \/ \E u \in 0 .. MaxCnt : MQ!Remove(u)
         /\ BytesAccounted'
<1>1. TypeOK /\ IInv /\ scan \in Scans
  <2>1. TypeOK /\ IInv
    BY DEF SInv, ListsAndWalks, IInv, SlotsConserved
  <2>2. scan # NoScan
    BY DEF Take
  <2>3. scan \in {NoScan} \cup Scans
    BY <2>1 DEF TypeOK
  <2>. QED
    BY <2>1, <2>2, <2>3
<1>a. PICK live \in SlotSeqs, live2 \in SlotSeqs' : \E i \in 1 .. Len(live) :
        /\ LiveList(live) /\ TakenAt(live, i) /\ Shortened(live, i, live2)
        /\ LiveList(live2)' /\ TypeOK'
  BY <1>1, TakeLists
<1>2. PICK i \in 1 .. Len(live) :
        /\ LiveList(live) /\ TakenAt(live, i) /\ Shortened(live, i, live2)
        /\ LiveList(live2)' /\ TypeOK'
  BY <1>a
<1>3. Live = live /\ Live' = live2
  BY <1>1, <1>2, LiveIsFound, LiveIsFoundNext DEF LiveIs
<1>b. PICK n \in Nat : n = Len(live)
  BY <1>1, <1>2, LiveFacts DEF TypeOK
<1>4. /\ n = Len(live)
      /\ \A k \in 1 .. n : live[k] \in Slots
      /\ \A j, k \in 1 .. n : live[j] = live[k] => j = k
  BY <1>1, <1>2, <1>b, LiveFacts
<1>5. /\ i \in 1 .. n /\ scan.cur = live[i] /\ n - 1 \in Nat
      /\ Len(live2) = n - 1
      /\ \A k \in 1 .. n - 1 : live2[k] = IF k < i THEN live[k] ELSE live[k + 1]
  BY <1>2, <1>4 DEF Shortened, TakenAt
<1>. DEFINE q == MsgsOf(live)
<1>6. /\ Len(q) = n
      /\ \A k \in 1 .. n :
           /\ q[k] = [mtype |-> mh[live[k]].mtype, mbytes |-> mh[live[k]].mbytes,
                      uid |-> mh[live[k]].uid]
           /\ q[k].mtype = mh[live[k]].mtype
           /\ q[k].mbytes = mh[live[k]].mbytes
           /\ q[k].uid = mh[live[k]].uid
  BY <1>4 DEF MsgsOf
<1>7. MsgsOf(Live)' = MQ!Without(q, i)
  <2>1. MsgsOf(Live)' = [k \in 1 .. n - 1 |->
          [mtype |-> mh'[live2[k]].mtype, mbytes |-> mh'[live2[k]].mbytes,
           uid |-> mh'[live2[k]].uid]]
    BY <1>3, <1>5 DEF MsgsOf
  <2>2. ASSUME NEW k \in 1 .. n - 1
        PROVE  [mtype |-> mh'[live2[k]].mtype, mbytes |-> mh'[live2[k]].mbytes,
                uid |-> mh'[live2[k]].uid] = IF k < i THEN q[k] ELSE q[k + 1]
    <3>1. PICK j \in 1 .. n : j = IF k < i THEN k ELSE k + 1
      BY <1>4, <1>5
    <3>2. live2[k] = live[j] /\ j # i
      BY <1>5, <3>1
    <3>3. live[j] \in Slots /\ live[j] # scan.cur /\ scan.cur \in Slots
      BY <1>4, <1>5, <3>1, <3>2
    <3>4. /\ mh'[live[j]].mtype = mh[live[j]].mtype
          /\ mh'[live[j]].mbytes = mh[live[j]].mbytes
          /\ mh'[live[j]].uid = mh[live[j]].uid
      BY <1>1, <3>3, TakeMsgs
    <3>5. q[j] = IF k < i THEN q[k] ELSE q[k + 1]
      BY <3>1
    <3>. QED
      BY <1>6, <3>1, <3>2, <3>4, <3>5
  <2>3. MQ!Without(q, i) = [k \in 1 .. n - 1 |-> IF k < i THEN q[k] ELSE q[k + 1]]
    BY <1>6 DEF MQ!Without
  <2>. HIDE DEF q
  <2>. QED
    BY <2>1, <2>2, <2>3
<1>8. qh.cbytes = MQ!BytesOf(q) /\ Sized(q)
  BY <1>1, <1>2, <1>3, MsgsOfSized DEF SInv, BytesAccounted
<1>9. qh'.cbytes = qh.cbytes - q[i].mbytes /\ qh'.tcnt = qh.tcnt
  BY <1>1, <1>5, <1>6 DEF Take, HeadTaken, TypeOK
<1>10. MQ!BytesOf(MQ!Without(q, i)) = MQ!BytesOf(q) - q[i].mbytes
  <2>. DEFINE r == MQ!Without(q, i)
  <2>1. r = [k \in 1 .. n - 1 |-> IF k < i THEN q[k] ELSE q[k + 1]]
    BY <1>6 DEF MQ!Without
  <2>. HIDE DEF q, r
  <2>2. Len(r) = n - 1
    BY <1>5, <2>1
  <2>3. \A k \in 1 .. Len(r) : r[k].mbytes = IF k < i THEN q[k].mbytes ELSE q[k + 1].mbytes
    BY <1>5, <2>1, <2>2
  <2>4. i \in 1 .. Len(q) /\ Len(r) = Len(q) - 1
    BY <1>5, <1>6, <2>2
  <2>5. MQ!BytesOf(r) = MQ!BytesOf(q) - q[i].mbytes
    BY ONLY <1>8, <2>3, <2>4, BytesOfWithout
  <2>. QED
    BY <2>5 DEF r
<1>11. BytesAccounted'
  BY <1>7, <1>8, <1>9, <1>10 DEF BytesAccounted
<1>12. CASE scan.kind = "rcv"
  <2>1. /\ scan.key \in Types \cup {0}
        /\ scan.key = 0 \/ q[i].mtype = scan.key
        /\ \A j \in 1 .. i - 1 : scan.key # 0 /\ mh[live[j]].mtype # scan.key
    BY <1>2, <1>5, <1>6, <1>12 DEF TakenAt, Matches, SInv, KeyOK, Take
  <2>2. \A j \in 1 .. i - 1 : j \in 1 .. n /\ scan.key # 0 /\ q[j].mtype # scan.key
    BY <1>5, <1>6, <2>1
  <2>3. MQ!Receive(scan.key)
    BY <1>3, <1>5, <1>6, <1>7, <1>9, <2>1, <2>2 DEF MQ!Receive
  <2>. QED
    BY <1>11, <2>1, <2>3
<1>13. CASE scan.kind = "rm"
  <2>1. q[i].uid \in 0 .. MaxCnt
    BY <1>1, <1>4, <1>5, <1>6, HeadFacts
  <2>2. MQ!Remove(q[i].uid)
    BY <1>3, <1>5, <1>6, <1>7, <1>9 DEF MQ!Remove
  <2>. QED
    BY <1>11, <2>1, <2>2
<1>. QED
  BY <1>1, <1>12, <1>13 DEF Scans

----------------------------------------------------------------------------
(* The steps keep the invariant.                                           *)
(* A step of a selection leaves the file alone: the lists stay where they  *)
(* are, and what the walk finds.                                           *)
LEMMA FileStays ==
  ASSUME TypeOK, UNCHANGED <<qh, nslots, mh>>, scan' \in {NoScan} \cup Scans
  PROVE  /\ TypeOK' /\ Link' = Link /\ Sels' = Sels
         /\ MsgsOf(Live)' = MsgsOf(Live)
         /\ BytesAccounted => BytesAccounted'
         /\ MessagesTyped => MessagesTyped'
         /\ \A live \in SlotSeqs :
              /\ live \in SlotSeqs'
              /\ LiveList(live) => LiveList(live)'
              /\ (\E free \in SlotSeqs : FreeList(free, live)) =>
                   \E free \in SlotSeqs' : FreeList(free, live)'
<1>1. Slots' = Slots /\ Link' = Link /\ SlotSeqs' = SlotSeqs
  BY DEF Slots, Link, SlotSeqs
<1>2. TypeOK'
  <2>1. Scans' = Scans /\ MHead(nslots)' = MHead(nslots)
    BY <1>1 DEF Scans, MHead
  <2>. QED
    BY <1>1, <2>1 DEF TypeOK
<1>3. Sels' = Sels
  BY <1>1 DEF Sels
<1>4. MsgsOf(Live)' = MsgsOf(Live)
  BY DEF MsgsOf, Live
<1>5. BytesAccounted => BytesAccounted'
  BY <1>4 DEF BytesAccounted
<1>6. \A live \in SlotSeqs : LiveList(live) => LiveList(live)'
  BY DEF LiveList, IsList
<1>7. \A live, free : FreeList(free, live) => FreeList(free, live)'
  BY <1>1 DEF FreeList, IsList
<1>8. MessagesTyped => MessagesTyped'
  BY <1>1 DEF MessagesTyped
<1>. QED
  BY <1>1, <1>2, <1>3, <1>4, <1>5, <1>6, <1>7, <1>8

(* So a step of a selection only has to say where its walk is afterwards.  *)
LEMMA SelectFrame ==
  ASSUME SInv, UNCHANGED <<qh, nslots, mh>>,
         scan' \in {NoScan} \cup Scans, KeyOK', SelTypeOK',
         NEW live \in SlotSeqs, LiveList(live),
         \E free \in SlotSeqs : FreeList(free, live),
         ScanOn(live)', WalkOn(live)'
  PROVE  SInv'
<1>1. TypeOK /\ BytesAccounted /\ MessagesTyped
  BY DEF SInv
<1>. QED
  BY <1>1, FileStays DEF SInv, ListsAndWalks

LEMMA BeginSelectInv ==
  ASSUME SInv, NEW t \in Types, BeginSelect(t)
  PROVE  SInv'
<1>1. /\ scan = NoScan /\ UNCHANGED <<qh, nslots, mh>> /\ scan' = scan /\ qh.ds # NIL
      /\ sel' = [phase |-> "type", bound |-> t, cnt |-> nslots, ix |-> 1,
                 msgtyp |-> mh[qh.ds].mtype, next |-> mh[qh.ds].nextid, before |-> NIL]
  BY DEF BeginSelect, vars
<1>2. PICK live \in SlotSeqs :
        LiveList(live) /\ \E free \in SlotSeqs : FreeList(free, live)
  BY DEF SInv, ListsAndWalks
<1>3. TypeOK /\ nslots \in Nat
  BY DEF SInv, TypeOK
<1>4. PICK n \in Nat : n = Len(live)
  BY <1>2, <1>3, LiveFacts
<1>5. /\ 1 \in 1 .. n /\ qh.ds = live[1]
      /\ \A k \in 1 .. n : live[k] \in Slots
      /\ mh[live[1]].nextid = IF 1 = n THEN NIL ELSE live[1 + 1]
  BY <1>1, <1>2, <1>3, <1>4, LiveFacts
<1>6. /\ mh[qh.ds].mtype \in Nat /\ mh[qh.ds].nextid \in Link /\ NIL \in Link
  BY <1>3, <1>5, HeadFacts DEF Link
<1>7. sel' \in Sels
  BY <1>1, <1>3, <1>6 DEF Sels
<1>8. SelTypeOK' /\ KeyOK'
  BY <1>1, <1>3, <1>7, FileStays DEF SelTypeOK, KeyOK
<1>9. ScanOn(live)'
  BY <1>1 DEF ScanOn
<1>10. WalkOn(live)'
  <2>1. sel'.next # NIL => 2 \in 1 .. n /\ live[2] = sel'.next
    BY <1>1, <1>4, <1>5
  <2>2. 1 \in 1 .. n /\ mh'[live[1]].mtype = sel'.msgtyp
    BY <1>1, <1>5
  <2>3. sel'.phase = "type" /\ sel'.before = NIL
    BY <1>1
  <2>. QED
    BY <1>4, <2>1, <2>2, <2>3 DEF WalkOn
<1>. QED
  BY <1>1, <1>2, <1>8, <1>9, <1>10, SelectFrame

(* What a step of a selection starts from.                                 *)
LEMMA SelectStart ==
  ASSUME SInv, sel # NoSel
  PROVE  /\ scan = NoScan /\ TypeOK /\ sel \in Sels
         /\ \E live \in SlotSeqs : /\ LiveList(live) /\ WalkOn(live)
                                   /\ \E free \in SlotSeqs : FreeList(free, live)
BY DEF SInv, SelTypeOK, ListsAndWalks

LEMMA SmallerTypeInv ==
  ASSUME SInv, SmallerType
  PROVE  SInv'
<1>1. sel.phase = "type" /\ sel.next # NIL /\ UNCHANGED <<qh, nslots, mh>> /\ scan' = scan
  BY DEF SmallerType, vars
<1>2. sel # NoSel
  BY <1>1 DEF NoSel
<1>3. scan = NoScan /\ TypeOK /\ sel \in Sels
  BY <1>2, SelectStart
<1>4. PICK live \in SlotSeqs : /\ LiveList(live) /\ WalkOn(live)
                               /\ \E free \in SlotSeqs : FreeList(free, live)
  BY <1>2, SelectStart
<1>5. PICK n \in Nat :
        /\ n = Len(live)
        /\ \A k \in 1 .. n : /\ live[k] \in Slots
                             /\ mh[live[k]].nextid = IF k = n THEN NIL ELSE live[k + 1]
  BY <1>3, <1>4, LiveFacts DEF TypeOK
<1>6. PICK k \in 1 .. n : live[k] = sel.next
  BY <1>1, <1>4, <1>5 DEF WalkOn
<1>7. sel.before = NIL /\ \E j \in 1 .. n : mh[live[j]].mtype = sel.msgtyp
  BY <1>1, <1>4, <1>5 DEF WalkOn
<1>8. /\ sel.next \in Slots /\ mh[sel.next].mtype \in Nat /\ mh[sel.next].nextid \in Link
      /\ sel.ix + 1 \in Nat /\ scan' \in {NoScan} \cup Scans
  BY <1>1, <1>3, <1>5, <1>6, HeadFacts DEF Sels
<1>9. KeyOK' /\ ScanOn(live)'
  BY <1>1, <1>3 DEF KeyOK, ScanOn
<1>10. CASE mh[sel.next].mtype < sel.msgtyp
  <2>1. sel' = [sel EXCEPT !.msgtyp = mh[sel.next].mtype, !.next = mh[sel.next].nextid,
                           !.ix = sel.ix + 1]
    BY <1>10 DEF SmallerType
  <2>2. sel' \in Sels /\ Sels' = Sels
    BY <1>1, <1>3, <1>8, <2>1, FileStays DEF Sels
  <2>3. /\ sel'.phase = "type" /\ sel'.before = NIL
        /\ sel'.next = mh[live[k]].nextid /\ sel'.msgtyp = mh[live[k]].mtype
    BY <1>1, <1>3, <1>6, <1>7, <2>1 DEF Sels
  <2>4. sel'.next # NIL => k + 1 \in 1 .. n /\ live[k + 1] = sel'.next
    BY <1>5, <2>3
  <2>5. WalkOn(live)'
    BY <1>1, <1>5, <2>3, <2>4 DEF WalkOn
  <2>6. SelTypeOK'
    BY <1>1, <1>3, <2>2 DEF SelTypeOK
  <2>. QED
    BY <1>1, <1>4, <1>8, <1>9, <2>5, <2>6, SelectFrame
<1>11. CASE ~(mh[sel.next].mtype < sel.msgtyp)
  <2>1. sel' = [sel EXCEPT !.ix = sel.ix + 1]
    BY <1>11 DEF SmallerType
  <2>2. sel' \in Sels /\ Sels' = Sels
    BY <1>1, <1>3, <1>8, <2>1, FileStays DEF Sels
  <2>3. /\ sel'.phase = "type" /\ sel'.before = NIL
        /\ sel'.next = sel.next /\ sel'.msgtyp = sel.msgtyp
    BY <1>1, <1>3, <1>7, <2>1 DEF Sels
  <2>4. WalkOn(live)'
    BY <1>1, <1>5, <1>6, <1>7, <2>3 DEF WalkOn
  <2>5. SelTypeOK'
    BY <1>1, <1>3, <2>2 DEF SelTypeOK
  <2>. QED
    BY <1>1, <1>4, <1>8, <1>9, <2>4, <2>5, SelectFrame
<1>. QED
  BY <1>10, <1>11

LEMMA OutsideTypeInv ==
  ASSUME SInv, OutsideType
  PROVE  SInv'
<1>1. /\ sel.phase = "type" /\ sel.next = NIL
      /\ UNCHANGED <<qh, nslots, mh>> /\ scan' = scan
  BY DEF OutsideType, vars
<1>2. sel # NoSel
  BY <1>1 DEF NoSel
<1>3. scan = NoScan /\ TypeOK /\ sel \in Sels
  BY <1>2, SelectStart
<1>4. PICK live \in SlotSeqs : /\ LiveList(live) /\ WalkOn(live)
                               /\ \E free \in SlotSeqs : FreeList(free, live)
  BY <1>2, SelectStart
<1>5. sel.before = NIL /\ \E j \in 1 .. Len(live) : mh[live[j]].mtype = sel.msgtyp
  BY <1>1, <1>4 DEF WalkOn
<1>6. \/ sel' = [sel EXCEPT !.phase = "lost"]
      \/ sel' = [sel EXCEPT !.ix = sel.ix + 1]
  BY DEF OutsideType
<1>7. sel' \in Sels /\ sel'.phase \in {"type", "lost"}
  BY <1>1, <1>3, <1>6 DEF Sels
<1>8. sel'.phase = "type" =>
        sel'.before = NIL /\ sel'.next = NIL /\ sel'.msgtyp = sel.msgtyp
  BY <1>1, <1>3, <1>5, <1>6 DEF Sels
<1>9. Sels' = Sels /\ scan' \in {NoScan} \cup Scans
  BY <1>1, <1>3, FileStays
<1>10. KeyOK' /\ ScanOn(live)' /\ SelTypeOK'
  BY <1>1, <1>3, <1>7, <1>9 DEF KeyOK, ScanOn, SelTypeOK
<1>11. WalkOn(live)'
  BY <1>1, <1>5, <1>7, <1>8 DEF WalkOn
<1>. QED
  BY <1>1, <1>4, <1>9, <1>10, <1>11, SelectFrame

LEMMA StartMessageInv ==
  ASSUME SInv, StartMessage
  PROVE  SInv'
<1>1. /\ sel.phase = "type" /\ UNCHANGED <<qh, nslots, mh>> /\ scan' = scan
      /\ sel' = [sel EXCEPT !.phase = "message", !.ix = 0, !.next = qh.ds]
  BY DEF StartMessage, vars
<1>2. sel # NoSel
  BY <1>1 DEF NoSel
<1>3. scan = NoScan /\ TypeOK /\ sel \in Sels
  BY <1>2, SelectStart
<1>4. PICK live \in SlotSeqs : /\ LiveList(live) /\ WalkOn(live)
                               /\ \E free \in SlotSeqs : FreeList(free, live)
  BY <1>2, SelectStart
<1>5. PICK n \in Nat : n = Len(live) /\ DOMAIN live = 1 .. n
  BY <1>3, <1>4, LiveFacts DEF TypeOK
<1>6. PICK j \in 1 .. n : mh[live[j]].mtype = sel.msgtyp
  BY <1>1, <1>4, <1>5 DEF WalkOn
<1>7. 1 \in 1 .. n /\ qh.ds = live[1] /\ j \in 1 .. n
  BY <1>3, <1>4, <1>5, <1>6, LiveFacts
<1>8. sel.before = NIL
  BY <1>1, <1>4 DEF WalkOn
<1>9. /\ sel' \in Sels /\ sel'.phase = "message" /\ sel'.next = live[1]
      /\ sel'.ix = 0 /\ sel'.before = NIL /\ sel'.msgtyp = sel.msgtyp
  BY <1>1, <1>3, <1>7, <1>8 DEF Sels, TypeOK
<1>10. Sels' = Sels /\ scan' \in {NoScan} \cup Scans
  BY <1>1, <1>3, FileStays
<1>11. KeyOK' /\ ScanOn(live)' /\ SelTypeOK'
  BY <1>1, <1>3, <1>9, <1>10 DEF KeyOK, ScanOn, SelTypeOK
<1>12. SelectOn(live)'
  <2>1. \A i \in 1 .. 1 - 1 : mh'[live[i]].mtype # sel'.msgtyp
    OBVIOUS
  <2>2. mh'[live[j]].mtype = sel'.msgtyp
    BY <1>1, <1>6, <1>9
  <2>. QED
    BY <1>5, <1>7, <1>9, <2>1, <2>2 DEF SelectOn
<1>13. WalkOn(live)'
  BY <1>9, <1>12 DEF WalkOn
<1>. QED
  BY <1>1, <1>4, <1>10, <1>11, <1>13, SelectFrame

LEMMA WalkMessageInv ==
  ASSUME SInv, WalkMessage
  PROVE  SInv'
<1>1. /\ sel.phase = "message" /\ UNCHANGED <<qh, nslots, mh>> /\ scan' = scan
      /\ mh[sel.next].mtype # sel.msgtyp
      /\ sel' = [sel EXCEPT !.before = sel.next, !.next = mh[sel.next].nextid,
                            !.ix = sel.ix + 1]
  BY DEF WalkMessage, vars
<1>2. sel # NoSel
  BY <1>1 DEF NoSel
<1>3. scan = NoScan /\ TypeOK /\ sel \in Sels
  BY <1>2, SelectStart
<1>4. PICK live \in SlotSeqs : /\ LiveList(live) /\ WalkOn(live)
                               /\ \E free \in SlotSeqs : FreeList(free, live)
  BY <1>2, SelectStart
<1>5. PICK n \in Nat :
        /\ n = Len(live) /\ DOMAIN live = 1 .. n
        /\ \A k \in 1 .. n : /\ live[k] \in Slots
                             /\ mh[live[k]].nextid = IF k = n THEN NIL ELSE live[k + 1]
  BY <1>3, <1>4, LiveFacts DEF TypeOK
<1>6. PICK k \in 1 .. n :
        /\ sel.next = live[k] /\ sel.ix = k - 1
        /\ \A j \in 1 .. k - 1 : mh[live[j]].mtype # sel.msgtyp
        /\ \E j \in k .. n : mh[live[j]].mtype = sel.msgtyp
  BY <1>1, <1>4, <1>5 DEF WalkOn, SelectOn
<1>7. PICK j \in k + 1 .. n : mh[live[j]].mtype = sel.msgtyp
  <2>1. PICK j \in k .. n : mh[live[j]].mtype = sel.msgtyp
    BY <1>6
  <2>2. j # k
    BY <1>1, <1>6, <2>1
  <2>. QED
    BY <2>1, <2>2
<1>8. /\ k + 1 \in 1 .. n /\ mh[live[k]].nextid = live[k + 1]
      /\ live[k + 1] \in Slots /\ live[k] \in Slots
  BY <1>5, <1>6, <1>7
<1>9. /\ sel' \in Sels /\ sel'.phase = "message" /\ sel'.next = live[k + 1]
      /\ sel'.ix = (k + 1) - 1 /\ sel'.before = live[(k + 1) - 1]
      /\ sel'.msgtyp = sel.msgtyp
  <2>1. /\ sel.next \in Link /\ mh[sel.next].nextid = live[k + 1] /\ live[k + 1] \in Link
        /\ sel.ix + 1 \in Nat /\ sel.ix + 1 = (k + 1) - 1 /\ (k + 1) - 1 = k
    BY <1>3, <1>6, <1>8 DEF Sels, Link
  <2>2. sel' = [sel EXCEPT !.before = live[k], !.next = live[k + 1], !.ix = sel.ix + 1]
    BY <1>1, <1>6, <2>1
  <2>. QED
    BY <1>1, <1>3, <1>6, <2>1, <2>2 DEF Sels
<1>10. Sels' = Sels /\ scan' \in {NoScan} \cup Scans
  BY <1>1, <1>3, FileStays
<1>11. KeyOK' /\ ScanOn(live)' /\ SelTypeOK'
  BY <1>1, <1>3, <1>9, <1>10 DEF KeyOK, ScanOn, SelTypeOK
<1>12. SelectOn(live)'
  <2>1. \A i \in 1 .. (k + 1) - 1 : mh'[live[i]].mtype # sel'.msgtyp
    <3>1. \A i \in 1 .. (k + 1) - 1 : i \in 1 .. k - 1 \/ i = k
      OBVIOUS
    <3>. QED
      BY <1>1, <1>6, <1>9, <3>1
  <2>2. mh'[live[j]].mtype = sel'.msgtyp
    BY <1>1, <1>7, <1>9
  <2>3. k + 1 # 1
    OBVIOUS
  <2>. QED
    BY <1>5, <1>7, <1>8, <1>9, <2>1, <2>2, <2>3 DEF SelectOn
<1>13. WalkOn(live)'
  BY <1>9, <1>12 DEF WalkOn
<1>. QED
  BY <1>1, <1>4, <1>10, <1>11, <1>13, SelectFrame

LEMMA ChooseInv ==
  ASSUME SInv, Choose
  PROVE  SInv'
<1>1. /\ sel.phase = "message" /\ UNCHANGED <<qh, nslots, mh>> /\ sel' = NoSel
      /\ mh[sel.next].mtype = sel.msgtyp
      /\ scan' = [kind |-> "rcv", key |-> sel.msgtyp, before |-> sel.before,
                  cur |-> sel.next, found |-> TRUE]
  BY DEF Choose
<1>2. sel # NoSel
  BY <1>1 DEF NoSel
<1>3. scan = NoScan /\ TypeOK /\ sel \in Sels
  BY <1>2, SelectStart
<1>4. PICK live \in SlotSeqs : /\ LiveList(live) /\ WalkOn(live)
                               /\ \E free \in SlotSeqs : FreeList(free, live)
  BY <1>2, SelectStart
<1>5. PICK n \in Nat :
        /\ n = Len(live) /\ DOMAIN live = 1 .. n
        /\ \A k \in 1 .. n : live[k] \in Slots /\ mh[live[k]].alive = 1
  BY <1>3, <1>4, LiveFacts DEF TypeOK
<1>6. PICK k \in 1 .. n :
        /\ sel.next = live[k]
        /\ sel.before = IF k = 1 THEN NIL ELSE live[k - 1]
        /\ \A j \in 1 .. k - 1 : mh[live[j]].mtype # sel.msgtyp
  BY <1>1, <1>4, <1>5 DEF WalkOn, SelectOn
<1>7. sel.msgtyp \in Types \cup {0} /\ sel.msgtyp \in Nat
  BY <1>1, <1>3, <1>5, <1>6, HeadFacts
<1>8. scan' \in Scans
  BY <1>1, <1>3, <1>7 DEF Sels, Scans
<1>9. KeyOK' /\ SelTypeOK'
  BY <1>1, <1>7 DEF KeyOK, SelTypeOK
<1>10. WalkOn(live)'
  BY <1>1 DEF WalkOn, NoSel
<1>11. sel.msgtyp # 0
  <2>1. mh[live[k]].mtype \in Types
    BY <1>5 DEF SInv, MessagesTyped
  <2>. QED
    BY <1>1, <1>6, <2>1, ConstantsAssumption
<1>12. ScanOn(live)'
  BY <1>1, <1>5, <1>6, <1>11 DEF ScanOn, Matches
<1>. QED
  BY <1>1, <1>4, <1>8, <1>9, <1>10, <1>12, SelectFrame

(* With no selection in progress the lists need no walk to agree with.     *)
LEMMA IdleLists ==
  ASSUME IInv', sel' = NoSel, KeyOK', MessagesTyped', BytesAccounted'
  PROVE  SInv'
<1>1. PICK live \in SlotSeqs' :
        /\ LiveList(live)' /\ ScanOn(live)'
        /\ \E free \in SlotSeqs' : FreeList(free, live)'
  BY DEF IInv, SlotsConserved
<1>2. WalkOn(live)'
  BY DEF WalkOn, NoSel
<1>3. SelTypeOK' /\ TypeOK'
  BY DEF SelTypeOK, IInv
<1>. QED
  BY <1>1, <1>2, <1>3 DEF SInv, ListsAndWalks

(* Every operation of DiskQFile is an operation of the abstract queue or   *)
(* leaves that queue as it is.                                             *)
LEMMA OperationRefines ==
  ASSUME SInv, Next
  PROVE  /\ KeyOK' /\ MessagesTyped' /\ BytesAccounted' /\ IInv'
         /\ [MQ!ANext]_(MQ!avars)
<1>1. TypeOK /\ IInv /\ KeyOK /\ MessagesTyped /\ BytesAccounted
  BY DEF SInv, ListsAndWalks, IInv, SlotsConserved
<1>2. IInv' /\ TypeOK'
  BY <1>1, StepInv DEF IInv
<1>3. scan' \in {NoScan} \cup Scans'
  BY <1>2 DEF TypeOK
<1>4. ASSUME UNCHANGED <<qh, nslots, mh>>
      PROVE  /\ MessagesTyped' /\ BytesAccounted'
             /\ UNCHANGED MQ!avars
  <2>1. scan' \in {NoScan} \cup Scans
    BY <1>3, <1>4 DEF Scans, Link, Slots
  <2>2. MessagesTyped' /\ BytesAccounted' /\ MsgsOf(Live)' = MsgsOf(Live)
    BY <1>1, <1>4, <2>1, FileStays
  <2>. QED
    BY <1>4, <2>2 DEF MQ!avars
<1>5. ASSUME NEW t \in Types, NEW s \in Sizes, Send(t, s)
      PROVE  KeyOK' /\ MessagesTyped' /\ BytesAccounted' /\ MQ!ANext
  <2>1. MQ!Put(t, s) /\ BytesAccounted'
    BY <1>5, SendRefines
  <2>2. KeyOK'
    BY <1>5 DEF Send, KeyOK
  <2>3. PICK live \in SlotSeqs, free \in SlotSeqs : LiveList(live) /\ FreeList(free, live)
    BY <1>1 DEF IInv, SlotsConserved
  <2>4. DesId \in Nat /\ DesId <= nslots
    BY <1>1, <2>3, DesIdFacts
  <2>5. \A i \in Slots' : /\ i # DesId => i \in Slots
                          /\ mh'[i].alive = IF i = DesId THEN 1 ELSE mh[i].alive
    BY <1>1, <1>5, <2>4, SendSlots
  <2>6. ASSUME NEW i \in Slots', mh'[i].alive = 1 PROVE mh'[i].mtype \in Types
    <3>1. CASE i = DesId
      BY <1>1, <1>5, <2>4, <3>1, SendMsg
    <3>2. CASE i # DesId
      <4>1. i \in Slots /\ mh[i].alive = 1
        BY <2>5, <2>6, <3>2
      <4>2. mh'[i].mtype = mh[i].mtype
        BY <1>1, <1>5, <3>2, <4>1, SendMsgs
      <4>. QED
        BY <1>1, <4>1, <4>2 DEF MessagesTyped
    <3>. QED
      BY <3>1, <3>2
  <2>7. MessagesTyped'
    BY <2>6 DEF MessagesTyped
  <2>. QED
    BY <2>1, <2>2, <2>7 DEF MQ!ANext
<1>6. ASSUME Take
      PROVE  KeyOK' /\ MessagesTyped' /\ BytesAccounted' /\ MQ!ANext
  <2>1. BytesAccounted' /\ MQ!ANext
    BY <1>6, TakeRefines DEF MQ!ANext
  <2>2. KeyOK'
    BY <1>6 DEF Take, KeyOK
  <2>3. PICK live \in SlotSeqs : LiveList(live) /\ \E i \in 1 .. Len(live) : TakenAt(live, i)
    BY <1>1, <1>6, TakeLists
  <2>4. scan.cur \in Slots
    BY <1>1, <2>3, LiveFacts DEF TakenAt
  <2>5. scan \in Scans
    BY <1>1, <1>6 DEF Take, TypeOK
  <2>6. /\ Slots' = Slots
        /\ \A i \in Slots : mh'[i].alive = IF i = scan.cur THEN 0 ELSE mh[i].alive
    <3>1. mh' = SlotsTaken(mh, qh, scan.before, scan.cur) /\ nslots' = nslots
      BY <1>6 DEF Take
    <3>2. scan.before \in Link
      BY <2>5 DEF Scans
    <3>. QED
      BY <1>1, <2>4, <3>1, <3>2, TakeSlotsFacts
  <2>7. ASSUME NEW i \in Slots, mh'[i].alive = 1 PROVE mh'[i].mtype \in Types
    <3>1. i # scan.cur /\ mh[i].alive = 1
      BY <2>6, <2>7
    <3>2. mh'[i].mtype = mh[i].mtype
      BY <1>1, <1>6, <2>4, <3>1, TakeMsgs
    <3>. QED
      BY <1>1, <3>1, <3>2 DEF MessagesTyped
  <2>8. MessagesTyped'
    BY <2>6, <2>7 DEF MessagesTyped
  <2>. QED
    BY <2>1, <2>2, <2>8
<1>7. ASSUME NEW t \in Types \cup {0}, BeginRecv(t)
      PROVE  UNCHANGED <<qh, nslots, mh>> /\ KeyOK'
  BY <1>7 DEF BeginRecv, KeyOK
<1>8. ASSUME NEW i \in Slots, BeginRm(i, mh[i].uid)
      PROVE  UNCHANGED <<qh, nslots, mh>> /\ KeyOK'
  BY <1>8 DEF BeginRm, KeyOK
<1>9. ASSUME ScanNext \/ ScanFound \/ ScanEnd \/ TooBig
      PROVE  UNCHANGED <<qh, nslots, mh>> /\ KeyOK'
  <2>1. UNCHANGED <<qh, nslots, mh>> /\ scan # NoScan
    BY <1>9 DEF ScanNext, ScanFound, ScanEnd, TooBig
  <2>2. scan \in Scans
    BY <1>1, <2>1 DEF TypeOK
  <2>3. scan' # NoScan => scan'.kind = scan.kind /\ scan'.key = scan.key
    BY <1>9, <2>2 DEF ScanNext, ScanFound, ScanEnd, TooBig, Scans
  <2>. QED
    BY <1>1, <2>1, <2>3 DEF KeyOK
<1>. QED
  BY <1>2, <1>4, <1>5, <1>6, <1>7, <1>8, <1>9 DEF Next

LEMMA InitSInv == SInit => SInv /\ MQ!AInit
<1>. SUFFICES ASSUME SInit PROVE SInv /\ MQ!AInit
  OBVIOUS
<1>1. IInv /\ scan = NoScan /\ sel = NoSel
  BY InitInv DEF SInit, Init
<1>2. PICK live \in SlotSeqs :
        /\ LiveList(live) /\ ScanOn(live) /\ \E free \in SlotSeqs : FreeList(free, live)
  BY <1>1 DEF IInv, SlotsConserved
<1>3. Live = live
  BY <1>1, <1>2, LiveIsFound DEF LiveIs, IInv
<1>4. live = <<>>
  <2>1. qh.qnum = 0
    BY DEF SInit, Init, MakeControlFile
  <2>2. Len(live) = 0 /\ live \in Seq(Slots)
    BY <1>1, <1>2, <2>1, SlotSeqFacts DEF LiveList, IInv, TypeOK
  <2>. QED
    BY <2>2, EmptySeq
<1>5. MsgsOf(Live) = <<>>
  BY <1>3, <1>4 DEF MsgsOf
<1>6. qh.cbytes = 0 /\ qh.tcnt = 0
  BY DEF SInit, Init, MakeControlFile
<1>7. BytesAccounted
  BY <1>5, <1>6, BytesOfEmpty DEF BytesAccounted
<1>8. MessagesTyped
  BY DEF SInit, Init, MakeControlFile, MessagesTyped, Slots
<1>9. WalkOn(live) /\ SelTypeOK /\ KeyOK
  BY <1>1 DEF WalkOn, SelTypeOK, KeyOK, NoSel
<1>10. SInv
  BY <1>1, <1>2, <1>7, <1>8, <1>9 DEF SInv, ListsAndWalks, IInv
<1>11. MQ!AInit
  BY <1>5, <1>6 DEF MQ!AInit
<1>. QED
  BY <1>10, <1>11

LEMMA SelectStepInv ==
  SInv /\ [SNext]_svars => SInv' /\ [MQ!ANext]_(MQ!avars)
<1>. SUFFICES ASSUME SInv, [SNext]_svars PROVE SInv' /\ [MQ!ANext]_(MQ!avars)
  OBVIOUS
<1>1. TypeOK /\ scan \in {NoScan} \cup Scans
  BY DEF SInv, TypeOK
<1>2. ASSUME UNCHANGED <<qh, nslots, mh>>, scan' \in {NoScan} \cup Scans
      PROVE  UNCHANGED MQ!avars
  BY <1>1, <1>2, FileStays DEF MQ!avars
<1>3. CASE sel = NoSel /\ Next /\ UNCHANGED sel
  BY <1>3, OperationRefines, IdleLists
<1>4. ASSUME NEW t \in Types, BeginSelect(t) PROVE SInv' /\ UNCHANGED MQ!avars
  BY <1>1, <1>2, <1>4, BeginSelectInv DEF BeginSelect, vars
<1>5. CASE SmallerType
  BY <1>1, <1>2, <1>5, SmallerTypeInv DEF SmallerType, vars
<1>6. CASE OutsideType
  BY <1>1, <1>2, <1>6, OutsideTypeInv DEF OutsideType, vars
<1>7. CASE StartMessage
  BY <1>1, <1>2, <1>7, StartMessageInv DEF StartMessage, vars
<1>8. CASE WalkMessage
  BY <1>1, <1>2, <1>8, WalkMessageInv DEF WalkMessage, vars
<1>9. CASE Choose
  <2>1. SInv'
    BY <1>9, ChooseInv
  <2>2. UNCHANGED <<qh, nslots, mh>>
    BY <1>9 DEF Choose
  <2>3. MsgsOf(Live)' = MsgsOf(Live)
    BY <2>2 DEF MsgsOf, Live
  <2>. QED
    BY <2>1, <2>2, <2>3 DEF MQ!avars
<1>10. CASE UNCHANGED svars
  <2>1. UNCHANGED <<qh, nslots, mh>> /\ scan' = scan /\ sel' = sel
    BY <1>10 DEF svars
  <2>2. KeyOK' /\ SelTypeOK'
    BY <1>1, <2>1, FileStays DEF SInv, KeyOK, SelTypeOK
  <2>3. PICK live \in SlotSeqs :
          /\ LiveList(live) /\ ScanOn(live) /\ WalkOn(live)
          /\ \E free \in SlotSeqs : FreeList(free, live)
    BY DEF SInv, ListsAndWalks
  <2>4. ScanOn(live)' /\ WalkOn(live)'
    BY <2>1, <2>3 DEF ScanOn, Matches, WalkOn, SelectOn
  <2>. QED
    BY <1>1, <1>2, <2>1, <2>2, <2>3, <2>4, SelectFrame
<1>. QED
  BY <1>3, <1>4, <1>5, <1>6, <1>7, <1>8, <1>9, <1>10 DEF SNext, Select, Lost

LEMMA SelectInvariance == SSpec => []SInv
  BY InitSInv, SelectStepInv, PTL DEF SSpec

(* However receives by type, by negative type and removals interleave with *)
(* sends, each of them is one operation of the abstract queue: no message  *)
(* is lost, duplicated, altered or overtaken by one its receiver also      *)
(* asked for, the capacity is kept and unique ids are given in turn.       *)
THEOREM QueueImplemented == SSpec => ImplementsMsgQueue
BY InitSInv, SelectStepInv, SelectInvariance, PTL
   DEF SSpec, ImplementsMsgQueue, MQ!ASpec

(* The header's byte count is the sum of the lengths of the messages a     *)
(* walk finds, at every moment between two operations.                     *)
THEOREM BytesStayAccounted == SSpec => []BytesAccounted
<1>1. SInv => BytesAccounted
  BY DEF SInv
<1>. QED
  BY <1>1, SelectInvariance, PTL

(* The second walk of a receive with a negative type is on the list, with  *)
(* its predecessor remembered and a message of the type it looks for       *)
(* ahead: it never runs off the end it does not test for.                  *)
THEOREM SecondWalkEndsOnTheList == SSpec => []ChosenIsUnlinkable
<1>1. SInv => ChosenIsUnlinkable
  BY DEF SInv, ListsAndWalks, WalkOn, ChosenIsUnlinkable
<1>. QED
  BY <1>1, SelectInvariance, PTL

(* With selections in between as well, both lists stay proper and the      *)
(* header's fields in range.                                               *)
THEOREM ListsStayProperUnderSelection == SSpec => [](TypeOK /\ SlotsConserved)
<1>1. SInv => TypeOK /\ SlotsConserved
  BY DEF SInv, ListsAndWalks, SlotsConserved
<1>. QED
  BY <1>1, SelectInvariance, PTL

(* What a receive unlinks is the first message on the list that it asked   *)
(* for, what a removal unlinks is the slot it was given.                   *)
THEOREM OldestIsTaken == SSpec => OldestAskedFor
<1>1. SInv => [Take => TakesOldest]_vars
  <2>. SUFFICES ASSUME SInv, Take PROVE TakesOldest
    OBVIOUS
  <2>1. TypeOK /\ IInv
    BY DEF SInv, ListsAndWalks, IInv, SlotsConserved
  <2>2. PICK live \in SlotSeqs :
          LiveList(live) /\ \E i \in 1 .. Len(live) : TakenAt(live, i)
    BY <2>1, TakeLists
  <2>3. PICK i \in 1 .. Len(live) : TakenAt(live, i)
    BY <2>2
  <2>4. Live = live
    BY <2>1, <2>2, LiveIsFound DEF LiveIs
  <2>5. \A j \in 1 .. Len(live) : live[j] = live[i] => j = i
    <3>1. \A j, k \in 1 .. Len(live) : live[j] = live[k] => j = k
      BY <2>1, <2>2, LiveFacts
    <3>. QED
      BY <3>1
  <2>. DEFINE place == CHOOSE j \in 1 .. Len(Live) : Live[j] = scan.cur
  <2>6. place = i
    BY <2>3, <2>4, <2>5 DEF TakenAt
  <2>7. scan \in Scans
    BY <2>1 DEF Take, TypeOK
  <2>8. CASE scan.kind = "rm"
    BY <2>3, <2>8 DEF TakenAt, Matches, TakesOldest
  <2>9. CASE scan.kind = "rcv"
    <3>1. scan.key \in {0, mh[scan.cur].mtype}
      BY <2>3, <2>9 DEF TakenAt, Matches
    <3>2. \A j \in 1 .. i - 1 : scan.key # 0 /\ mh[live[j]].mtype # scan.key
      BY <2>3, <2>9 DEF TakenAt
    <3>. QED
      BY <2>4, <2>6, <2>9, <3>1, <3>2 DEF TakesOldest
  <2>. QED
    BY <2>7, <2>8, <2>9 DEF Scans
<1>. QED
  BY <1>1, SelectInvariance, PTL DEF OldestAskedFor

----------------------------------------------------------------------------
(* The control file write by write, with senders that are killed.  Between *)
(* two writes the lists are improper in ways the invariant names: the last *)
(* message may link anywhere, the first empty slot may be written already. *)

Header ==
  [cbytes : Int, qnum : Int, ds : Int, de : Int, es : Int, ee : Int, tcnt : Nat]
AnyHead ==
  [mtype : Nat, alive : {0, 1}, mbytes : Nat, uid : Nat, nextid : Int]
CTypeOK ==
  /\ nslots \in Nat /\ qh \in Header /\ mh \in [Slots -> AnyHead]
  /\ op \in {NoOp} \cup [kind : {"snd"}, id : Nat, slot : Seq(AnyHead), head : Header]
             \cup [kind : {"rcv"}, head : Header]

(* A sender has written its slot and not yet the header.                   *)
Written == op.kind = "snd" /\ op.slot = <<>>

Apart(n, live, f, free) ==
  /\ \A j, k \in 1 .. n : live[j] = live[k] => j = k
  /\ \A j, k \in 1 .. f : free[j] = free[k] => j = k
  /\ \A j \in 1 .. n, k \in 1 .. f : live[j] # free[k]

(* The messages, up to the tail; where the tail links to does not matter.  *)
MessagesAre(n, live, q) ==
  /\ q.ds = IF n = 0 THEN NIL ELSE live[1]
  /\ q.de = IF n = 0 THEN NIL ELSE live[n]
  /\ \A k \in 1 .. n - 1 : mh[live[k]].nextid = live[k + 1]
  /\ q.qnum = n /\ q.cbytes = Queue!BytesOf(MsgsOf(live))

(* The empty slots, of which a sender may have written the first.          *)
EmptyAre(n, f, free, q) ==
  /\ q.es = IF f = 0 THEN NIL ELSE free[1]
  /\ q.ee = IF f = 0 THEN NIL ELSE free[f]
  /\ \A k \in 1 .. f - 1 : mh[free[k]].nextid = free[k + 1] \/ (k = 1 /\ Written)
  /\ n + f = IF f = 0 /\ Written THEN nslots - 1 ELSE nslots

(* What a send will write is what its messages will be.                    *)
SendReady(n, live, f, free) ==
  op.kind = "snd" =>
    /\ scan = NoScan
    /\ op.id = IF f = 0 THEN n ELSE free[1]
    /\ \A k \in 1 .. n : live[k] # op.id
    /\ n # 0 => mh[live[n]].nextid = op.id
    /\ op.slot = <<>> => op.id \in Slots
    /\ op.slot # <<>> => Len(op.slot) = 1
    /\ op.head.cbytes = qh.cbytes + (IF op.slot = <<>> THEN mh[op.id] ELSE op.slot[1]).mbytes
    /\ op.head.qnum = n + 1
    /\ op.head.ds = IF n = 0 THEN op.id ELSE live[1]
    /\ op.head.de = op.id
    /\ op.head.es = IF f > 1 THEN free[2] ELSE NIL
    /\ op.head.ee = IF f > 1 THEN free[f] ELSE NIL

(* A receive of any type stands on the first message.                      *)
OnFirst ==
  op.kind = "none" /\ scan # NoScan =>
    scan.kind = "rcv" /\ scan.key = 0 /\ scan.before = NIL /\ scan.cur = qh.ds
    /\ qh.ds # NIL /\ scan.found \in BOOLEAN

Good(n, live, f, free) ==
  /\ live \in [1 .. n -> Slots] /\ free \in [1 .. f -> Slots]
  /\ Apart(n, live, f, free)
  /\ MessagesAre(n, live, CommittedHead)
  /\ EmptyAre(n, f, free, CommittedHead)
  /\ SendReady(n, live, f, free)

CInv ==
  /\ CTypeOK /\ OnFirst
  /\ \E n \in Nat, f \in Nat : \E live, free : Good(n, live, f, free)

(* The premise: a sender is killed after its first write only, and those   *)
(* who receive ask for any type.  README has what happens otherwise.       *)
SendersKilledEarly == CrashAt \subseteq {"link"} /\ Keys \subseteq {0}

LEMMA SameBytes == \A q : Queue!BytesOf(q) = MQ!BytesOf(q)
BY DEF Queue!BytesOf, MQ!BytesOf

FoundBy(n, live, f, free) ==
  CTypeOK /\ n \in Nat /\ f \in Nat /\ Good(n, live, f, free) => Committed = live

LEMMA CommittedIs == \A n, live, f, free : FoundBy(n, live, f, free)
<1>. SUFFICES ASSUME NEW n \in Nat, NEW f \in Nat, NEW live, NEW free,
                     CTypeOK, Good(n, live, f, free)
              PROVE  Committed = live
  BY DEF FoundBy
<1>1. PICK q : q = CommittedHead
  OBVIOUS
<1>2. /\ live \in [1 .. n -> Slots] /\ MessagesAre(n, live, q)
      /\ Apart(n, live, f, free) /\ EmptyAre(n, f, free, q)
  BY <1>1 DEF Good
<1>3. nslots \in Nat /\ n <= nslots /\ DOMAIN mh = Slots
  BY <1>2 DEF CTypeOK, EmptyAre
<1>4. live \in Seq(Nat) /\ Len(live) = n
  <2>1. live \in [1 .. n -> Nat]
    BY <1>2, <1>3 DEF Slots
  <2>. QED
    BY <2>1, FcnSeq
<1>. DEFINE m == Linked(mh, q.de, NIL)
<1>5. \A i \in Slots : m[i] = IF i = q.de THEN [mh[i] EXCEPT !.nextid = NIL] ELSE mh[i]
  BY <1>3 DEF Linked
<1>6. \A k \in 1 .. n : m[live[k]].nextid = IF k = n THEN NIL ELSE live[k + 1]
  <2>. TAKE k \in 1 .. n
  <2>1. /\ live[k] \in Slots /\ q.de = live[n] /\ mh[live[k]] \in AnyHead
        /\ live[k] = live[n] => k = n
    BY <1>2 DEF MessagesAre, Apart, CTypeOK
  <2>2. CASE k = n
    BY <1>5, <2>1, <2>2 DEF AnyHead
  <2>3. CASE k # n
    <3>1. live[k] # q.de
      BY <2>1, <2>3
    <3>2. m[live[k]] = mh[live[k]]
      BY <1>5, <2>1, <3>1
    <3>3. k \in 1 .. n - 1
      BY <2>3
    <3>. QED
      BY <1>2, <2>3, <3>2, <3>3 DEF MessagesAre
  <2>. QED
    BY <2>2, <2>3
<1>7. Chain(m, live, q.ds)
  <2>1. live = <<>> <=> n = 0
    BY <1>4, EmptySeq
  <2>. HIDE DEF m
  <2>. QED
    BY <1>2, <1>4, <1>6, <2>1 DEF Chain, MessagesAre
<1>8. Walk(m, q.ds, nslots) = live
  <2>. HIDE DEF m
  <2>. QED
    BY ONLY <1>3, <1>4, <1>7, WalkFinds
<1>. QED
  BY <1>1, <1>8 DEF Committed

LEMMA CommittedIsNext == \A n, live, f, free : FoundBy(n, live, f, free)'
<1>1. (\A n, live, f, free : FoundBy(n, live, f, free))'
  BY CommittedIs, PTL
<1>. QED
  BY <1>1

(* A write that alters no message on the list.                             *)
Unaltered(n, live) ==
  \A k \in 1 .. n : /\ mh'[live[k]].mtype = mh[live[k]].mtype
                    /\ mh'[live[k]].mbytes = mh[live[k]].mbytes
                    /\ mh'[live[k]].uid = mh[live[k]].uid

LEMMA MsgsStay ==
  ASSUME NEW n \in Nat, NEW S, NEW live \in [1 .. n -> S], Unaltered(n, live)
  PROVE  MsgsOf(live)' = MsgsOf(live)
<1>1. Len(live) = n
  BY FcnSeq
<1>. QED
  BY <1>1 DEF Unaltered, MsgsOf

MsgsKept == MsgsOf(Committed)' = MsgsOf(Committed)

LEMMA CommittedStays ==
  ASSUME CTypeOK, CTypeOK', NEW n \in Nat, NEW live, NEW f \in Nat, NEW free,
         NEW g \in Nat, NEW free2,
         Good(n, live, f, free), Good(n, live, g, free2)', Unaltered(n, live)
  PROVE  MsgsKept
<1>1. Committed = live
  BY CommittedIs DEF FoundBy
<1>2. FoundBy(n, live, g, free2)'
  BY CommittedIsNext
<1>3. Committed' = live
  BY <1>2 DEF FoundBy
<1>4. live \in [1 .. n -> Slots]
  BY DEF Good
<1>5. MsgsOf(live)' = MsgsOf(live)
  BY <1>4, MsgsStay
<1>. QED
  BY <1>1, <1>3, <1>5 DEF MsgsKept, MsgsOf

LEMMA InitCrash == CInit => CInv
<1>. SUFFICES ASSUME CInit PROVE CInv
  OBVIOUS
<1>. DEFINE free == [k \in 1 .. InitSlots |-> k - 1]
            live == <<>>
<1>1. /\ op = NoOp /\ scan = NoScan /\ nslots = InitSlots /\ InitSlots \in Nat \ {0}
      /\ qh = [cbytes |-> 0, qnum |-> 0, ds |-> NIL, de |-> NIL,
               es |-> 0, ee |-> InitSlots - 1, tcnt |-> 0]
      /\ mh = [i \in Slots |->
                 [mtype |-> 0, alive |-> 0, mbytes |-> 0, uid |-> 0,
                  nextid |-> IF i = InitSlots - 1 THEN NIL ELSE i + 1]]
  BY ConstantsAssumption DEF CInit, Init, MakeControlFile, Slots
<1>2. CTypeOK
  <2>1. qh \in Header
    BY <1>1 DEF Header, NIL
  <2>2. mh \in [Slots -> AnyHead]
    BY <1>1 DEF AnyHead, Slots, NIL
  <2>. QED
    BY <1>1, <2>1, <2>2 DEF CTypeOK
<1>3. OnFirst
  BY <1>1 DEF OnFirst
<1>4. CommittedHead = qh /\ ~Written /\ op.kind = "none"
  BY <1>1 DEF CommittedHead, Written, NoOp
<1>5. live \in [1 .. 0 -> Slots] /\ free \in [1 .. InitSlots -> Slots]
  BY <1>1 DEF Slots
<1>6. Apart(0, live, InitSlots, free)
  BY <1>1 DEF Apart
<1>7. MessagesAre(0, live, qh)
  <2>1. MsgsOf(live) = <<>>
    BY DEF MsgsOf
  <2>2. Queue!BytesOf(MsgsOf(live)) = 0
    BY <2>1, BytesOfEmpty, SameBytes
  <2>. QED
    BY <1>1, <2>2 DEF MessagesAre
<1>8. EmptyAre(0, InitSlots, free, qh)
  BY <1>1, <1>4 DEF EmptyAre, Slots
<1>9. SendReady(0, live, InitSlots, free)
  BY <1>4 DEF SendReady
<1>10. Good(0, live, InitSlots, free)
  BY <1>4, <1>5, <1>6, <1>7, <1>8, <1>9 DEF Good
<1>. HIDE DEF live, free
<1>. QED
  BY <1>1, <1>2, <1>3, <1>10 DEF CInv

(* The slot a send uses is that of no message.                             *)
LEMMA DesIdNew ==
  ASSUME CTypeOK, NEW n \in Nat, NEW f \in Nat, NEW live, NEW free,
         Good(n, live, f, free), op.kind = "none"
  PROVE  /\ DesId = IF f = 0 THEN n ELSE free[1]
         /\ DesId \in Nat /\ DesId <= nslots
         /\ \A k \in 1 .. n : live[k] # DesId
         /\ n + f = nslots
<1>1. CommittedHead = qh /\ ~Written
  BY DEF CommittedHead, Written
<1>2. /\ live \in [1 .. n -> Slots] /\ free \in [1 .. f -> Slots]
      /\ Apart(n, live, f, free) /\ n + f = nslots /\ nslots \in Nat
      /\ qh.es = IF f = 0 THEN NIL ELSE free[1]
      /\ qh.qnum = n
  BY <1>1 DEF Good, CTypeOK, EmptyAre, MessagesAre
<1>3. CASE f = 0
  BY <1>2, <1>3 DEF DesId, Slots
<1>4. CASE f # 0
  <2>1. 1 \in 1 .. f
    BY <1>4
  <2>2. free[1] \in Slots /\ \A k \in 1 .. n : live[k] # free[1]
    BY <1>2, <2>1 DEF Apart
  <2>. QED
    BY <1>2, <1>4, <2>2 DEF DesId, Slots, NIL
<1>. QED
  BY <1>3, <1>4

LEMMA SendLinkStep ==
  ASSUME CTypeOK, NEW n \in Nat, NEW f \in Nat, NEW live, NEW free,
         Good(n, live, f, free), NEW t \in Types, NEW s \in Sizes, SendLink(t, s)
  PROVE  CTypeOK' /\ OnFirst' /\ Good(n, live, f, free)' /\ MsgsKept
<1>1. /\ op = NoOp /\ op.kind = "none" /\ scan = NoScan /\ scan' = NoScan
      /\ mh' = Linked(mh, qh.de, DesId) /\ nslots' = nslots /\ Slots' = Slots
      /\ op' = [kind |-> "snd", id |-> DesId, slot |-> <<NewHead(qh, t, s)>>,
                head |-> HeadSent(qh, DesId, s, NextEmpty)]
  BY DEF SendLink, Idle, NoOp, Slots
<1>2. CommittedHead = qh /\ ~Written
  BY <1>1 DEF CommittedHead, Written
<1>3. /\ live \in [1 .. n -> Slots] /\ free \in [1 .. f -> Slots]
      /\ Apart(n, live, f, free) /\ MessagesAre(n, live, qh) /\ EmptyAre(n, f, free, qh)
  BY <1>2 DEF Good
<1>4. /\ qh \in Header /\ mh \in [Slots -> AnyHead] /\ nslots \in Nat /\ Slots \subseteq Nat
  BY DEF CTypeOK, Slots
<1>5. PICK c \in Nat : qh' = [qh EXCEPT !.tcnt = c]
  <2>1. CASE qh.de = NIL
    <3>1. PICK c \in 0 .. qh.tcnt : qh' = [qh EXCEPT !.tcnt = c]
      BY <2>1 DEF SendLink
    <3>. QED
      BY <1>4, <3>1 DEF Header
  <2>2. CASE qh.de # NIL
    <3>1. qh' = qh
      BY <2>2 DEF SendLink
    <3>2. qh = [qh EXCEPT !.tcnt = qh.tcnt] /\ qh.tcnt \in Nat
      BY <1>4 DEF Header
    <3>. QED
      BY <3>1, <3>2
  <2>. QED
    BY <2>1, <2>2
<1>6. /\ qh' \in Header
      /\ qh'.cbytes = qh.cbytes /\ qh'.qnum = qh.qnum
      /\ qh'.ds = qh.ds /\ qh'.de = qh.de /\ qh'.es = qh.es /\ qh'.ee = qh.ee
  BY <1>4, <1>5 DEF Header
<1>7. /\ DesId = IF f = 0 THEN n ELSE free[1]
      /\ DesId \in Nat /\ DesId <= nslots
      /\ \A k \in 1 .. n : live[k] # DesId
      /\ n + f = nslots
  BY <1>1, DesIdNew
<1>8. \A i \in Slots : mh'[i] = IF i = qh.de THEN [mh[i] EXCEPT !.nextid = DesId] ELSE mh[i]
  BY <1>1, <1>4 DEF Linked
<1>9. /\ NewHead(qh, t, s) \in AnyHead /\ NewHead(qh, t, s).mbytes = s /\ s \in Nat
  BY <1>4, ConstantsAssumption DEF NewHead, AnyHead, NIL, Header
<1>10. mh' \in [Slots -> AnyHead]
  <2>1. \A i \in Slots : mh'[i] \in AnyHead
    <3>. TAKE i \in Slots
    <3>1. mh[i] \in AnyHead
      BY <1>4
    <3>2. [mh[i] EXCEPT !.nextid = DesId] \in AnyHead
      BY <1>7, <3>1 DEF AnyHead
    <3>. QED
      BY <1>8, <3>1, <3>2
  <2>. QED
    BY <1>1, <1>4, <2>1 DEF Linked
<1>. DEFINE h == HeadSent(qh, DesId, s, NextEmpty)
<1>11. /\ h.cbytes = qh.cbytes + s /\ h.qnum = n + 1
       /\ h.ds = IF n = 0 THEN DesId ELSE live[1]
       /\ h.de = DesId
       /\ h.es = IF f > 1 THEN free[2] ELSE NIL
       /\ h.ee = IF f > 1 THEN free[f] ELSE NIL
  <2>1. /\ qh.ds = IF n = 0 THEN NIL ELSE live[1]
        /\ qh.qnum = n
        /\ qh.es = IF f = 0 THEN NIL ELSE free[1]
        /\ qh.ee = IF f = 0 THEN NIL ELSE free[f]
    BY <1>3 DEF MessagesAre, EmptyAre
  <2>2. n # 0 => live[1] \in Slots /\ live[1] # NIL
    BY <1>3 DEF Slots, NIL
  <2>3. /\ h.cbytes = qh.cbytes + s /\ h.qnum = qh.qnum + 1 /\ h.de = DesId
        /\ h.ds = IF qh.ds = NIL THEN DesId ELSE qh.ds
        /\ h.es = IF qh.es # NIL /\ qh.es # qh.ee THEN NextEmpty ELSE NIL
        /\ h.ee = IF qh.es # NIL /\ qh.es = qh.ee THEN NIL ELSE qh.ee
    BY DEF HeadSent
  <2>4. CASE f = 0
    BY <2>1, <2>2, <2>3, <2>4
  <2>5. CASE f # 0
    <3>1. 1 \in 1 .. f /\ f \in 1 .. f
      BY <2>5
    <3>2. free[1] \in Slots /\ free[1] # NIL /\ (free[1] = free[f] <=> f = 1)
      BY <1>3, <3>1 DEF Slots, NIL, Apart
    <3>3. f > 1 => NextEmpty = free[2]
      <4>1. f > 1 => 1 \in 1 .. f - 1
        OBVIOUS
      <4>2. f > 1 => mh[free[1]].nextid = free[1 + 1]
        BY <1>2, <1>3, <4>1 DEF EmptyAre
      <4>. QED
        BY <2>1, <2>5, <3>2, <4>2 DEF NextEmpty
    <3>4. f > 1 <=> f # 1
      BY <2>5
    <3>. HIDE DEF h
    <3>. QED
      BY <2>1, <2>2, <2>3, <2>5, <3>2, <3>3, <3>4
  <2>. QED
    BY <2>4, <2>5
<1>12. h \in Header
  <2>1. /\ h.ds \in Int /\ h.es \in Int /\ h.ee \in Int
    <3>1. n # 0 => live[1] \in Slots
      BY <1>3
    <3>2. f > 1 => free[2] \in Slots /\ free[f] \in Slots
      BY <1>3
    <3>3. DesId \in Int /\ NIL \in Int /\ (n # 0 => live[1] \in Int)
          /\ (f > 1 => free[2] \in Int /\ free[f] \in Int)
      <4>1. \A x \in Slots : x \in Int
        BY <1>4
      <4>2. DesId \in Int
        BY <1>7
      <4>3. NIL \in Int
        BY DEF NIL
      <4>. QED
        BY <3>1, <3>2, <4>1, <4>2, <4>3
    <3>. HIDE DEF h
    <3>. QED
      BY <1>11, <3>3
  <2>2. h.tcnt \in Nat
    BY <1>4 DEF HeadSent, Header
  <2>3. h = [cbytes |-> h.cbytes, qnum |-> h.qnum, ds |-> h.ds, de |-> h.de,
             es |-> h.es, ee |-> h.ee, tcnt |-> h.tcnt]
    BY DEF HeadSent
  <2>4. h.cbytes \in Int /\ h.qnum \in Int /\ h.de \in Int
    <3>. HIDE DEF h
    <3>. QED
      BY <1>4, <1>7, <1>9, <1>11 DEF Header
  <2>. HIDE DEF h
  <2>. QED
    BY <2>1, <2>2, <2>3, <2>4 DEF Header
<1>13. /\ op'.kind = "snd" /\ op'.id = DesId /\ op'.slot = <<NewHead(qh, t, s)>>
       /\ op'.head = h
  BY <1>1
<1>14. CTypeOK'
  <2>1. op'.slot \in Seq(AnyHead)
    BY <1>9, <1>13
  <2>2. op' \in [kind : {"snd"}, id : Nat, slot : Seq(AnyHead), head : Header]
    <3>. HIDE DEF h
    <3>. QED
      BY <1>1, <1>7, <1>12, <1>13, <2>1
  <2>. QED
    BY <1>1, <1>4, <1>6, <1>10, <2>2 DEF CTypeOK
<1>15. CommittedHead' = qh' /\ Written' = FALSE /\ OnFirst'
  BY <1>13 DEF CommittedHead, Written, OnFirst
<1>16. Unaltered(n, live)
  BY <1>3, <1>4, <1>8 DEF Unaltered, AnyHead
<1>17. MessagesAre(n, live, qh)'
  <2>1. \A k \in 1 .. n - 1 : mh'[live[k]].nextid = live[k + 1]
    <3>. TAKE k \in 1 .. n - 1
    <3>1. k \in 1 .. n /\ n \in 1 .. n /\ k # n
      OBVIOUS
    <3>2. live[k] \in Slots /\ live[k] # live[n] /\ qh.de = live[n]
      BY <1>3, <3>1 DEF Apart, MessagesAre
    <3>3. mh'[live[k]] = mh[live[k]]
      BY <1>8, <3>2
    <3>. QED
      BY <1>3, <3>3 DEF MessagesAre
  <2>2. MsgsOf(live)' = MsgsOf(live)
    BY <1>3, <1>16, MsgsStay
  <2>3. qh.cbytes = Queue!BytesOf(MsgsOf(live))
    BY <1>3 DEF MessagesAre
  <2>4. (qh.cbytes = Queue!BytesOf(MsgsOf(live)))'
    BY <1>6, <2>2, <2>3
  <2>. QED
    BY <1>3, <1>6, <2>1, <2>4 DEF MessagesAre
<1>18. EmptyAre(n, f, free, qh)'
  <2>1. \A k \in 1 .. f - 1 : mh'[free[k]].nextid = free[k + 1]
    <3>. TAKE k \in 1 .. f - 1
    <3>1. k \in 1 .. f /\ free[k] \in Slots /\ free[k] # NIL
      BY <1>3 DEF Slots, NIL
    <3>2. free[k] # qh.de
      BY <1>3, <3>1 DEF Apart, MessagesAre
    <3>. QED
      BY <1>2, <1>3, <1>8, <3>1, <3>2 DEF EmptyAre
  <2>. QED
    BY <1>1, <1>3, <1>6, <1>7, <1>15, <2>1 DEF EmptyAre
<1>19. SendReady(n, live, f, free)'
  <2>1. n # 0 => mh'[live[n]].nextid = DesId
    <3>. SUFFICES ASSUME n # 0 PROVE mh'[live[n]].nextid = DesId
      OBVIOUS
    <3>1. n \in 1 .. n
      OBVIOUS
    <3>2. live[n] \in Slots /\ qh.de = live[n] /\ mh[live[n]] \in AnyHead
      BY <1>3, <1>4, <3>1 DEF MessagesAre
    <3>. QED
      BY <1>8, <3>2 DEF AnyHead
  <2>2. op'.slot # <<>> /\ Len(op'.slot) = 1 /\ op'.slot[1].mbytes = s
    BY <1>9, <1>13
  <2>. HIDE DEF h
  <2>. QED
    BY <1>1, <1>6, <1>7, <1>11, <1>13, <2>1, <2>2 DEF SendReady
<1>20. Good(n, live, f, free)'
  BY <1>1, <1>3, <1>15, <1>17, <1>18, <1>19 DEF Good, Apart, MessagesAre, EmptyAre
<1>. QED
  BY <1>14, <1>15, <1>16, <1>20, CommittedStays

LEMMA SendSlotStep ==
  ASSUME CTypeOK, NEW n \in Nat, NEW f \in Nat, NEW live, NEW free,
         Good(n, live, f, free), SendSlot
  PROVE  CTypeOK' /\ OnFirst' /\ Good(n, live, f, free)' /\ MsgsKept
<1>1. /\ op.kind = "snd" /\ op.slot # <<>> /\ qh' = qh /\ scan' = scan
      /\ mh' = SlotWritten(mh, nslots, op.id, op.slot[1])
      /\ nslots' = IF op.id < nslots THEN nslots ELSE op.id + 1
      /\ op' = [op EXCEPT !.slot = <<>>]
  BY DEF SendSlot
<1>2. CommittedHead = qh /\ ~Written
  BY <1>1 DEF CommittedHead, Written
<1>3. /\ live \in [1 .. n -> Slots] /\ free \in [1 .. f -> Slots]
      /\ Apart(n, live, f, free) /\ MessagesAre(n, live, qh) /\ EmptyAre(n, f, free, qh)
      /\ SendReady(n, live, f, free)
  BY <1>2 DEF Good
<1>4. /\ qh \in Header /\ mh \in [Slots -> AnyHead] /\ nslots \in Nat /\ Slots \subseteq Nat
  BY DEF CTypeOK, Slots
<1>5. op \in [kind : {"snd"}, id : Nat, slot : Seq(AnyHead), head : Header]
  BY <1>1 DEF CTypeOK, NoOp
<1>6. /\ op.id \in Nat /\ op.id <= nslots /\ n + f = nslots
      /\ op.id = IF f = 0 THEN n ELSE free[1]
      /\ \A k \in 1 .. n : live[k] # op.id
  <2>1. /\ op.id \in Nat /\ n + f = nslots
        /\ op.id = IF f = 0 THEN n ELSE free[1]
        /\ \A k \in 1 .. n : live[k] # op.id
    BY <1>1, <1>2, <1>3, <1>5 DEF SendReady, EmptyAre
  <2>2. f # 0 => free[1] \in 0 .. nslots - 1
    BY <1>3 DEF Slots
  <2>. QED
    BY <1>4, <2>1, <2>2
<1>7. op.slot[1] \in AnyHead
  <2>1. Len(op.slot) = 1
    BY <1>1, <1>3 DEF SendReady
  <2>. QED
    BY <1>5, <2>1
<1>8. Slots' = 0 .. nslots' - 1 /\ nslots' \in Nat /\ Slots \subseteq Slots' /\ op.id \in Slots'
  BY <1>1, <1>4, <1>6 DEF Slots
<1>9. /\ DOMAIN mh' = Slots' /\ mh'[op.id] = op.slot[1]
      /\ \A i \in Slots' : i # op.id => i \in Slots /\ mh'[i] = mh[i]
  <2>1. mh' = [i \in Slots' |-> IF i = op.id THEN op.slot[1] ELSE mh[i]]
    BY <1>1, <1>4, <1>6, <1>8 DEF SlotWritten
  <2>2. \A i \in Slots' : i # op.id => i \in Slots
    BY <1>1, <1>4, <1>6, <1>8 DEF Slots
  <2>. QED
    BY <1>8, <2>1, <2>2
<1>10. mh' \in [Slots' -> AnyHead]
  <2>1. \A i \in Slots' : mh'[i] \in AnyHead
    BY <1>4, <1>7, <1>9
  <2>2. mh' = [i \in Slots' |-> mh'[i]]
    BY <1>1, <1>9 DEF SlotWritten
  <2>. QED
    BY <2>1, <2>2
<1>11. /\ op'.kind = "snd" /\ op'.id = op.id /\ op'.slot = <<>> /\ op'.head = op.head
       /\ op' \in [kind : {"snd"}, id : Nat, slot : Seq(AnyHead), head : Header]
  <2>1. op = [kind |-> op.kind, id |-> op.id, slot |-> op.slot, head |-> op.head]
    BY <1>5
  <2>2. op' = [kind |-> op.kind, id |-> op.id, slot |-> <<>>, head |-> op.head]
    BY <1>1, <2>1
  <2>3. <<>> \in Seq(AnyHead)
    OBVIOUS
  <2>. QED
    BY <1>1, <1>5, <2>2, <2>3
<1>12. CTypeOK'
  BY <1>1, <1>4, <1>8, <1>10, <1>11 DEF CTypeOK
<1>13. CommittedHead' = qh' /\ Written' = TRUE /\ OnFirst'
  BY <1>11 DEF CommittedHead, Written, OnFirst
<1>14. \A k \in 1 .. n : mh'[live[k]] = mh[live[k]]
  BY <1>3, <1>6, <1>8, <1>9
<1>15. Unaltered(n, live)
  BY <1>14 DEF Unaltered
<1>16. MessagesAre(n, live, qh)'
  <2>1. \A k \in 1 .. n - 1 : mh'[live[k]].nextid = live[k + 1]
    <3>. TAKE k \in 1 .. n - 1
    <3>1. k \in 1 .. n
      OBVIOUS
    <3>. QED
      BY <1>3, <1>14, <3>1 DEF MessagesAre
  <2>2. MsgsOf(live)' = MsgsOf(live)
    BY <1>3, <1>15, MsgsStay
  <2>3. qh.cbytes = Queue!BytesOf(MsgsOf(live))
    BY <1>3 DEF MessagesAre
  <2>4. (qh.cbytes = Queue!BytesOf(MsgsOf(live)))'
    BY <1>1, <2>2, <2>3
  <2>. QED
    BY <1>1, <1>3, <2>1, <2>4 DEF MessagesAre
<1>17. EmptyAre(n, f, free, qh)'
  <2>1. \A k \in 1 .. f - 1 : mh'[free[k]].nextid = free[k + 1] \/ k = 1
    <3>. SUFFICES ASSUME NEW k \in 1 .. f - 1, k # 1
                  PROVE  mh'[free[k]].nextid = free[k + 1]
      OBVIOUS
    <3>1. k \in 1 .. f /\ 1 \in 1 .. f /\ f # 0
      OBVIOUS
    <3>2. free[k] \in Slots /\ free[k] # free[1] /\ op.id = free[1]
      BY <1>3, <1>6, <3>1 DEF Apart
    <3>3. mh'[free[k]] = mh[free[k]]
      BY <1>8, <1>9, <3>2
    <3>. QED
      BY <1>2, <1>3, <3>3 DEF EmptyAre
  <2>2. n + f = IF f = 0 THEN nslots' - 1 ELSE nslots'
    <3>1. f # 0 => free[1] \in 0 .. nslots - 1
      BY <1>3 DEF Slots
    <3>. QED
      BY <1>1, <1>4, <1>6, <3>1
  <2>. QED
    BY <1>1, <1>3, <1>13, <2>1, <2>2 DEF EmptyAre
<1>18. SendReady(n, live, f, free)'
  <2>1. n # 0 => mh'[live[n]].nextid = op.id
    <3>1. n # 0 => n \in 1 .. n
      OBVIOUS
    <3>. QED
      BY <1>1, <1>3, <1>14, <3>1 DEF SendReady
  <2>2. /\ scan = NoScan /\ op.head.cbytes = qh.cbytes + op.slot[1].mbytes
        /\ op.head.qnum = n + 1
        /\ op.head.ds = IF n = 0 THEN op.id ELSE live[1]
        /\ op.head.de = op.id
        /\ op.head.es = IF f > 1 THEN free[2] ELSE NIL
        /\ op.head.ee = IF f > 1 THEN free[f] ELSE NIL
    BY <1>1, <1>3 DEF SendReady
  <2>. QED
    BY <1>1, <1>6, <1>8, <1>9, <1>11, <2>1, <2>2 DEF SendReady
<1>19. live \in [1 .. n -> Slots'] /\ free \in [1 .. f -> Slots']
  BY <1>3, <1>8
<1>20. Good(n, live, f, free)'
  BY <1>3, <1>13, <1>16, <1>17, <1>18, <1>19 DEF Good, Apart, MessagesAre, EmptyAre
<1>. QED
  BY <1>12, <1>13, <1>15, <1>20, CommittedStays

(* The last write of a send: one message more, at the end.                 *)
MsgsGrow ==
  /\ Len(Committed') = Len(MsgsOf(Committed)) + 1
  /\ SubSeq(MsgsOf(Committed)', 1, Len(MsgsOf(Committed))) = MsgsOf(Committed)

Listed(n, live) ==
  /\ live \in Seq(Slots) /\ Len(live) = n
  /\ Len(MsgsOf(live)) = n
  /\ \A k \in 1 .. n : MsgsOf(live)[k] = [mtype |-> mh[live[k]].mtype,
                         mbytes |-> mh[live[k]].mbytes, uid |-> mh[live[k]].uid]
  /\ \A k \in 1 .. n : MsgsOf(live)[k].mbytes = mh[live[k]].mbytes
  /\ Sized(MsgsOf(live))

LEMMA MsgsOfAre ==
  ASSUME CTypeOK, NEW n \in Nat, NEW live, live \in [1 .. n -> Slots]
  PROVE  Listed(n, live)
<1>1. live \in Seq(Slots) /\ Len(live) = n
  BY FcnSeq
<1>2. MsgsOf(live) = [k \in 1 .. n |-> [mtype |-> mh[live[k]].mtype,
                        mbytes |-> mh[live[k]].mbytes, uid |-> mh[live[k]].uid]]
  BY <1>1 DEF MsgsOf
<1>3. Len(MsgsOf(live)) = n
  BY <1>2
<1>4. \A k \in 1 .. n : mh[live[k]].mbytes \in Int
  BY DEF CTypeOK, AnyHead
<1>. QED
  BY <1>1, <1>2, <1>3, <1>4 DEF Sized, Listed

LEMMA PrefixOf ==
  ASSUME NEW n \in Nat, NEW p, NEW q, p = [k \in 1 .. n |-> p[k]],
         q = [k \in 1 .. n + 1 |-> q[k]], \A k \in 1 .. n : q[k] = p[k]
  PROVE  SubSeq(q, 1, n) = p
<1>. DEFINE S == {q[k] : k \in 1 .. n + 1}
<1>1. q \in [1 .. n + 1 -> S]
  OBVIOUS
<1>2. n + 1 \in Nat /\ 1 \in 1 .. (n + 1) + 1 /\ n \in 0 .. n + 1 /\ (n - 1) + 1 = n
  OBVIOUS
<1>3. q \in Seq(S) /\ Len(q) = n + 1
  BY <1>1, <1>2, FcnSeq
<1>. HIDE DEF S
<1>4. PICK r : r = SubSeq(q, 1, n)
  OBVIOUS
<1>5. r \in Seq(S) /\ Len(r) = n /\ \A k \in 1 .. n : r[k] = q[k]
  BY <1>2, <1>3, <1>4
<1>6. r = [k \in 1 .. n |-> r[k]]
  BY <1>5
<1>. QED
  BY <1>4, <1>5, <1>6

LEMMA SendHeadStep ==
  ASSUME CTypeOK, NEW n \in Nat, NEW f \in Nat, NEW live, NEW free,
         Good(n, live, f, free), SendHead
  PROVE  CInv' /\ MsgsGrow
<1>a. PICK live2 : live2 = [k \in 1 .. n + 1 |-> IF k <= n THEN live[k] ELSE op.id]
  OBVIOUS
<1>b. PICK g \in Nat : g = IF f = 0 THEN 0 ELSE f - 1
  <2>1. CASE f = 0
    BY <2>1
  <2>2. CASE f # 0
    <3>1. f - 1 \in Nat
      BY <2>2
    <3>. QED
      BY <2>2, <3>1
  <2>. QED
    BY <2>1, <2>2
<1>c. PICK free2 : free2 = [k \in 1 .. g |-> free[k + 1]]
  OBVIOUS
<1>1. /\ op.kind = "snd" /\ op.slot = <<>> /\ mh' = mh /\ nslots' = nslots /\ Slots' = Slots
      /\ qh' = op.head /\ op' = NoOp /\ op'.kind = "none" /\ scan' = scan
  BY DEF SendHead, NoOp, Slots
<1>n. n + 1 \in Nat /\ n + 1 # 0 /\ (n + 1) - 1 = n
  OBVIOUS
<1>2. CommittedHead = qh /\ Written
  BY <1>1 DEF CommittedHead, Written
<1>3. /\ live \in [1 .. n -> Slots] /\ free \in [1 .. f -> Slots]
      /\ Apart(n, live, f, free) /\ MessagesAre(n, live, qh) /\ EmptyAre(n, f, free, qh)
      /\ SendReady(n, live, f, free)
  BY <1>2 DEF Good
<1>4. /\ qh \in Header /\ mh \in [Slots -> AnyHead] /\ nslots \in Nat /\ Slots \subseteq Nat
      /\ op.head \in Header
  BY <1>1 DEF CTypeOK, Slots, NoOp
<1>5. /\ scan = NoScan /\ op.id \in Slots
      /\ op.id = IF f = 0 THEN n ELSE free[1]
      /\ \A k \in 1 .. n : live[k] # op.id
      /\ n # 0 => mh[live[n]].nextid = op.id
      /\ op.head.cbytes = qh.cbytes + mh[op.id].mbytes
      /\ op.head.qnum = n + 1
      /\ op.head.ds = IF n = 0 THEN op.id ELSE live[1]
      /\ op.head.de = op.id
      /\ op.head.es = IF f > 1 THEN free[2] ELSE NIL
      /\ op.head.ee = IF f > 1 THEN free[f] ELSE NIL
  BY <1>1, <1>3 DEF SendReady
<1>6. CTypeOK' /\ OnFirst' /\ CommittedHead' = qh' /\ Written' = FALSE
  BY <1>1, <1>4, <1>5 DEF CTypeOK, OnFirst, CommittedHead, Written
<1>7. /\ g \in Nat /\ live2 \in [1 .. n + 1 -> Slots] /\ free2 \in [1 .. g -> Slots]
      /\ \A k \in 1 .. n : live2[k] = live[k]
      /\ live2[n + 1] = op.id
      /\ \A k \in 1 .. g : free2[k] = free[k + 1] /\ k + 1 \in 1 .. f /\ k + 1 # 1
      /\ f = 0 => g = 0
      /\ f # 0 => f = g + 1
  <2>1. f = 0 => g = 0
    BY <1>b
  <2>2. f # 0 => f = g + 1
    BY <1>b
  <2>3. /\ live2 \in [1 .. n + 1 -> Slots] /\ \A k \in 1 .. n : live2[k] = live[k]
        /\ live2[n + 1] = op.id
    BY <1>3, <1>5, <1>a
  <2>4. \A k \in 1 .. g : k + 1 \in 1 .. f /\ k + 1 # 1
    BY <2>1, <2>2
  <2>. QED
    BY <1>3, <1>c, <2>1, <2>2, <2>3, <2>4
<1>8. Apart(n + 1, live2, g, free2)
  <2>1. ASSUME NEW j \in 1 .. n + 1, NEW k \in 1 .. n + 1, live2[j] = live2[k] PROVE j = k
    <3>1. CASE j \in 1 .. n /\ k \in 1 .. n
      BY <1>3, <1>7, <2>1, <3>1 DEF Apart
    <3>2. CASE j = n + 1 /\ k \in 1 .. n
      BY <1>5, <1>7, <2>1, <3>2
    <3>3. CASE k = n + 1 /\ j \in 1 .. n
      BY <1>5, <1>7, <2>1, <3>3
    <3>. QED
      BY <3>1, <3>2, <3>3
  <2>2. ASSUME NEW j \in 1 .. g, NEW k \in 1 .. g, free2[j] = free2[k] PROVE j = k
    <3>1. j + 1 = k + 1
      BY <1>3, <1>7, <2>2 DEF Apart
    <3>. QED
      BY <1>7, <3>1
  <2>3. ASSUME NEW j \in 1 .. n + 1, NEW k \in 1 .. g PROVE live2[j] # free2[k]
    <3>1. f # 0 /\ 1 \in 1 .. f /\ op.id = free[1]
      BY <1>5, <1>7
    <3>2. op.id # free[k + 1]
      BY <1>3, <1>7, <3>1 DEF Apart
    <3>3. CASE j \in 1 .. n
      BY <1>3, <1>7, <3>3 DEF Apart
    <3>4. CASE j = n + 1
      BY <1>7, <3>2, <3>4
    <3>. QED
      BY <3>3, <3>4
  <2>. QED
    BY <2>1, <2>2, <2>3 DEF Apart
<1>l. Listed(n, live) /\ Listed(n + 1, live2)
  <2>1. Listed(n, live)
    BY <1>3, MsgsOfAre
  <2>2. Listed(n + 1, live2)
    BY <1>n, <1>7, MsgsOfAre
  <2>. QED
    BY <2>1, <2>2
<1>9. MessagesAre(n + 1, live2, qh)'
  <2>1. \A k \in 1 .. (n + 1) - 1 : mh'[live2[k]].nextid = live2[k + 1]
    <3>. TAKE k \in 1 .. (n + 1) - 1
    <3>1. CASE k = n
      BY <1>1, <1>5, <1>7, <3>1
    <3>2. CASE k # n
      <4>1. k \in 1 .. n - 1 /\ k \in 1 .. n /\ k + 1 \in 1 .. n
        BY <3>2
      <4>. QED
        BY <1>1, <1>3, <1>7, <4>1 DEF MessagesAre
    <3>. QED
      BY <3>1, <3>2
  <2>2. qh'.cbytes = Queue!BytesOf(MsgsOf(live2))
    <3>1. /\ Len(MsgsOf(live)) = n /\ Sized(MsgsOf(live))
          /\ \A k \in 1 .. n : MsgsOf(live)[k].mbytes = mh[live[k]].mbytes
      BY <1>l DEF Listed
    <3>2. /\ Len(MsgsOf(live2)) = n + 1
          /\ \A k \in 1 .. n + 1 : MsgsOf(live2)[k].mbytes = mh[live2[k]].mbytes
      BY <1>l DEF Listed
    <3>3. /\ \A k \in 1 .. n : MsgsOf(live2)[k].mbytes = MsgsOf(live)[k].mbytes
          /\ MsgsOf(live2)[n + 1].mbytes = mh[op.id].mbytes
      BY <1>7, <3>1, <3>2
    <3>4. mh[op.id].mbytes \in Int
      <4>1. mh[op.id] \in AnyHead
        BY <1>4, <1>5
      <4>. QED
        BY <4>1 DEF AnyHead
    <3>5. MQ!BytesOf(MsgsOf(live2)) = MQ!BytesOf(MsgsOf(live)) + mh[op.id].mbytes
      BY <3>1, <3>2, <3>3, <3>4, BytesOfLonger
    <3>6. qh.cbytes = MQ!BytesOf(MsgsOf(live))
      BY <1>3, SameBytes DEF MessagesAre
    <3>7. qh'.cbytes = qh.cbytes + mh[op.id].mbytes
      BY <1>1, <1>5
    <3>. QED
      BY <3>5, <3>6, <3>7, SameBytes
  <2>5. MsgsOf(live2)' = MsgsOf(live2)
    BY <1>1 DEF MsgsOf
  <2>3. (qh.cbytes = Queue!BytesOf(MsgsOf(live2)))'
    BY <2>2, <2>5
  <2>4. /\ qh'.ds = live2[1] /\ qh'.de = live2[n + 1] /\ qh'.qnum = n + 1
    BY <1>1, <1>5, <1>7
  <2>. QED
    BY <1>n, <2>1, <2>3, <2>4 DEF MessagesAre
<1>10. EmptyAre(n + 1, g, free2, qh)'
  <2>1. \A k \in 1 .. g - 1 : mh'[free2[k]].nextid = free2[k + 1]
    <3>. TAKE k \in 1 .. g - 1
    <3>1. /\ k \in 1 .. g /\ k + 1 \in 1 .. g /\ k + 1 \in 1 .. f - 1 /\ k + 1 # 1
      BY <1>7
    <3>2. mh[free[k + 1]].nextid = free[(k + 1) + 1]
      BY <1>3, <3>1 DEF EmptyAre
    <3>. QED
      BY <1>1, <1>7, <3>1, <3>2
  <2>2. /\ qh'.es = IF g = 0 THEN NIL ELSE free2[1]
        /\ qh'.ee = IF g = 0 THEN NIL ELSE free2[g]
    <3>1. CASE f > 1
      <4>1. g # 0 /\ 1 \in 1 .. g /\ g \in 1 .. g /\ g + 1 = f
        BY <1>7, <3>1
      <4>2. free2[1] = free[2] /\ free2[g] = free[f]
        <5>1. free2[1] = free[1 + 1] /\ free2[g] = free[g + 1]
          BY <1>7, <4>1
        <5>. QED
          BY <4>1, <5>1
      <4>. QED
        BY <1>1, <1>5, <3>1, <4>1, <4>2
    <3>2. CASE ~(f > 1)
      <4>1. g = 0
        BY <1>7, <3>2
      <4>. QED
        BY <1>1, <1>5, <3>2, <4>1
    <3>. QED
      BY <3>1, <3>2
  <2>3. (n + 1) + g = nslots
    <3>1. n + f = IF f = 0 THEN nslots - 1 ELSE nslots
      BY <1>2, <1>3 DEF EmptyAre
    <3>. QED
      BY <1>4, <1>7, <3>1
  <2>. QED
    BY <1>1, <1>6, <2>1, <2>2, <2>3 DEF EmptyAre
<1>11. SendReady(n + 1, live2, g, free2)'
  <2>1. op'.kind # "snd"
    BY <1>1
  <2>. QED
    BY <2>1 DEF SendReady
<1>12. Good(n + 1, live2, g, free2)'
  <2>1. (live2 \in [1 .. n + 1 -> Slots] /\ free2 \in [1 .. g -> Slots])'
    BY <1>1, <1>7
  <2>2. MessagesAre(n + 1, live2, CommittedHead)' /\ EmptyAre(n + 1, g, free2, CommittedHead)'
    BY <1>6, <1>9, <1>10 DEF MessagesAre, EmptyAre
  <2>. QED
    BY <1>8, <1>11, <2>1, <2>2 DEF Good, Apart
<1>13. n + 1 \in Nat
  OBVIOUS
<1>14. CInv'
  BY <1>6, <1>7, <1>12, <1>13 DEF CInv
<1>15. MsgsGrow
  <2>1. Committed = live
    BY CommittedIs DEF FoundBy
  <2>2. FoundBy(n + 1, live2, g, free2)'
    BY CommittedIsNext
  <2>3. Committed' = live2
    BY <1>6, <1>7, <1>12, <1>13, <2>2 DEF FoundBy
  <2>4. /\ Len(live2) = n + 1 /\ Len(MsgsOf(live2)) = n + 1
        /\ \A k \in 1 .. n + 1 : MsgsOf(live2)[k] = [mtype |-> mh[live2[k]].mtype,
                                  mbytes |-> mh[live2[k]].mbytes, uid |-> mh[live2[k]].uid]
    BY <1>l DEF Listed
  <2>5. /\ Len(MsgsOf(live)) = n
        /\ \A k \in 1 .. n : MsgsOf(live)[k] = [mtype |-> mh[live[k]].mtype,
                                mbytes |-> mh[live[k]].mbytes, uid |-> mh[live[k]].uid]
    BY <1>l DEF Listed
  <2>6. MsgsOf(Committed)' = MsgsOf(live2)
    BY <1>1, <2>3 DEF MsgsOf
  <2>7. \A k \in 1 .. n : MsgsOf(live2)[k] = MsgsOf(live)[k]
    BY <1>7, <2>4, <2>5
  <2>8. MsgsOf(live2) = [k \in 1 .. n + 1 |-> MsgsOf(live2)[k]]
    <3>1. Len(live2) = n + 1
      BY <1>l DEF Listed
    <3>. QED
      BY <3>1 DEF MsgsOf
  <2>9. MsgsOf(live) = [k \in 1 .. n |-> MsgsOf(live)[k]]
    <3>1. Len(live) = n
      BY <1>l DEF Listed
    <3>. QED
      BY <3>1 DEF MsgsOf
  <2>10. SubSeq(MsgsOf(live2), 1, n) = MsgsOf(live)
    <3>1. PICK p, q : p = MsgsOf(live) /\ q = MsgsOf(live2)
      OBVIOUS
    <3>. QED
      BY ONLY <1>n, <2>7, <2>8, <2>9, <3>1, PrefixOf
  <2>. QED
    BY <2>1, <2>3, <2>4, <2>5, <2>6, <2>10 DEF MsgsGrow
<1>. QED
  BY <1>14, <1>15

(* The first write of a receive: the message it has found is gone.         *)
FoundGoes ==
  \E k \in 1 .. Len(MsgsOf(Committed)) :
    /\ Committed[k] = scan.cur
    /\ scan.key = 0 => k = 1
    /\ MsgsOf(Committed)' = Queue!Without(MsgsOf(Committed), k)

LEMMA TakeSlotsStep ==
  ASSUME CTypeOK, OnFirst, NEW n \in Nat, NEW f \in Nat, NEW live, NEW free,
         Good(n, live, f, free), TakeSlots
  PROVE  CInv' /\ FoundGoes
<1>1. /\ op = NoOp /\ op.kind = "none" /\ scan # NoScan /\ qh' = qh /\ nslots' = nslots
      /\ scan' = scan /\ Slots' = Slots
      /\ mh' = SlotsTaken(mh, qh, scan.before, scan.cur)
      /\ op' = [kind |-> "rcv", head |-> HeadTaken(qh, scan.before, scan.cur, mh[scan.cur])]
  BY DEF TakeSlots, Idle, NoOp, Slots
<1>2. CommittedHead = qh /\ ~Written
  BY <1>1 DEF CommittedHead, Written
<1>3. /\ live \in [1 .. n -> Slots] /\ free \in [1 .. f -> Slots]
      /\ Apart(n, live, f, free) /\ MessagesAre(n, live, qh) /\ EmptyAre(n, f, free, qh)
  BY <1>2 DEF Good
<1>4. /\ qh \in Header /\ mh \in [Slots -> AnyHead] /\ nslots \in Nat /\ Slots \subseteq Nat
      /\ n + f = nslots /\ \A i \in Slots : i # NIL /\ i \in Int
  BY <1>2, <1>3 DEF CTypeOK, Slots, EmptyAre, NIL
<1>5. /\ scan.before = NIL /\ scan.cur = qh.ds /\ qh.ds # NIL /\ scan.key = 0
  BY <1>1 DEF OnFirst
<1>6. /\ n # 0 /\ 1 \in 1 .. n /\ scan.cur = live[1] /\ live[1] \in Slots
      /\ qh.ds = live[1] /\ qh.de = live[n] /\ n \in 1 .. n
  <2>1. n # 0
    BY <1>3, <1>5 DEF MessagesAre
  <2>2. 1 \in 1 .. n /\ n \in 1 .. n
    BY <2>1
  <2>. QED
    BY <1>3, <1>5, <2>1, <2>2 DEF MessagesAre
<1>a. PICK g \in Nat : g = n - 1
  BY <1>6
<1>b. PICK live2 : live2 = [k \in 1 .. g |-> live[k + 1]]
  OBVIOUS
<1>c. PICK free2 : free2 = [k \in 1 .. f + 1 |-> IF k <= f THEN free[k] ELSE live[1]]
  OBVIOUS
<1>d. /\ n = g + 1 /\ f + 1 \in Nat /\ f + 1 # 0 /\ (f + 1) - 1 = f
      /\ \A k \in 1 .. g : k + 1 \in 1 .. n /\ k + 1 # 1
  BY <1>6, <1>a
<1>7. /\ live2 \in [1 .. g -> Slots] /\ \A k \in 1 .. g : live2[k] = live[k + 1]
      /\ free2 \in [1 .. f + 1 -> Slots] /\ free2[f + 1] = live[1]
      /\ \A k \in 1 .. f : free2[k] = free[k]
  <2>1. live2 \in [1 .. g -> Slots] /\ \A k \in 1 .. g : live2[k] = live[k + 1]
    BY <1>3, <1>b, <1>d
  <2>2. free2 \in [1 .. f + 1 -> Slots] /\ \A k \in 1 .. f : free2[k] = free[k]
    BY <1>3, <1>6, <1>c
  <2>3. free2[f + 1] = live[1]
    BY <1>c
  <2>. QED
    BY <2>1, <2>2, <2>3
<1>8. \A i \in Slots :
        mh'[i] = IF i = live[1] THEN [mh[i] EXCEPT !.alive = 0, !.nextid = NIL]
                 ELSE IF i = qh.ee THEN [mh[i] EXCEPT !.nextid = live[1]]
                 ELSE mh[i]
  BY <1>1, <1>4, <1>5, <1>6 DEF SlotsTaken
<1>9. mh' \in [Slots -> AnyHead]
  <2>1. \A i \in Slots : mh'[i] \in AnyHead
    <3>. TAKE i \in Slots
    <3>1. mh[i] \in AnyHead /\ live[1] \in Int
      BY <1>4, <1>6
    <3>2. /\ [mh[i] EXCEPT !.alive = 0, !.nextid = NIL] \in AnyHead
          /\ [mh[i] EXCEPT !.nextid = live[1]] \in AnyHead
      <4>1. [mh[i] EXCEPT !.nextid = live[1]] \in AnyHead
        BY <3>1 DEF AnyHead
      <4>2. NIL \in Int
        BY DEF NIL
      <4>3. [mh[i] EXCEPT !.alive = 0, !.nextid = NIL] \in AnyHead
        BY <3>1, <4>2 DEF AnyHead
      <4>. QED
        BY <4>1, <4>3
    <3>. QED
      BY <1>8, <3>1, <3>2
  <2>2. mh' = [i \in Slots |-> mh'[i]]
    BY <1>1, <1>4 DEF SlotsTaken
  <2>. QED
    BY <2>1, <2>2
<1>e. PICK h : h = HeadTaken(qh, scan.before, scan.cur, mh[scan.cur])
  OBVIOUS
<1>10. mh[live[1]] \in AnyHead /\ mh[live[1]].mbytes \in Nat
  <2>1. mh[live[1]] \in AnyHead
    BY <1>4, <1>6
  <2>. QED
    BY <2>1 DEF AnyHead
<1>11. g # 0 => live2[1] = live[2] /\ live2[g] = live[n] /\ 1 \in 1 .. g /\ g \in 1 .. g
  <2>1. g # 0 => 1 \in 1 .. g /\ g \in 1 .. g
    OBVIOUS
  <2>2. g # 0 => live2[1] = live[1 + 1] /\ live2[g] = live[g + 1]
    BY <1>7, <2>1
  <2>. QED
    BY <1>d, <2>1, <2>2
<1>12. /\ h = [qh EXCEPT !.cbytes = qh.cbytes - mh[live[1]].mbytes, !.qnum = g,
                 !.es = free2[1], !.ee = live[1],
                 !.ds = IF g = 0 THEN NIL ELSE live2[1],
                 !.de = IF g = 0 THEN NIL ELSE live2[g]]
  <2>1. qh.qnum - 1 = g
    BY <1>3, <1>d DEF MessagesAre
  <2>2. (IF qh.es = NIL THEN live[1] ELSE qh.es) = free2[1]
    <3>1. CASE f = 0
      BY <1>3, <1>7, <3>1 DEF EmptyAre
    <3>2. CASE f # 0
      <4>1. 1 \in 1 .. f
        BY <3>2
      <4>. QED
        BY <1>3, <1>4, <1>7, <3>2, <4>1 DEF EmptyAre
    <3>. QED
      BY <3>1, <3>2
  <2>3. g = 0 <=> qh.ds = qh.de
    BY <1>3, <1>6, <1>d DEF Apart
  <2>4. g # 0 => mh[live[1]].nextid = live2[1] /\ live2[1] # NIL
    <3>1. g # 0 => 1 \in 1 .. n - 1
      BY <1>d
    <3>2. g # 0 => mh[live[1]].nextid = live[1 + 1]
      BY <1>3, <3>1 DEF MessagesAre
    <3>3. g # 0 => live2[1] \in Slots
      BY <1>7, <1>11
    <3>. QED
      BY <1>4, <1>11, <3>2, <3>3, 1 + 1 = 2
  <2>. QED
    BY <1>5, <1>6, <1>11, <1>e, <2>1, <2>2, <2>3, <2>4 DEF HeadTaken
<1>13. /\ h \in Header
       /\ h.cbytes = qh.cbytes - mh[live[1]].mbytes /\ h.qnum = g
       /\ h.es = free2[1] /\ h.ee = live[1]
       /\ h.ds = IF g = 0 THEN NIL ELSE live2[1]
       /\ h.de = IF g = 0 THEN NIL ELSE live2[g]
  <2>1. /\ qh.cbytes - mh[live[1]].mbytes \in Int /\ g \in Int /\ live[1] \in Int
    BY <1>4, <1>6, <1>10 DEF Header
  <2>2. free2[1] \in Int
    <3>1. 1 \in 1 .. f + 1
      OBVIOUS
    <3>2. free2[1] \in Slots
      BY <1>7, <3>1
    <3>. QED
      BY <1>4, <3>2
  <2>3. (IF g = 0 THEN NIL ELSE live2[1]) \in Int /\ (IF g = 0 THEN NIL ELSE live2[g]) \in Int
    <3>1. g # 0 => live2[1] \in Slots /\ live2[g] \in Slots
      BY <1>7, <1>11
    <3>2. NIL \in Int
      BY DEF NIL
    <3>. QED
      BY <1>4, <3>1, <3>2
  <2>. QED
    BY <1>4, <1>12, <2>1, <2>2, <2>3 DEF Header
<1>14. op' = [kind |-> "rcv", head |-> h] /\ op'.kind = "rcv" /\ op'.head = h
  BY <1>1, <1>e
<1>15. CTypeOK' /\ OnFirst' /\ CommittedHead' = h /\ Written' = FALSE
  BY <1>1, <1>4, <1>9, <1>13, <1>14 DEF CTypeOK, OnFirst, CommittedHead, Written
<1>16. Apart(g, live2, f + 1, free2)
  <2>1. ASSUME NEW j \in 1 .. g, NEW k \in 1 .. g, live2[j] = live2[k] PROVE j = k
    <3>1. j + 1 = k + 1
      BY <1>3, <1>7, <1>d, <2>1 DEF Apart
    <3>. QED
      BY <3>1
  <2>2. ASSUME NEW j \in 1 .. f + 1, NEW k \in 1 .. f + 1, free2[j] = free2[k] PROVE j = k
    <3>1. CASE j \in 1 .. f /\ k \in 1 .. f
      BY <1>3, <1>7, <2>2, <3>1 DEF Apart
    <3>2. CASE j = f + 1 /\ k \in 1 .. f
      BY <1>3, <1>6, <1>7, <2>2, <3>2 DEF Apart
    <3>3. CASE k = f + 1 /\ j \in 1 .. f
      BY <1>3, <1>6, <1>7, <2>2, <3>3 DEF Apart
    <3>. QED
      BY <3>1, <3>2, <3>3
  <2>3. ASSUME NEW j \in 1 .. g, NEW k \in 1 .. f + 1 PROVE live2[j] # free2[k]
    <3>1. CASE k \in 1 .. f
      BY <1>3, <1>7, <1>d, <3>1 DEF Apart
    <3>2. CASE k = f + 1
      BY <1>3, <1>6, <1>7, <1>d, <3>2 DEF Apart
    <3>. QED
      BY <3>1, <3>2
  <2>. QED
    BY <2>1, <2>2, <2>3 DEF Apart
<1>17. \A k \in 1 .. g : mh'[live2[k]] = mh[live2[k]]
  <2>. TAKE k \in 1 .. g
  <2>1. live2[k] \in Slots /\ live2[k] # live[1]
    BY <1>3, <1>6, <1>7, <1>d DEF Apart
  <2>2. live2[k] # qh.ee
    <3>1. CASE f = 0
      BY <1>3, <1>4, <2>1, <3>1 DEF EmptyAre
    <3>2. CASE f # 0
      <4>1. f \in 1 .. f
        BY <3>2
      <4>. QED
        BY <1>3, <1>7, <1>d, <3>2, <4>1 DEF EmptyAre, Apart
    <3>. QED
      BY <3>1, <3>2
  <2>. QED
    BY <1>8, <2>1, <2>2
<1>l. Listed(n, live) /\ Listed(g, live2)
  <2>1. Listed(n, live)
    BY <1>3, MsgsOfAre
  <2>2. Listed(g, live2)
    BY <1>7, MsgsOfAre
  <2>. QED
    BY <2>1, <2>2
<1>18. MsgsOf(live2)' = MsgsOf(live2)
  <2>1. Unaltered(g, live2)
    BY <1>17 DEF Unaltered
  <2>. QED
    BY <1>7, <2>1, MsgsStay
<1>19. MsgsOf(live2) = Queue!Without(MsgsOf(live), 1)
  <2>1. /\ Len(MsgsOf(live)) - 1 = g
        /\ \A k \in 1 .. g : MsgsOf(live2)[k] = MsgsOf(live)[k + 1] /\ ~(k < 1)
    BY <1>7, <1>d, <1>l DEF Listed
  <2>2. MsgsOf(live2) = [k \in 1 .. g |-> MsgsOf(live2)[k]]
    <3>1. Len(live2) = g
      BY <1>l DEF Listed
    <3>. QED
      BY <3>1 DEF MsgsOf
  <2>. QED
    BY <2>1, <2>2 DEF Queue!Without
<1>20. MessagesAre(g, live2, CommittedHead)'
  <2>1. \A k \in 1 .. g - 1 : mh'[live2[k]].nextid = live2[k + 1]
    <3>. TAKE k \in 1 .. g - 1
    <3>1. k \in 1 .. g /\ k + 1 \in 1 .. g /\ k + 1 \in 1 .. n - 1
      BY <1>d
    <3>2. mh[live[k + 1]].nextid = live[(k + 1) + 1]
      BY <1>3, <3>1 DEF MessagesAre
    <3>. QED
      BY <1>7, <1>17, <3>1, <3>2
  <2>2. h.cbytes = Queue!BytesOf(MsgsOf(live2))
    <3>1. /\ Len(MsgsOf(live)) = n /\ Sized(MsgsOf(live)) /\ Len(MsgsOf(live2)) = g
          /\ 1 \in 1 .. Len(MsgsOf(live)) /\ Len(MsgsOf(live2)) = Len(MsgsOf(live)) - 1
          /\ MsgsOf(live)[1].mbytes = mh[live[1]].mbytes
      BY <1>6, <1>d, <1>l DEF Listed
    <3>2. \A k \in 1 .. Len(MsgsOf(live2)) : MsgsOf(live2)[k].mbytes =
            IF k < 1 THEN MsgsOf(live)[k].mbytes ELSE MsgsOf(live)[k + 1].mbytes
      <4>1. \A k \in 1 .. g : ~(k < 1) /\ MsgsOf(live2)[k].mbytes = mh[live2[k]].mbytes
                              /\ MsgsOf(live)[k + 1].mbytes = mh[live[k + 1]].mbytes
        BY <1>d, <1>l DEF Listed
      <4>. QED
        BY <1>7, <3>1, <4>1
    <3>3. MQ!BytesOf(MsgsOf(live2)) = MQ!BytesOf(MsgsOf(live)) - MsgsOf(live)[1].mbytes
      BY <3>1, <3>2, BytesOfWithout
    <3>4. qh.cbytes = MQ!BytesOf(MsgsOf(live))
      BY <1>3, SameBytes DEF MessagesAre
    <3>. QED
      BY <1>13, <3>1, <3>3, <3>4, SameBytes
  <2>3. (CommittedHead.cbytes = Queue!BytesOf(MsgsOf(live2)))'
    BY <1>15, <1>18, <2>2
  <2>. QED
    BY <1>13, <1>15, <2>1, <2>3 DEF MessagesAre
<1>21. EmptyAre(g, f + 1, free2, CommittedHead)'
  <2>1. \A k \in 1 .. (f + 1) - 1 : mh'[free2[k]].nextid = free2[k + 1]
    <3>. TAKE k \in 1 .. (f + 1) - 1
    <3>1. k \in 1 .. f /\ f \in 1 .. f /\ f # 0
      OBVIOUS
    <3>2. free[k] \in Slots /\ free[k] # live[1] /\ qh.ee = free[f] /\ free2[k] = free[k]
          /\ mh[free[k]] \in AnyHead
      BY <1>3, <1>4, <1>6, <1>7, <3>1 DEF Apart, EmptyAre
    <3>3. CASE k = f
      BY <1>7, <1>8, <3>2, <3>3 DEF AnyHead
    <3>4. CASE k # f
      <4>1. k \in 1 .. f - 1 /\ k + 1 \in 1 .. f
        BY <3>1, <3>4
      <4>2. free[k] # free[f]
        BY <1>3, <3>1, <3>4 DEF Apart
      <4>3. mh[free[k]].nextid = free[k + 1]
        BY <1>2, <1>3, <4>1 DEF EmptyAre
      <4>. QED
        BY <1>7, <1>8, <3>2, <4>1, <4>2, <4>3
    <3>. QED
      BY <3>3, <3>4
  <2>2. g + (f + 1) = nslots
    BY <1>4, <1>d
  <2>. QED
    BY <1>1, <1>7, <1>13, <1>15, <1>d, <2>1, <2>2 DEF EmptyAre
<1>22. SendReady(g, live2, f + 1, free2)'
  <2>1. op'.kind # "snd"
    BY <1>14
  <2>. QED
    BY <2>1 DEF SendReady
<1>23. Good(g, live2, f + 1, free2)'
  <2>1. (live2 \in [1 .. g -> Slots] /\ free2 \in [1 .. f + 1 -> Slots])'
    BY <1>1, <1>7
  <2>. QED
    BY <1>16, <1>20, <1>21, <1>22, <2>1 DEF Good, Apart
<1>24. CInv'
  BY <1>15, <1>23, <1>d DEF CInv
<1>25. FoundGoes
  <2>1. Committed = live
    BY CommittedIs DEF FoundBy
  <2>2. FoundBy(g, live2, f + 1, free2)'
    BY CommittedIsNext
  <2>3. Committed' = live2
    BY <1>15, <1>23, <1>d, <2>2 DEF FoundBy
  <2>4. MsgsOf(Committed)' = MsgsOf(live2)
    BY <1>18, <2>3 DEF MsgsOf
  <2>5. 1 \in 1 .. Len(MsgsOf(live))
    BY <1>6, <1>l DEF Listed
  <2>. QED
    BY <1>6, <1>19, <2>1, <2>4, <2>5 DEF FoundGoes
<1>. QED
  BY <1>24, <1>25

(* Steps that leave the file and what is committed as they are.            *)
LEMMA QuietStep ==
  ASSUME CTypeOK, NEW n \in Nat, NEW f \in Nat, NEW live, NEW free,
         Good(n, live, f, free), mh' = mh, nslots' = nslots,
         CTypeOK', OnFirst', CommittedHead' = CommittedHead,
         ~Written, Written' = FALSE, op'.kind # "snd"
  PROVE  CInv' /\ MsgsKept
<1>1. Slots' = Slots
  BY DEF Slots
<1>2. /\ live \in [1 .. n -> Slots] /\ free \in [1 .. f -> Slots]
      /\ Apart(n, live, f, free) /\ MessagesAre(n, live, CommittedHead)
      /\ EmptyAre(n, f, free, CommittedHead)
  BY DEF Good
<1>3. MsgsOf(live)' = MsgsOf(live) /\ Unaltered(n, live)
  BY DEF MsgsOf, Unaltered
<1>4. MessagesAre(n, live, CommittedHead)'
  <2>1. CommittedHead.cbytes = Queue!BytesOf(MsgsOf(live))
    BY <1>2 DEF MessagesAre
  <2>2. (CommittedHead.cbytes = Queue!BytesOf(MsgsOf(live)))'
    BY <1>3, <2>1
  <2>. QED
    BY <1>2, <2>2 DEF MessagesAre
<1>5. EmptyAre(n, f, free, CommittedHead)'
  BY <1>2 DEF EmptyAre
<1>6. Good(n, live, f, free)'
  <2>1. SendReady(n, live, f, free)'
    BY DEF SendReady
  <2>2. (live \in [1 .. n -> Slots] /\ free \in [1 .. f -> Slots])'
    BY <1>1, <1>2
  <2>. QED
    BY <1>2, <1>4, <1>5, <2>1, <2>2 DEF Good, Apart
<1>7. MsgsKept
  BY <1>3, <1>6, CommittedStays
<1>. QED
  BY <1>6, <1>7 DEF CInv

LEMMA TakeHeadStep ==
  ASSUME CInv, TakeHead
  PROVE  CInv' /\ MsgsKept
<1>1. PICK n \in Nat, f \in Nat : \E live, free : Good(n, live, f, free)
  BY DEF CInv
<1>2. PICK live, free : Good(n, live, f, free)
  BY <1>1
<1>3. /\ op.kind = "rcv" /\ op.kind # "snd" /\ qh' = op.head /\ op' = NoOp /\ scan' = NoScan
      /\ op'.kind = "none" /\ op'.kind # "snd" /\ mh' = mh /\ nslots' = nslots
  BY DEF TakeHead, NoOp
<1>4. CTypeOK /\ op.head \in Header
  BY <1>3 DEF CInv, CTypeOK, NoOp
<1>5. CTypeOK'
  BY <1>3, <1>4 DEF CTypeOK, Slots
<1>6. OnFirst' /\ CommittedHead' = CommittedHead /\ ~Written /\ Written' = FALSE
  BY <1>3 DEF OnFirst, CommittedHead, Written
<1>. QED
  BY <1>2, <1>3, <1>4, <1>5, <1>6, QuietStep

(* A sender killed after its first write.                                  *)
LEMMA KilledStep ==
  ASSUME SendersKilledEarly, CInv, Crash
  PROVE  CInv' /\ MsgsKept
<1>1. PICK n \in Nat, f \in Nat : \E live, free : Good(n, live, f, free)
  BY DEF CInv
<1>2. PICK live, free : Good(n, live, f, free)
  BY <1>1
<1>3. /\ op' = NoOp /\ scan' = NoScan /\ op'.kind = "none" /\ op'.kind # "snd"
      /\ qh' = qh /\ mh' = mh /\ nslots' = nslots
  BY DEF Crash, NoOp
<1>4. op.kind = "snd" /\ op.slot # <<>>
  <2>1. LastWrite = "link"
    BY DEF Crash, SendersKilledEarly
  <2>2. "link" # "slot" /\ "link" # "take" /\ "link" # "head"
    OBVIOUS
  <2>. QED
    BY <2>1, <2>2 DEF LastWrite
<1>5. CTypeOK /\ CTypeOK'
  BY <1>3 DEF CInv, CTypeOK, Slots
<1>6. OnFirst' /\ CommittedHead' = CommittedHead /\ ~Written /\ Written' = FALSE
  BY <1>3, <1>4 DEF OnFirst, CommittedHead, Written
<1>. QED
  BY <1>2, <1>3, <1>5, <1>6, QuietStep

(* The walk of a receive that asks for any type.                           *)
LEMMA SearchStep ==
  ASSUME SendersKilledEarly, CInv, Search
  PROVE  CInv' /\ MsgsKept
<1>1. PICK n \in Nat, f \in Nat : \E live, free : Good(n, live, f, free)
  BY DEF CInv
<1>2. PICK live, free : Good(n, live, f, free)
  BY <1>1
<1>3. /\ op = NoOp /\ op.kind = "none" /\ op' = op /\ qh' = qh /\ mh' = mh /\ nslots' = nslots
  BY DEF Search, Idle, NoOp, BeginRecv, ScanNext, ScanFound, ScanEnd
<1>4. CTypeOK /\ CTypeOK' /\ OnFirst
  BY <1>3 DEF CInv, CTypeOK, Slots
<1>5. OnFirst'
  <2>1. CASE \E t \in Keys : BeginRecv(t)
    <3>1. PICK t \in Keys : BeginRecv(t)
      BY <2>1
    <3>2. t = 0
      BY DEF SendersKilledEarly
    <3>. QED
      BY <1>3, <3>1, <3>2 DEF BeginRecv, OnFirst
  <2>2. CASE ScanNext
    <3>1. scan # NoScan /\ ~Matches
      BY <2>2 DEF ScanNext
    <3>2. scan.kind = "rcv" /\ scan.key = 0
      BY <1>3, <1>4, <3>1 DEF OnFirst
    <3>. QED
      BY <3>1, <3>2 DEF Matches
  <2>3. CASE ScanFound
    <3>1. scan # NoScan /\ scan' = [scan EXCEPT !.found = TRUE]
      BY <2>3 DEF ScanFound
    <3>2. /\ scan.kind = "rcv" /\ scan.key = 0 /\ scan.before = NIL /\ scan.cur = qh.ds
          /\ qh.ds # NIL /\ scan.found \in BOOLEAN
      BY <1>3, <1>4, <3>1 DEF OnFirst
    <3>. QED
      BY <1>3, <3>1, <3>2 DEF OnFirst
  <2>4. CASE ScanEnd
    <3>1. scan # NoScan /\ scan.cur = NIL
      BY <2>4 DEF ScanEnd
    <3>. QED
      BY <1>3, <1>4, <3>1 DEF OnFirst
  <2>. QED
    BY <2>1, <2>2, <2>3, <2>4 DEF Search
<1>6. CommittedHead' = CommittedHead /\ ~Written /\ Written' = FALSE /\ op'.kind # "snd"
  BY <1>3 DEF CommittedHead, Written
<1>. QED
  BY <1>2, <1>3, <1>4, <1>5, <1>6, QuietStep

(* One step of senders, receivers and kills.                               *)
LeavesNoTrace == MsgsKept \/ (SendHead /\ MsgsGrow) \/ (TakeSlots /\ FoundGoes)

LEMMA CrashStep ==
  ASSUME SendersKilledEarly, CInv, [CNext]_cvars
  PROVE  CInv' /\ LeavesNoTrace
<1>1. PICK n \in Nat, f \in Nat : \E live, free : Good(n, live, f, free)
  BY DEF CInv
<1>2. PICK live, free : Good(n, live, f, free)
  BY <1>1
<1>3. CTypeOK /\ OnFirst
  BY DEF CInv
<1>4. CASE \E t \in Types, s \in Sizes : SendLink(t, s)
  <2>1. PICK t \in Types, s \in Sizes : SendLink(t, s)
    BY <1>4
  <2>2. CTypeOK' /\ OnFirst' /\ Good(n, live, f, free)' /\ MsgsKept
    BY <1>2, <1>3, <2>1, SendLinkStep
  <2>. QED
    BY <2>2 DEF CInv, LeavesNoTrace
<1>5. CASE SendSlot
  <2>1. CTypeOK' /\ OnFirst' /\ Good(n, live, f, free)' /\ MsgsKept
    BY <1>2, <1>3, <1>5, SendSlotStep
  <2>. QED
    BY <2>1 DEF CInv, LeavesNoTrace
<1>6. CASE SendHead
  <2>1. CInv' /\ MsgsGrow
    BY <1>2, <1>3, <1>6, SendHeadStep
  <2>. QED
    BY <1>6, <2>1 DEF LeavesNoTrace
<1>7. CASE Search
  BY <1>7, SearchStep DEF LeavesNoTrace
<1>8. CASE TakeSlots
  <2>1. CInv' /\ FoundGoes
    BY <1>2, <1>3, <1>8, TakeSlotsStep
  <2>. QED
    BY <1>8, <2>1 DEF LeavesNoTrace
<1>9. CASE TakeHead
  BY <1>9, TakeHeadStep DEF LeavesNoTrace
<1>10. CASE Crash
  BY <1>10, KilledStep DEF LeavesNoTrace
<1>11. CASE UNCHANGED cvars
  <2>1. /\ mh' = mh /\ nslots' = nslots /\ qh' = qh /\ op' = op /\ scan' = scan
    BY <1>11 DEF cvars
  <2>2. CTypeOK' = CTypeOK /\ OnFirst' = OnFirst /\ MsgsOf(Committed)' = MsgsOf(Committed)
    BY <2>1 DEF CTypeOK, OnFirst, Slots, MsgsOf, Committed, CommittedHead, Walk, Linked
  <2>3. Good(n, live, f, free)'
    BY <1>2, <2>1 DEF Good, Slots, Apart, MessagesAre, EmptyAre, SendReady, Written,
                      CommittedHead, MsgsOf
  <2>. QED
    BY <1>3, <2>2, <2>3 DEF CInv, LeavesNoTrace, MsgsKept
<1>. QED
  BY <1>4, <1>5, <1>6, <1>7, <1>8, <1>9, <1>10, <1>11 DEF CNext

LEMMA CrashInvariance == ASSUME SendersKilledEarly PROVE CSpec => []CInv
<1>1. CInit => CInv
  BY InitCrash
<1>2. CInv /\ [CNext]_cvars => CInv'
  BY CrashStep
<1>. QED
  BY <1>1, <1>2, PTL DEF CSpec

LEMMA InvCounts == CInv => HeaderCountsMessages
<1>. SUFFICES ASSUME CInv, Idle PROVE qh.qnum = Len(Committed)
                                      /\ qh.cbytes = Queue!BytesOf(MsgsOf(Committed))
  BY DEF HeaderCountsMessages
<1>1. PICK n \in Nat, f \in Nat : \E live, free : Good(n, live, f, free)
  BY DEF CInv
<1>2. PICK live, free : Good(n, live, f, free)
  BY <1>1
<1>3. Committed = live
  BY <1>2, CommittedIs DEF FoundBy, CInv
<1>4. CommittedHead = qh
  BY DEF CommittedHead, Idle, NoOp
<1>5. live \in [1 .. n -> Slots] /\ MessagesAre(n, live, qh)
  BY <1>2, <1>4 DEF Good
<1>6. Len(live) = n
  BY <1>5, FcnSeq
<1>. QED
  BY <1>3, <1>5, <1>6 DEF MessagesAre

(* Senders that are killed after the first write of a send leave a header  *)
(* that counts the messages on the queue and their bytes.                  *)
THEOREM HeaderKeepsCount ==
  ASSUME SendersKilledEarly PROVE CSpec => []HeaderCountsMessages
BY CrashInvariance, InvCounts, PTL

(* Such senders add no message, take none and change none; whoever runs    *)
(* next finds the queue as it was before the send.                         *)
THEOREM KilledSendersLeaveNoTrace ==
  ASSUME SendersKilledEarly PROVE CSpec => KilledSendLeavesNoTrace
<1>. DEFINE P == LET msgs == MsgsOf(Committed) IN
       \/ MsgsOf(Committed)' = msgs
       \/ /\ SendHead
          /\ Len(Committed') = Len(msgs) + 1
          /\ SubSeq(MsgsOf(Committed)', 1, Len(msgs)) = msgs
       \/ /\ TakeSlots
          /\ \E k \in 1 .. Len(msgs) :
               /\ Committed[k] = scan.cur
               /\ scan.key = 0 => k = 1
               /\ MsgsOf(Committed)' = Queue!Without(msgs, k)
<1>1. CInv /\ [CNext]_cvars => [P]_cvars
  BY CrashStep DEF LeavesNoTrace, MsgsKept, MsgsGrow, FoundGoes
<1>. HIDE DEF P
<1>2. CSpec => [][P]_cvars
  BY <1>1, CrashInvariance, PTL DEF CSpec
<1>. QED
  BY <1>2 DEF KilledSendLeavesNoTrace, P

=============================================================================
