----------------------------- MODULE DiskQSpace -----------------------------
(***************************************************************************)
(* The data file of a DiskQ queue.  A sender that holds the file lock      *)
(* makes a map of the file from the message headers, looks for the         *)
(* smallest gap that is large enough, and moves messages about when there  *)
(* is none; then it writes the message's bytes and its header.  A move is  *)
(* a write to the data file and a write of the moved message's header, and *)
(* the sender may be killed between any two writes.                        *)
(*                                                                         *)
(* The map is kept as the code keeps it, blocks linked both ways, since    *)
(* what can go wrong here is the surgery on those links.                   *)
(***************************************************************************)
EXTENDS Integers, Sequences, FiniteSets, SequencesExt

CONSTANTS
  QBytes,     (* d_msg_qbytes, the capacity of the data file               *)
  Sizes,      (* message lengths in use                                    *)
  Ids,        (* ids of messages, as many as may be on the queue           *)
  UIntRange,  (* 2^32 for the unsigned int of a header's offsets, or any   *)
              (* other bound above QBytes                                  *)
  KillAt      (* where a sender may be killed: "moved", "written"          *)

ASSUME SpaceAssumption ==
  /\ QBytes \in Nat \ {0} /\ UIntRange \in Nat /\ UIntRange > QBytes
  /\ Sizes \subseteq Nat
  /\ IsFiniteSet(Ids)
  /\ KillAt \subseteq {"moved", "written"}

CONSTANT NoId   (* the id of a block that holds no message                  *)

VARIABLES
  msgs,    (* the message headers by id; the map does not depend on the    *)
           (* order of the list                                            *)
  dat,     (* the data file: whose byte is at an offset, and which one     *)
  op,      (* the send in progress                                         *)
  atrisk   (* history: ids a known defect may cost their bytes             *)

vars == <<msgs, dat, op, atrisk>>

Offsets == 0 .. QBytes - 1
NULL == 0
NoMove == [by |-> 0, obj |-> NULL, to |-> NULL]

(* What no message on the queue has written; old bytes are not told apart. *)
Junk == <<NoId, 0>>

Idle == op.pc = "idle"
NoOp == [pc |-> "idle"]

Init ==
  /\ msgs = <<>>        \* no id
  /\ dat = [o \in Offsets |-> Junk]
  /\ op = NoOp
  /\ atrisk = {}

----------------------------------------------------------------------------
(* Headers and bytes.                                                      *)

cbytes == Cardinality(UNION {{id} \X (1 .. msgs[id].mbytes) : id \in DOMAIN msgs})
Place(m) == m.whence .. m.whence + m.mbytes - 1

(* The last byte of a message, in unsigned arithmetic: below 0 is the      *)
(* largest offset.                                                         *)
LastByte(m) ==
  IF m.whence + m.mbytes = 0 THEN UIntRange - 1 ELSE m.whence + m.mbytes - 1

(* What read gives for a message.                                          *)
BytesOf(m) == [k \in 1 .. m.mbytes |-> dat[m.whence + k - 1]]
Intact(id) ==
  /\ Place(msgs[id]) \subseteq Offsets
  /\ BytesOf(msgs[id]) = [k \in 1 .. msgs[id].mbytes |-> <<id, k>>]

(* lseek and write.                                                        *)
Written(bytes, at) ==
  [o \in Offsets |->
     IF o \in at .. at + Len(bytes) - 1 THEN bytes[o - at + 1] ELSE dat[o]]

----------------------------------------------------------------------------
(* The map.                                                                *)

Gap(s, e) == [dt |-> 0, id |-> NoId, soff |-> s, eoff |-> e]
Data(id) == [dt |-> 1, id |-> id, soff |-> msgs[id].whence, eoff |-> LastByte(msgs[id])]
Room(b) == b.eoff - b.soff + 1

(* One message cut out of the first gap it lies in.                        *)
Carved(blocks, id) ==
  LET m == msgs[id]
      holds == {k \in DOMAIN blocks : /\ blocks[k].dt = 0
                                      /\ blocks[k].soff <= m.whence
                                      /\ blocks[k].eoff >= LastByte(m)}
      at == Min(holds)
      b == blocks[at]
      cut == (IF b.soff < m.whence THEN <<Gap(b.soff, m.whence - 1)>> ELSE <<>>)
             \o <<Data(id)>>
             \o (IF b.eoff > LastByte(m) THEN <<Gap(LastByte(m) + 1, b.eoff)>> ELSE <<>>)
  IN IF holds = {} THEN <<>>
     ELSE SubSeq(blocks, 1, at - 1) \o cut \o SubSeq(blocks, at + 1, Len(blocks))

(* The map as a linked list, or the empty function when the function       *)
(* returns NULL: a message lies in no gap.                                 *)
MakeDataArray ==
  LET ids == SetToSeq(DOMAIN msgs)
      carved[k \in 0 .. Len(ids)] ==
        IF k = 0 THEN <<Gap(0, QBytes - 1)>> ELSE Carved(carved[k - 1], ids[k])
      blocks == carved[Len(ids)]
      n == Len(blocks)
  IN [i \in 1 .. n |->
        [dt |-> blocks[i].dt, id |-> blocks[i].id,
         soff |-> blocks[i].soff, eoff |-> blocks[i].eoff,
         prev |-> IF i = 1 THEN NULL ELSE i - 1,
         next |-> IF i = n THEN NULL ELSE i + 1]]

(* The blocks a walk along next from the first block visits, by position.  *)
Order(map) ==
  LET walk[k \in DOMAIN map] ==
        IF k = 1 THEN 1
        ELSE IF walk[k - 1] = NULL THEN NULL ELSE map[walk[k - 1]].next
  IN Restrict(walk, {k \in DOMAIN map : walk[k] # NULL})

Ends(map) == \E k \in DOMAIN Order(map) : map[Order(map)[k]].next = NULL

(* Mutant: a gap of just the size is passed over.                          *)
BestFitTooSmall(map, size) ==
  LET o == Order(map)
      fits == {k \in DOMAIN o : map[o[k]].dt = 0 /\ Room(map[o[k]]) > size}
      best == {k \in fits : \A j \in fits : Room(map[o[k]]) <= Room(map[o[j]])}
  IN IF best = {} THEN NULL ELSE o[Min(best)]

(* FindSpace: the gap that leaves least over, the first of them.           *)
BestFit(map, size) ==
  LET o == Order(map)
      fits == {k \in DOMAIN o : map[o[k]].dt = 0 /\ Room(map[o[k]]) >= size}
      best == {k \in fits : \A j \in fits : Room(map[o[k]]) <= Room(map[o[j]])}
  IN IF best = {} THEN NULL ELSE o[Min(best)]

(* DataCompress_1: the first message between two gaps that together are    *)
(* enough.                                                                 *)
DataCompress_1(map, size) ==
  LET o == Order(map)
      at == {k \in DOMAIN o :
               /\ {k - 1, k + 1} \subseteq DOMAIN o
               /\ map[o[k - 1]].dt = 0 /\ map[o[k]].dt = 1 /\ map[o[k + 1]].dt = 0
               /\ Room(map[o[k - 1]]) + Room(map[o[k + 1]]) >= size}
  IN IF at = {} THEN NULL ELSE o[Min(at)]

(* MoveOneData: the gap a message is moved to, the first that is large     *)
(* enough.  Its neighbours are passed over, but the walk looks at the      *)
(* first block of the map before it tests for that, and at the block it    *)
(* comes to when it has passed one over.                                   *)
Target(map, obj) ==
  LET o == Order(map)
      beside == {map[obj].prev, map[obj].next}
      fits == {k \in DOMAIN o :
                 /\ map[o[k]].dt = 0 /\ Room(map[o[k]]) >= Room(map[obj])
                 /\ k = 1 \/ o[k] \notin beside \/ (k > 2 /\ o[k - 1] \in beside)}
  IN IF fits = {} THEN NULL ELSE o[Min(fits)]

(* DataCompress_2 at position k of the map: it would move the message at   *)
(* k + d, which is a neighbour of the gap at k, or lies at k between two.  *)
Tries(map, size, k, d) ==
  LET o == Order(map)
      Is(l, dt) == l \in DOMAIN o /\ map[o[l]].dt = dt
  IN IF map[o[k]].dt = 0
     THEN d # 0 /\ Is(k + d, 1) /\ Room(map[o[k]]) + Room(map[o[k + d]]) >= size
     ELSE /\ d = 0 /\ Is(k - 1, 0) /\ Is(k + 1, 0)
          /\ Room(map[o[k - 1]]) + Room(map[o[k]]) + Room(map[o[k + 1]]) >= size

(* The first of them for which there is room elsewhere.                    *)
DataCompress_2(map, size) ==
  LET o == Order(map)
      can == {t \in (DOMAIN o) \X (-1 .. 1) :
                /\ Tries(map, size, t[1], t[2])
                /\ Target(map, o[t[1] + t[2]]) # NULL}
      first == CHOOSE t \in can :
                 \A u \in can : t[1] < u[1] \/ (t[1] = u[1] /\ t[2] <= u[2])
  IN IF can = {} THEN NULL ELSE o[first[1] + first[2]]

(* DataCompress_3: the first gap with a block behind it.                   *)
DataCompress_3(map) ==
  LET o == Order(map)
      gaps == {k \in DOMAIN o : map[o[k]].dt = 0 /\ map[o[k]].next # NULL}
  IN IF gaps = {} THEN NULL ELSE o[Min(gaps)]

(* One move at a time: the message in block obj goes to the place where    *)
(* block to starts.                                                        *)
NextMove(map, size) ==
  LET c1 == DataCompress_1(map, size)
      c2 == DataCompress_2(map, size)
      c3 == DataCompress_3(map)
  IN CASE c1 # NULL -> [by |-> 1, obj |-> c1, to |-> map[c1].prev]
       [] c1 = NULL /\ c2 # NULL -> [by |-> 2, obj |-> c2, to |-> Target(map, c2)]
       [] c1 = NULL /\ c2 = NULL /\ c3 # NULL -> [by |-> 3, obj |-> map[c3].next, to |-> c3]
       [] OTHER -> NoMove

----------------------------------------------------------------------------
(* What a move does to the map.                                            *)

SetPrev(map, i, p) == IF i = NULL THEN map ELSE [map EXCEPT ![i].prev = p]
SetNext(map, i, x) == IF i = NULL THEN map ELSE [map EXCEPT ![i].next = x]

(* Mutant: the gap behind a moved message starts at its last byte.         *)
MovedFShort(map, obj, n) ==
  LET p == map[obj].prev
      x == map[obj].next
      end == map[p].soff + n - 1
  IN [map EXCEPT ![p].dt = 1, ![p].eoff = end, ![p].next = x,
                 ![x].soff = end, ![x].prev = p]

(* MoveFData: the gap behind gets what the gap in front had left.          *)
MovedF(map, obj, n) ==
  LET p == map[obj].prev
      x == map[obj].next
      end == map[p].soff + n - 1
  IN [map EXCEPT ![p].dt = 1, ![p].eoff = end, ![p].next = x,
                 ![x].soff = end + 1, ![x].prev = p]

(* MoveOneData: obj's place joins the gaps beside it; obj then stands for  *)
(* what is left over of the gap its message went to.                       *)
JoinPrev(map, i) ==
  LET p == map[i].prev IN
  SetPrev([map EXCEPT ![p].eoff = map[i].eoff, ![p].next = map[i].next],
          map[i].next, p)

JoinNext(map, i) ==
  LET x == map[i].next IN
  SetNext([map EXCEPT ![x].soff = map[i].soff, ![x].prev = map[i].prev],
          map[i].prev, x)

IsGap(map, i) == i # NULL /\ map[i].dt = 0

(* Mutant: it does not join the gap behind.                                *)
VacatedPrev(map, i) ==
  LET before == IsGap(map, map[i].prev)
      m1 == IF before THEN JoinPrev(map, i) ELSE map
      t1 == IF before THEN map[i].prev ELSE i
  IN [m1 EXCEPT ![t1].dt = 0]

Vacated(map, i) ==
  LET before == IsGap(map, map[i].prev)
      m1 == IF before THEN JoinPrev(map, i) ELSE map
      t1 == IF before THEN map[i].prev ELSE i
      behind == IsGap(m1, m1[t1].next)
      m2 == IF behind THEN JoinNext(m1, t1) ELSE m1
      t2 == IF behind THEN m1[t1].next ELSE t1
  IN [m2 EXCEPT ![t2].dt = 0]

MovedOne(map, obj, to) ==
  LET m == Vacated(map, obj)
      size == Room(map[obj])
      end == m[to].soff + size - 1
      rest == [dt |-> 0, id |-> m[obj].id, soff |-> end + 1, eoff |-> m[to].eoff,
               prev |-> to, next |-> m[to].next]
  IN IF Room(m[to]) > size
     THEN [m EXCEPT ![obj] = rest, ![to].id = rest.id, ![to].eoff = end,
                    ![to].next = obj, ![to].dt = 1]
     ELSE [m EXCEPT ![to].dt = 1]

(* DataCompress_3: the gap changes places with the message behind it and   *)
(* joins a gap behind that.                                                *)
Exchanged(map, to, obj, n) ==
  LET end == map[to].soff + n - 1
      m1 == [map EXCEPT ![to].eoff = end, ![to].dt = 1, ![to].id = map[obj].id,
                        ![obj].soff = end + 1, ![obj].eoff = end + Room(map[to]),
                        ![obj].dt = 0, ![obj].id = 0]
      x == map[obj].next
  IN IF x # NULL /\ map[x].dt = 0
     THEN SetPrev([m1 EXCEPT ![obj].eoff = map[x].eoff, ![obj].next = map[x].next],
                  map[x].next, obj)
     ELSE m1

----------------------------------------------------------------------------
(* A send: d_msgsnd_main under the file lock.                              *)

BeginSend(id, s) ==
  /\ Idle
  /\ id \notin DOMAIN msgs
  /\ cbytes + s <= QBytes                                      \* else EAGAIN
  /\ op' = [pc |-> IF MakeDataArray = <<>> THEN "refused" ELSE "search",
            id |-> id, size |-> s, off |-> 0, map |-> MakeDataArray, mv |-> NoMove,
            moves |-> 0, beside |-> FALSE, head |-> FALSE]
  /\ UNCHANGED <<msgs, dat, atrisk>>

(* FindSpace up to the next write: the gap to use, or a move, or EAGAIN.   *)
(* It follows links that go in a circle for ever, and DataCompress_1 takes *)
(* it for granted that there are three blocks.                             *)
FindSpace ==
  /\ op.pc = "search"
  /\ LET fit == BestFit(op.map, op.size)
         mv == NextMove(op.map, op.size)
         lost == ~Ends(op.map) \/ (fit = NULL /\ 3 \notin DOMAIN Order(op.map))
     IN op' = CASE lost -> [op EXCEPT !.pc = "lost"]
                [] ~lost /\ fit # NULL -> [op EXCEPT !.pc = "found", !.off = op.map[fit].soff]
                [] ~lost /\ fit = NULL /\ mv # NoMove -> [op EXCEPT !.pc = "move", !.mv = mv]
                [] OTHER -> [op EXCEPT !.pc = "refused"]
  /\ UNCHANGED <<msgs, dat, atrisk>>

Moving == op.map[op.mv.obj].id
NewPlace == op.map[op.mv.to].soff

(* MoveOneData has chosen a gap beside the message, as the map has them.   *)
MovesBeside ==
  LET o == Order(op.map) IN
  /\ op.mv.by = 2
  /\ \E k \in DOMAIN o \ {1} : {op.mv.obj, op.mv.to} = {o[k - 1], o[k]}

(* The first write of a move; with no such message (a block taken for one) *)
(* or no such place it reads and writes anywhere.                          *)
MoveData ==
  /\ op.pc = "move"
  /\ IF Moving \in DOMAIN msgs /\ op.mv.to # NULL
     THEN /\ dat' = Written(BytesOf(msgs[Moving]), NewPlace)
          /\ op' = [op EXCEPT !.pc = "moved", !.moves = @ + 1, !.beside = @ \/ MovesBeside]
          /\ atrisk' = IF MovesBeside \/ op.head THEN Ids ELSE atrisk
     ELSE op' = [op EXCEPT !.pc = "lost"] /\ UNCHANGED <<dat, atrisk>>
  /\ UNCHANGED msgs

(* The second, WriteMHead, and the map after it.                           *)
MoveHead ==
  /\ op.pc = "moved"
  /\ msgs' = [msgs EXCEPT ![Moving].whence = NewPlace]
  /\ LET obj == op.mv.obj
         n == msgs[Moving].mbytes
         map == CASE op.mv.by = 1 -> MovedF(op.map, obj, n)
                  [] op.mv.by = 2 -> MovedOne(op.map, obj, op.mv.to)
                  [] op.mv.by = 3 -> Exchanged(op.map, op.mv.to, obj, n)
         next == [op EXCEPT !.map = map, !.mv = NoMove,
                            !.head = @ \/ (op.mv.by = 2 /\ obj = 1)]
         enough == op.mv.by # 3 \/ Room(map[obj]) >= op.size
     IN op' = CASE enough -> [next EXCEPT !.pc = "search"]
                [] ~enough /\ map[obj].next # NULL ->
                     [next EXCEPT !.pc = "move",
                                  !.mv = [by |-> 3, obj |-> map[obj].next, to |-> obj]]
                [] OTHER -> [next EXCEPT !.pc = "refused"]
  /\ UNCHANGED <<dat, atrisk>>

(* The message itself: its bytes, then its header (the three writes to the *)
(* control file are those of DiskQCrash).                                  *)
WriteData ==
  /\ op.pc = "found"
  /\ dat' = Written([k \in 1 .. op.size |-> <<op.id, k>>], op.off)
  /\ op' = [op EXCEPT !.pc = "written"]
  /\ UNCHANGED <<msgs, atrisk>>

WriteHead ==
  /\ op.pc = "written"
  /\ msgs' = [id \in DOMAIN msgs \cup {op.id} |->
                IF id = op.id THEN [whence |-> op.off, mbytes |-> op.size]
                ELSE msgs[id]]
  /\ op' = NoOp
  /\ UNCHANGED <<dat, atrisk>>

(* EAGAIN: the sender waits, or returns with the error.                    *)
Refused ==
  /\ op.pc = "refused"
  /\ op' = NoOp
  /\ UNCHANGED <<msgs, dat, atrisk>>

(* Bytes that are no longer those of a message on the queue.               *)
Disowned(id) == [o \in Offsets |-> IF dat[o][1] = id THEN Junk ELSE dat[o]]

(* A kill between two writes.  In the middle of a move onto part of its    *)
(* old place a message is in neither place whole.                          *)
Kill ==
  /\ op.pc \in KillAt
  /\ op' = NoOp
  /\ LET m == msgs[Moving]
         torn == op.pc = "moved" /\ Place([m EXCEPT !.whence = NewPlace]) \cap Place(m) # {}
     IN atrisk' = atrisk \cup (IF torn THEN {Moving} ELSE {})
  /\ dat' = IF op.pc = "written" THEN Disowned(op.id) ELSE dat
  /\ UNCHANGED msgs

(* A receive takes a message off the list (which one: DiskQFile).          *)
Receive(id) ==
  /\ Idle
  /\ msgs' = Restrict(msgs, DOMAIN msgs \ {id})
  /\ dat' = Disowned(id)
  /\ atrisk' = atrisk \ {id}
  /\ UNCHANGED op

Next ==
  \/ \E id \in Ids, s \in Sizes : BeginSend(id, s)
  \/ FindSpace \/ MoveData \/ MoveHead \/ WriteData \/ WriteHead \/ Refused
  \/ Kill
  \/ \E id \in DOMAIN msgs : Receive(id)

Spec == Init /\ [][Next]_vars

----------------------------------------------------------------------------
Whole(id) ==
  /\ Intact(id)
  /\ \A j \in DOMAIN msgs \ {id} : Place(msgs[j]) \cap Place(msgs[id]) = {}

(* Whenever the lock is free, a message on the queue has the bytes that    *)
(* were sent, in a place of its own, over any sequence of sends, moves and *)
(* receives and with senders killed between the two writes of a move.  The *)
(* three ways to lose one that were found are left out by atrisk: the move *)
(* was onto part of its old place and the sender was killed in the middle; *)
(* MoveOneData moved a message beside its old place; or it moved the       *)
(* file's first block, the rest of the gap took that block's place at the  *)
(* start of the map, with links that are stale, and another move followed. *)
MessagesKept == Idle => \A id \in DOMAIN msgs : id \in atrisk \/ Whole(id)

(* FindSpace finds room whenever as many bytes are free, if not in one     *)
(* piece: EAGAIN comes of the count of bytes alone.  Left out again: a     *)
(* move to a gap beside the message, messages it left on top of each       *)
(* other, and a move of the file's first block, which FindSpace goes on to *)
(* take for the start of the map.                                          *)
RoomIsFound ==
  op.pc \in {"refused", "lost"} =>
    op.beside \/ op.head \/ \E id \in DOMAIN msgs : ~Whole(id)

(* The search comes to an end: every round of FindSpace moves a message,   *)
(* and a send makes no more moves than there are messages on the queue.    *)
(* Left out again: a move to a gap beside the message, and what follows a  *)
(* move of the file's first block, where the same move can be made over    *)
(* and over.                                                               *)
MovesBounded ==
  op.pc # "idle" =>
    op.beside \/ op.head \/ op.moves <= Cardinality(DOMAIN msgs)

(* "Moves the message in front of or behind a gap to a gap that is not    *)
(* next to it": the comment over MoveOneData.                              *)
(* Does not hold: README, "Where code and comments part".                  *)
MovedApart == op.pc = "move" => ~MovesBeside
=============================================================================
