------------------------- MODULE DiskQSpace_proofs -------------------------
(***************************************************************************)
(* For every size of the data file, any number of messages of any length   *)
(* but zero, and senders killed between any two writes: no send and no     *)
(* move damages a message, room is found whenever as many bytes are free,  *)
(* and the search for it ends; but for the moves FindSpace makes wrongly.  *)
(*                                                                         *)
(* A map just made has its blocks in the order of the file, one behind the *)
(* other up to its end, gaps apart (Fresh).  One move by the first or the  *)
(* second compression leaves a gap on the walk that is large enough (Fits) *)
(* and no gap on the walk over a message (Safe): the send then writes.     *)
(* The third pushes one gap back through the file; the map in front of it  *)
(* is a chain of data blocks, with no free byte (Covered), and the map     *)
(* behind it is still as it was made (Chain).  So every move but the first *)
(* has one more message in front of the gap.                               *)
(*                                                                         *)
(* The walk along next is a recursive function over the map's positions;   *)
(* what it visits is found by a rank that grows along next.                *)
(***************************************************************************)
EXTENDS DiskQSpace, FiniteSetTheorems, SequenceTheorems, TLAPS

----------------------------------------------------------------------------
(* The map as it is made, and as moves leave it.                           *)

Blocks(n) == [dt : {0, 1}, id : Ids \cup {NoId, 0}, soff : Int, eoff : Int,
              prev : 0 .. n, next : 0 .. n]
MapOf(n) == [1 .. n -> Blocks(n)]
Size(map) == Cardinality(DOMAIN map)

Headers == [whence : Int, mbytes : Sizes]

(* In what follows ms are the messages of a state.                         *)
Clear(ms, S) == S \subseteq Offsets /\ \A j \in DOMAIN ms : Place(ms[j]) \cap S = {}
Span(b) == b.soff .. b.eoff

Placed(ms) ==
  \A i \in DOMAIN ms :
    /\ Place(ms[i]) \subseteq Offsets
    /\ \A j \in DOMAIN ms \ {i} : Place(ms[i]) \cap Place(ms[j]) = {}

(* Blocks f .. n lie one behind the other up to the end of the file, no    *)
(* two gaps side by side, each data block where its message is.            *)
Linked(map, f, n) ==
  \A i \in f .. n : /\ map[i].next = IF i = n THEN NULL ELSE i + 1
                    /\ i > f => map[i].prev = i - 1
Tiles(map, f, n) ==
  /\ \A i \in f .. n :
       /\ map[i].soff <= map[i].eoff
       /\ i < n => /\ map[i + 1].soff = map[i].eoff + 1
                   /\ map[i].dt = 1 \/ map[i + 1].dt = 1
  /\ map[n].eoff = QBytes - 1
Named(ms, map, f, n) ==
  \A i \in f .. n : map[i].dt = 1 =>
    /\ map[i].id \in DOMAIN ms
    /\ map[i].soff = ms[map[i].id].whence
    /\ map[i].eoff = map[i].soff + ms[map[i].id].mbytes - 1

Fresh(ms, map, n) ==
  /\ map[1].soff = 0 /\ map[1].prev = NULL
  /\ Linked(map, 1, n) /\ Tiles(map, 1, n) /\ Named(ms, map, 1, n)
  /\ \A id \in DOMAIN ms : \E i \in 1 .. n : map[i].dt = 1 /\ map[i].id = id

GapAt(map, i, n) == i \in 1 .. n /\ map[i].dt = 0
RoomAt(map, i, n) == IF GapAt(map, i, n) THEN Room(map[i]) ELSE 0

(* DataCompress_3 has pushed a gap up to block to: data blocks link the    *)
(* first block to it, and behind it the map is as it was made.             *)
Chain(ms, map, to, n) ==
  LET x == map[to].next
      f == IF x = NULL THEN n + 1 ELSE x
  IN /\ to \in 1 .. n /\ map[to].dt = 0
     /\ 0 <= map[to].soff /\ map[to].soff <= map[to].eoff
     /\ to < f
     /\ IF x = NULL THEN map[to].eoff = QBytes - 1
        ELSE /\ map[x].dt = 1 /\ map[x].soff = map[to].eoff + 1
             /\ Linked(map, x, n) /\ Tiles(map, x, n) /\ Named(ms, map, x, n)
     /\ \E live \in SUBSET (1 .. to) :
          /\ 1 \in live /\ to \in live
          /\ \A i \in live \ {to} : map[i].dt = 1 /\ map[i].next \in live /\ map[i].next > i
     /\ Clear(ms, Span(map[to]))
     /\ \A i \in f .. n : map[i].dt = 0 => Clear(ms, Span(map[i]))

Covered(ms, S) == \A q \in S : \E id \in DOMAIN ms : q \in Place(ms[id])
Before(ms, at) == {id \in DOMAIN ms : ms[id].whence < at}

(* The move that is chosen: the first two compressions find theirs in a    *)
(* map just made and need no second one.                                   *)
Step(ms, map, n, mv, size, moves) ==
  LET obj == mv.obj  to == mv.to IN
  /\ Placed(ms)
  /\ \/ /\ mv.by = 1 /\ moves = 0 /\ Fresh(ms, map, n)
        /\ to \in 1 .. n - 2 /\ obj = to + 1
        /\ map[to].dt = 0 /\ map[obj].dt = 1 /\ map[obj + 1].dt = 0
        /\ Room(map[to]) + Room(map[obj + 1]) >= size
     \/ /\ mv.by = 2 /\ moves = 0 /\ Fresh(ms, map, n)
        /\ to \in 1 .. n /\ obj \in 1 .. n
        /\ map[to].dt = 0 /\ map[obj].dt = 1 /\ Room(map[to]) >= Room(map[obj])
        /\ to = 1 \/ to \notin {obj - 1, obj + 1}
        /\ GapAt(map, obj - 1, n) \/ GapAt(map, obj + 1, n)
        /\ Room(map[obj]) + RoomAt(map, obj - 1, n) + RoomAt(map, obj + 1, n) >= size
     \/ /\ mv.by = 3 /\ Chain(ms, map, to, n) /\ obj = map[to].next /\ obj # NULL
        /\ Covered(ms, 0 .. map[to].soff - 1)
        /\ moves <= Cardinality(Before(ms, map[to].soff))

(* No gap on the walk holds bytes of a message; one of them is enough.     *)
Safe(ms, map) ==
  \A k \in DOMAIN Order(map) :
     map[Order(map)[k]].dt = 0 => Clear(ms, Span(map[Order(map)[k]]))
Fits(map, size) ==
  /\ Ends(map)
  /\ \E k \in DOMAIN Order(map) :
       map[Order(map)[k]].dt = 0 /\ Room(map[Order(map)[k]]) >= size

----------------------------------------------------------------------------
(* Induction, and the least of a set of numbers.                           *)

Below == {xy \in Nat \X Nat : xy[1] < xy[2]}

LEMMA BelowIsWellFounded == IsWellFoundedOn(Below, Nat)
BY NatLessThanWellFounded DEF OpToRel, Below

LEMMA BelowDef == \A x, y \in Nat : (<<x, y>> \in Below) = (x < y)
BY DEF Below

LEMMA LeastNat ==
  ASSUME NEW S, S \subseteq Nat, S # {}
  PROVE  \E x \in S : \A y \in S : x <= y
<1>1. PICK x \in S : \A y \in S : ~(<<y, x>> \in Below)
  BY ONLY S \subseteq Nat, S # {}, BelowIsWellFounded, WFMin
<1>2. \A y \in S : ~(y < x)
  BY <1>1, BelowDef
<1>3. x \in Nat /\ \A y \in S : y \in Nat
  OBVIOUS
<1>. QED
  BY <1>2, <1>3

LEMMA SetInduction ==
  ASSUME NEW S, 0 \in S, \A k \in Nat : k \in S => k + 1 \in S
  PROVE  \A k \in Nat : k \in S
<1>. DEFINE T == Nat \ S
<1>1. SUFFICES ASSUME T # {} PROVE FALSE
  OBVIOUS
<1>2. T \subseteq Nat
  OBVIOUS
<1>. HIDE DEF T
<1>3. PICK x \in T : \A y \in T : x <= y
  BY <1>1, <1>2, LeastNat
<1>4. x \in Nat /\ x \notin S
  BY DEF T
<1>5. x # 0
  BY <1>4
<1>6. x - 1 \in Nat /\ ~(x <= x - 1)
  BY <1>4, <1>5
<1>7. x - 1 \in S
  BY <1>3, <1>6 DEF T
<1>8. (x - 1) + 1 \in S
  BY <1>6, <1>7
<1>. QED
  BY <1>4, <1>8

LEMMA MinFacts ==
  ASSUME NEW S, S \subseteq Nat, S # {}
  PROVE  Min(S) \in S /\ \A y \in S : Min(S) <= y
<1>1. \E x \in S : \A y \in S : x <= y
  BY LeastNat
<1>. QED
  BY <1>1 DEF Min

(* A recursive function on 0 .. n exists.                                  *)
Recurs(v, T, a, g, n) ==
  /\ v \in [0 .. n -> T]
  /\ v[0] = a /\ \A k \in 1 .. n : v[k] = g[<<k, v[k - 1]>>]

LEMMA Recursion ==
  ASSUME NEW T, NEW a \in T, NEW g \in [Nat \X T -> T]
  PROVE  \A n \in Nat : \E v : Recurs(v, T, a, g, n)
<1>. DEFINE Is(v, n) == v[0] = a /\ \A k \in 1 .. n : v[k] = g[<<k, v[k - 1]>>]
            S == {n \in Nat : \E v \in [0 .. n -> T] : Is(v, n)}
<1>1. 0 \in S
  <2>. DEFINE v == [k \in 0 .. 0 |-> a]
  <2>1. v \in [0 .. 0 -> T] /\ Is(v, 0)
    OBVIOUS
  <2>. QED
    BY <2>1
<1>2. \A n \in Nat : n \in S => n + 1 \in S
  <2>. SUFFICES ASSUME NEW n \in Nat, n \in S PROVE n + 1 \in S
    OBVIOUS
  <2>1. PICK v \in [0 .. n -> T] : Is(v, n)
    OBVIOUS
  <2>. DEFINE u == [k \in 0 .. n + 1 |-> IF k = n + 1 THEN g[<<k, v[n]>>] ELSE v[k]]
  <2>2. v[n] \in T /\ n + 1 \in Nat
    OBVIOUS
  <2>3. u \in [0 .. n + 1 -> T]
    BY <2>2
  <2>4. u[0] = a
    BY <2>1
  <2>5. ASSUME NEW k \in 1 .. n + 1 PROVE u[k] = g[<<k, u[k - 1]>>]
    <3>1. CASE k = n + 1
      <4>1. k - 1 = n /\ n \in 0 .. n + 1 /\ n # n + 1 /\ k \in 0 .. n + 1
        BY <3>1
      <4>2. u[k - 1] = v[n]
        BY <4>1
      <4>. QED
        BY <3>1, <4>1, <4>2
    <3>2. CASE k # n + 1
      <4>1. k \in 1 .. n /\ k - 1 \in 0 .. n + 1 /\ k - 1 # n + 1 /\ k \in 0 .. n + 1
        BY <3>2
      <4>2. u[k] = v[k] /\ u[k - 1] = v[k - 1]
        BY <3>2, <4>1
      <4>. QED
        BY <2>1, <4>1, <4>2
    <3>. QED
      BY <3>1, <3>2
  <2>. HIDE DEF u
  <2>6. \E w \in [0 .. n + 1 -> T] : Is(w, n + 1)
    BY <2>3, <2>4, <2>5
  <2>. QED
    BY <2>6
<1>. HIDE DEF S
<1>3. \A n \in Nat : n \in S
  BY <1>1, <1>2, SetInduction
<1>. QED
  BY <1>3 DEF S, Recurs

----------------------------------------------------------------------------
(* The walk along the map.                                                 *)

(* The position of blocks on the walk.                                     *)
WalkOf(map, o, n) ==
  /\ DOMAIN o \subseteq 1 .. n /\ o \in [DOMAIN o -> 1 .. n]
  /\ 1 \in DOMAIN o /\ o[1] = 1
  /\ \A k \in 1 .. n - 1 :
       /\ k + 1 \in DOMAIN o <=> k \in DOMAIN o /\ map[o[k]].next # NULL
       /\ k + 1 \in DOMAIN o => o[k + 1] = map[o[k]].next

LEMMA OrderIsWalk ==
  ASSUME NEW n \in Nat \ {0}, NEW map \in MapOf(n)
  PROVE  WalkOf(map, Order(map), n)
<1>. DEFINE St(v, k) == IF k = 1 THEN 1
                        ELSE IF v[k - 1] = NULL THEN NULL ELSE map[v[k - 1]].next
            Eq(v) == v = [k \in 1 .. n |-> St(v, k)]
            g == [kv \in Nat \X (0 .. n) |->
                    IF kv[1] = 1 THEN 1
                    ELSE IF kv[2] = NULL THEN NULL ELSE map[kv[2]].next]
            walk == CHOOSE v : Eq(v)
<1>1. DOMAIN map = 1 .. n /\ \A i \in 1 .. n : map[i].next \in 0 .. n
  BY DEF MapOf, Blocks
<1>2. g \in [Nat \X (0 .. n) -> 0 .. n]
  BY <1>1 DEF NULL
<1>3. PICK v \in [0 .. n -> 0 .. n] :
         v[0] = 1 /\ \A k \in 1 .. n : v[k] = g[<<k, v[k - 1]>>]
  <2>. HIDE DEF g
  <2>1. 1 \in 0 .. n
    OBVIOUS
  <2>2. \A m \in Nat : \E v : Recurs(v, 0 .. n, 1, g, m)
    BY ONLY <1>2, <2>1, Recursion
  <2>. QED BY <2>2 DEF Recurs
<1>. DEFINE w == [k \in 1 .. n |-> v[k]]
<1>4. \A k \in 1 .. n : v[k] = St(v, k)
  <2>. TAKE k \in 1 .. n
  <2>1. k \in Nat /\ v[k - 1] \in 0 .. n
    OBVIOUS
  <2>2. g[<<k, v[k - 1]>>] = St(v, k)
    BY <2>1
  <2>. QED BY <1>3, <2>2
<1>5. Eq(w)
  <2>1. ASSUME NEW k \in 1 .. n PROVE St(v, k) = St(w, k)
    <3>1. CASE k = 1
      BY <3>1
    <3>2. CASE k # 1
      <4>1. k - 1 \in 1 .. n
        BY <3>2
      <4>. QED BY <4>1
    <3>. QED BY <3>1, <3>2
  <2>. QED BY <1>4, <2>1
<1>6. Eq(walk)
  <2>. HIDE DEF Eq
  <2>. QED BY <1>5
<1>7. Order(map) = Restrict(walk, {k \in DOMAIN map : walk[k] # NULL})
  BY <1>1 DEF Order
<1>8. \A k \in 1 .. n : walk[k] = St(walk, k)
  BY Zenon, <1>6
<1>. HIDE DEF walk
<1>. DEFINE o == Order(map)
<1>9. DOMAIN o = {k \in 1 .. n : walk[k] # NULL} /\ \A k \in DOMAIN o : o[k] = walk[k]
  BY <1>1, <1>7 DEF Restrict
<1>. DEFINE S == {k \in Nat : k + 1 <= n => walk[k + 1] \in 0 .. n}
<1>10. 0 \in S
  BY <1>8
<1>11. \A k \in Nat : k \in S => k + 1 \in S
  <2>. SUFFICES ASSUME NEW k \in Nat, k \in S, (k + 1) + 1 <= n PROVE walk[(k + 1) + 1] \in 0 .. n
    OBVIOUS
  <2>1. walk[k + 1] \in 0 .. n
    OBVIOUS
  <2>2. walk[(k + 1) + 1] = IF walk[k + 1] = NULL THEN NULL ELSE map[walk[k + 1]].next
    <3>1. (k + 1) + 1 \in 1 .. n /\ (k + 1) + 1 # 1 /\ ((k + 1) + 1) - 1 = k + 1
      OBVIOUS
    <3>. QED BY <1>8, <3>1
  <2>3. CASE walk[k + 1] = NULL
    BY <2>2, <2>3 DEF NULL
  <2>4. CASE walk[k + 1] # NULL
    <3>1. walk[k + 1] \in 1 .. n
      BY <2>1, <2>4 DEF NULL
    <3>. QED BY <1>1, <2>2, <2>4, <3>1
  <2>. QED BY <2>3, <2>4
<1>12. \A k \in 1 .. n : walk[k] \in 0 .. n
  <2>1. \A k \in Nat : k \in S
    <3>. HIDE DEF S
    <3>. QED BY <1>10, <1>11, SetInduction
  <2>. TAKE k \in 1 .. n
  <2>2. k - 1 \in Nat /\ (k - 1) + 1 = k /\ k <= n
    OBVIOUS
  <2>3. k - 1 \in S
    <3>. HIDE DEF S
    <3>. QED BY <2>1, <2>2
  <2>. QED BY <2>2, <2>3
<1>13. walk[1] = 1
  BY <1>8
<1>14. \A k \in 1 .. n - 1 : walk[k + 1] = IF walk[k] = NULL THEN NULL ELSE map[walk[k]].next
  <2>. TAKE k \in 1 .. n - 1
  <2>1. k + 1 \in 1 .. n /\ k + 1 # 1 /\ (k + 1) - 1 = k
    OBVIOUS
  <2>. QED BY <1>8, <2>1
<1>. HIDE DEF o
<1>15. DOMAIN o \subseteq 1 .. n /\ o \in [DOMAIN o -> 1 .. n]
  <2>1. \A k \in DOMAIN o : o[k] \in 1 .. n
    BY <1>9, <1>12 DEF NULL
  <2>2. o = [k \in DOMAIN o |-> o[k]]
    BY <1>7 DEF o, Restrict
  <2>. QED BY <1>9, <2>1, <2>2
<1>16. 1 \in DOMAIN o /\ o[1] = 1
  BY <1>9, <1>13 DEF NULL
<1>17. ASSUME NEW k \in 1 .. n - 1
       PROVE  /\ k + 1 \in DOMAIN o <=> k \in DOMAIN o /\ map[o[k]].next # NULL
              /\ k + 1 \in DOMAIN o => o[k + 1] = map[o[k]].next
  <2>1. k \in 1 .. n /\ k + 1 \in 1 .. n
    OBVIOUS
  <2>. QED BY <1>9, <1>14, <2>1
<1>. QED
  BY <1>15, <1>16, <1>17 DEF WalkOf, o

(* A walk along which a rank grows.                                        *)
Ranked(map, S, r, n) ==
  /\ S \subseteq 1 .. n /\ 1 \in S /\ r \in [1 .. n -> Int]
  /\ \A i \in S : map[i].next # NULL => map[i].next \in S /\ r[map[i].next] > r[i]

LEMMA RankedStays ==
  ASSUME NEW n \in Nat \ {0}, NEW map, NEW o, WalkOf(map, o, n),
         NEW S, NEW r, Ranked(map, S, r, n)
  PROVE  \A k \in DOMAIN o : o[k] \in S
<1>. DEFINE K == {k \in Nat : k + 1 \in DOMAIN o => o[k + 1] \in S}
<1>1. 0 \in K
  BY DEF WalkOf, Ranked
<1>2. \A k \in Nat : k \in K => k + 1 \in K
  <2>. SUFFICES ASSUME NEW k \in Nat, k \in K, (k + 1) + 1 \in DOMAIN o
                PROVE  o[(k + 1) + 1] \in S
    OBVIOUS
  <2>1. (k + 1) + 1 <= n
    BY DEF WalkOf
  <2>2. k + 1 \in 1 .. n - 1
    BY <2>1
  <2>3. /\ k + 1 \in DOMAIN o /\ map[o[k + 1]].next # NULL
        /\ o[(k + 1) + 1] = map[o[k + 1]].next
    BY <2>2 DEF WalkOf
  <2>4. o[k + 1] \in S
    BY <2>3
  <2>. QED
    BY <2>3, <2>4 DEF Ranked
<1>. HIDE DEF K
<1>3. \A k \in Nat : k \in K
  BY <1>1, <1>2, SetInduction
<1>. SUFFICES ASSUME NEW k \in DOMAIN o PROVE o[k] \in S
  OBVIOUS
<1>4. k \in 1 .. n
  BY DEF WalkOf
<1>5. k - 1 \in K /\ (k - 1) + 1 = k
  BY <1>3, <1>4
<1>. QED
  BY <1>5 DEF K

LEMMA RankedGrows ==
  ASSUME NEW n \in Nat \ {0}, NEW map, NEW o, WalkOf(map, o, n),
         NEW S, NEW r, Ranked(map, S, r, n)
  PROVE  \A j, k \in DOMAIN o : j < k => r[o[j]] < r[o[k]]
<1>. SUFFICES ASSUME NEW j \in DOMAIN o
              PROVE  \A k \in DOMAIN o : j < k => r[o[j]] < r[o[k]]
  OBVIOUS
<1>0. \A k \in DOMAIN o : k \in 1 .. n /\ o[k] \in S /\ o[k] \in 1 .. n /\ r[o[k]] \in Int
  <2>1. \A k \in DOMAIN o : k \in 1 .. n /\ o[k] \in S
    BY RankedStays DEF WalkOf
  <2>2. \A i \in S : i \in 1 .. n /\ r[i] \in Int
    BY DEF Ranked
  <2>. QED BY <2>1, <2>2
<1>. DEFINE K == {d \in Nat : j + d + 1 \in DOMAIN o => r[o[j]] < r[o[j + d + 1]]}
<1>1. 0 \in K
  <2>. SUFFICES ASSUME j + 0 + 1 \in DOMAIN o PROVE r[o[j]] < r[o[j + 0 + 1]]
    OBVIOUS
  <2>1. j \in 1 .. n - 1 /\ j + 0 + 1 = j + 1 /\ j + 1 \in DOMAIN o
    BY <1>0
  <2>2. map[o[j]].next # NULL /\ o[j + 1] = map[o[j]].next
    BY <2>1 DEF WalkOf
  <2>. QED
    BY <1>0, <2>1, <2>2 DEF Ranked
<1>2. \A d \in Nat : d \in K => d + 1 \in K
  <2>. SUFFICES ASSUME NEW d \in Nat, d \in K, j + (d + 1) + 1 \in DOMAIN o
                PROVE  r[o[j]] < r[o[j + (d + 1) + 1]]
    OBVIOUS
  <2>. PICK l \in Int : l = j + d + 1
    BY <1>0
  <2>1. j + (d + 1) + 1 = l + 1 /\ l + 1 \in DOMAIN o
    BY <1>0
  <2>2. l \in 1 .. n - 1
    BY <1>0, <2>1
  <2>3. l \in DOMAIN o /\ map[o[l]].next # NULL /\ o[l + 1] = map[o[l]].next
    BY <2>1, <2>2 DEF WalkOf
  <2>4. r[o[j]] < r[o[l]]
    BY <2>3
  <2>5. r[o[l]] < r[o[l + 1]]
    BY <1>0, <2>3 DEF Ranked
  <2>6. r[o[j]] \in Int /\ r[o[l]] \in Int /\ r[o[l + 1]] \in Int
    BY <1>0, <2>1, <2>3
  <2>7. r[o[j]] < r[o[l + 1]]
    BY ONLY <2>4, <2>5, <2>6
  <2>. QED
    BY <2>1, <2>7
<1>. HIDE DEF K
<1>3. \A d \in Nat : d \in K
  BY <1>1, <1>2, SetInduction
<1>. SUFFICES ASSUME NEW k \in DOMAIN o, j < k PROVE r[o[j]] < r[o[k]]
  OBVIOUS
<1>4. j \in Int /\ k \in Int /\ k - j - 1 \in Nat /\ j + (k - j - 1) + 1 = k
  BY <1>0
<1>5. k - j - 1 \in K
  BY <1>3, <1>4
<1>. QED
  BY <1>4, <1>5 DEF K

LEMMA RankedEnds ==
  ASSUME NEW n \in Nat \ {0}, NEW map, NEW o, WalkOf(map, o, n),
         NEW S, NEW r, Ranked(map, S, r, n), \A i \in 1 .. n : map[i].next \in 0 .. n
  PROVE  \E k \in DOMAIN o : map[o[k]].next = NULL
<1>. SUFFICES ASSUME \A k \in DOMAIN o : map[o[k]].next # NULL PROVE FALSE
  OBVIOUS
<1>. DEFINE K == {k \in Nat : k + 1 <= n => k + 1 \in DOMAIN o}
<1>1. 0 \in K
  BY DEF WalkOf
<1>2. \A k \in Nat : k \in K => k + 1 \in K
  <2>. SUFFICES ASSUME NEW k \in Nat, k \in K, (k + 1) + 1 <= n
                PROVE  (k + 1) + 1 \in DOMAIN o
    OBVIOUS
  <2>1. k + 1 \in 1 .. n - 1 /\ k + 1 \in DOMAIN o
    OBVIOUS
  <2>. QED
    BY <2>1 DEF WalkOf
<1>3. \A k \in 1 .. n : k \in DOMAIN o
  <2>1. \A k \in Nat : k \in K
    <3>. HIDE DEF K
    <3>. QED BY <1>1, <1>2, SetInduction
  <2>. TAKE k \in 1 .. n
  <2>2. k - 1 \in Nat /\ (k - 1) + 1 = k /\ k <= n
    OBVIOUS
  <2>3. k - 1 \in K
    <3>. HIDE DEF K
    <3>. QED BY <2>1, <2>2
  <2>. QED BY <2>2, <2>3
<1>. HIDE DEF K
<1>4. DOMAIN o = 1 .. n /\ o \in [1 .. n -> 1 .. n]
  BY <1>3 DEF WalkOf
<1>5. \A j, k \in 1 .. n : o[j] = o[k] => j = k
  <2>. SUFFICES ASSUME NEW j \in 1 .. n, NEW k \in 1 .. n, o[j] = o[k], j # k PROVE FALSE
    OBVIOUS
  <2>1. r[o[j]] \in Int
    BY <1>4 DEF Ranked
  <2>2. j < k \/ k < j
    OBVIOUS
  <2>3. \A a, b \in DOMAIN o : a < b => r[o[a]] < r[o[b]]
    BY RankedGrows
  <2>. QED
    BY <1>4, <2>1, <2>2, <2>3
<1>6. o \in Injection(1 .. n, 1 .. n)
  BY <1>4, <1>5 DEF Injection, IsInjective
<1>7. o \in Surjection(1 .. n, 1 .. n)
  <2>1. IsFiniteSet(1 .. n)
    BY FS_Interval
  <2>. QED BY <1>6, <2>1, FS_Injection
<1>8. n \in DOMAIN o /\ o[n] \in 1 .. n
  BY <1>4
<1>9. PICK j \in 1 .. n : o[j] = map[o[n]].next
  <2>1. map[o[n]].next \in 1 .. n
    BY <1>8 DEF NULL
  <2>. QED BY <1>7, <2>1 DEF Surjection
<1>10. o[n] \in S
  BY <1>8, RankedStays
<1>11. r[o[j]] > r[o[n]] /\ r[o[j]] \in Int /\ r[o[n]] \in Int
  BY <1>4, <1>8, <1>9, <1>10 DEF Ranked
<1>12. j = n \/ r[o[j]] < r[o[n]]
  <2>1. \A a, b \in DOMAIN o : a < b => r[o[a]] < r[o[b]]
    BY RankedGrows
  <2>2. j = n \/ j < n
    OBVIOUS
  <2>. QED BY <1>4, <2>1, <2>2
<1>. QED
  BY <1>11, <1>12

LEMMA RankedReaches ==
  ASSUME NEW n \in Nat \ {0}, NEW map, NEW o, WalkOf(map, o, n),
         NEW S, NEW r, Ranked(map, S, r, n), \A i \in 1 .. n : map[i].next \in 0 .. n,
         NEW g \in S, r[1] <= r[g],
         \A i \in S : r[i] < r[g] => map[i].next # NULL /\ r[map[i].next] <= r[g],
         \A i \in S : r[i] = r[g] => i = g
  PROVE  \E k \in DOMAIN o : o[k] = g
<1>. DEFINE K == {k \in DOMAIN o : r[o[k]] >= r[g]}
<1>0. \A k \in DOMAIN o : k \in 1 .. n /\ o[k] \in S /\ o[k] \in 1 .. n /\ r[o[k]] \in Int
  <2>1. \A k \in DOMAIN o : k \in 1 .. n /\ o[k] \in S
    BY RankedStays DEF WalkOf
  <2>2. \A i \in S : i \in 1 .. n /\ r[i] \in Int
    BY DEF Ranked
  <2>. QED BY <2>1, <2>2
<1>1. r[g] \in Int
  BY DEF Ranked
<1>2. K # {}
  <2>1. PICK k \in DOMAIN o : map[o[k]].next = NULL
    BY RankedEnds
  <2>2. ~(r[o[k]] < r[g])
    BY <1>0, <2>1
  <2>3. r[o[k]] >= r[g]
    BY <1>0, <1>1, <2>2
  <2>. QED BY <2>3
<1>3. K \subseteq Nat
  BY <1>0
<1>. HIDE DEF K
<1>4. PICK k \in K : \A j \in K : k <= j
  BY <1>2, <1>3, LeastNat
<1>5. k \in DOMAIN o /\ k \in 1 .. n /\ o[k] \in S /\ r[o[k]] \in Int /\ r[o[k]] >= r[g]
  BY <1>0, <1>4 DEF K
<1>6. r[o[k]] <= r[g]
  <2>1. CASE k = 1
    BY <2>1 DEF WalkOf
  <2>2. CASE k # 1
    <3>1. k - 1 \in 1 .. n - 1 /\ (k - 1) + 1 = k /\ ~(k <= k - 1)
      BY <1>5, <2>2
    <3>2. k - 1 \in DOMAIN o /\ o[k] = map[o[k - 1]].next
      BY <1>5, <3>1 DEF WalkOf
    <3>3. k - 1 \notin K
      BY <1>4, <3>1
    <3>4. ~(r[o[k - 1]] >= r[g])
      BY <3>2, <3>3 DEF K
    <3>5. r[o[k - 1]] < r[g]
      BY <1>0, <1>1, <3>2, <3>4
    <3>. QED
      BY <1>0, <3>2, <3>5
  <2>. QED BY <2>1, <2>2
<1>7. r[o[k]] = r[g]
  BY <1>1, <1>5, <1>6
<1>. QED
  BY <1>5, <1>7

(* The walk of a map whose links are those of MakeDataArray.               *)
LEMMA LinkedWalk ==
  ASSUME NEW n \in Nat \ {0}, NEW map, NEW o, WalkOf(map, o, n),
         \A i \in 1 .. n : map[i].next = IF i = n THEN NULL ELSE i + 1
  PROVE  DOMAIN o = 1 .. n /\ \A k \in 1 .. n : o[k] = k
<1>. DEFINE K == {k \in Nat : k + 1 <= n => k + 1 \in DOMAIN o /\ o[k + 1] = k + 1}
<1>1. 0 \in K
  BY DEF WalkOf
<1>2. \A k \in Nat : k \in K => k + 1 \in K
  <2>. SUFFICES ASSUME NEW k \in Nat, k \in K, (k + 1) + 1 <= n
                PROVE  (k + 1) + 1 \in DOMAIN o /\ o[(k + 1) + 1] = (k + 1) + 1
    OBVIOUS
  <2>1. k + 1 \in 1 .. n - 1 /\ k + 1 \in DOMAIN o /\ o[k + 1] = k + 1
    OBVIOUS
  <2>2. map[o[k + 1]].next = (k + 1) + 1 /\ (k + 1) + 1 # NULL
    BY <2>1 DEF NULL
  <2>. QED
    BY <2>1, <2>2 DEF WalkOf
<1>3. \A k \in Nat : k \in K
  <2>. HIDE DEF K
  <2>. QED BY <1>1, <1>2, SetInduction
<1>4. ASSUME NEW k \in 1 .. n PROVE k \in DOMAIN o /\ o[k] = k
  <2>1. k - 1 \in Nat /\ (k - 1) + 1 = k /\ k <= n
    OBVIOUS
  <2>2. k - 1 \in K
    <3>. HIDE DEF K
    <3>. QED BY <1>3, <2>1
  <2>. QED BY <2>1, <2>2
<1>. QED
  BY <1>4 DEF WalkOf

----------------------------------------------------------------------------
(* What FindSpace and the compressions choose.                             *)

FitAt(map, size, i) == map[i].dt = 0 /\ Room(map[i]) >= size

LEMMA BestFitFinds ==
  ASSUME NEW n \in Nat \ {0}, NEW map \in MapOf(n), NEW size \in Nat, NEW o, o = Order(map)
  PROVE  /\ BestFit(map, size) = NULL => \A k \in DOMAIN o : ~FitAt(map, size, o[k])
         /\ BestFit(map, size) # NULL =>
              \E k \in DOMAIN o : BestFit(map, size) = o[k] /\ FitAt(map, size, o[k])
<1>. DEFINE fits == {k \in DOMAIN o : map[o[k]].dt = 0 /\ Room(map[o[k]]) >= size}
            best == {k \in fits : \A j \in fits : Room(map[o[k]]) <= Room(map[o[j]])}
<1>1. WalkOf(map, o, n)
  BY OrderIsWalk
<1>2. fits \subseteq DOMAIN o /\ DOMAIN o \subseteq Nat /\ \A k \in DOMAIN o : o[k] \in 1 .. n
  BY <1>1 DEF WalkOf
<1>3. \A i \in 1 .. n : Room(map[i]) \in Int
  BY DEF MapOf, Blocks, Room
<1>4. fits # {} => best # {}
  <2>. SUFFICES ASSUME fits # {} PROVE best # {}
    OBVIOUS
  <2>. DEFINE R == {Room(map[o[k]]) : k \in fits}
  <2>1. R \subseteq Nat /\ R # {}
    BY <1>2, <1>3
  <2>2. PICK x \in R : \A y \in R : x <= y
    <3>. HIDE DEF R
    <3>. QED BY <2>1, LeastNat
  <2>3. PICK k \in fits : x = Room(map[o[k]])
    OBVIOUS
  <2>. QED BY <2>2, <2>3
<1>5. BestFit(map, size) = IF best = {} THEN NULL ELSE o[Min(best)]
  BY DEF BestFit
<1>6. best # {} => Min(best) \in best
  <2>1. best \subseteq Nat
    BY <1>2
  <2>. HIDE DEF best
  <2>. QED BY <2>1, MinFacts
<1>7. CASE best = {}
  BY <1>4, <1>5, <1>7 DEF FitAt
<1>8. CASE best # {}
  <2>1. Min(best) \in fits
    BY <1>6, <1>8
  <2>2. o[Min(best)] # NULL
    BY <1>2, <2>1 DEF NULL
  <2>. HIDE DEF best
  <2>. QED BY <1>5, <1>8, <2>1, <2>2 DEF FitAt
<1>. QED
  BY <1>7, <1>8

Between(map, o, size, k) ==
  /\ k \in DOMAIN o /\ k - 1 \in DOMAIN o /\ k + 1 \in DOMAIN o
  /\ map[o[k - 1]].dt = 0 /\ map[o[k]].dt = 1 /\ map[o[k + 1]].dt = 0
  /\ Room(map[o[k - 1]]) + Room(map[o[k + 1]]) >= size

LEMMA DataCompress_1Finds ==
  ASSUME NEW n \in Nat \ {0}, NEW map \in MapOf(n), NEW size, NEW o, o = Order(map),
         DataCompress_1(map, size) # NULL
  PROVE  \E k \in DOMAIN o : DataCompress_1(map, size) = o[k] /\ Between(map, o, size, k)
<1>. DEFINE at == {k \in DOMAIN o :
               /\ {k - 1, k + 1} \subseteq DOMAIN o
               /\ map[o[k - 1]].dt = 0 /\ map[o[k]].dt = 1 /\ map[o[k + 1]].dt = 0
               /\ Room(map[o[k - 1]]) + Room(map[o[k + 1]]) >= size}
<1>1. WalkOf(map, o, n)
  BY OrderIsWalk
<1>2. at \subseteq Nat
  BY <1>1 DEF WalkOf
<1>3. DataCompress_1(map, size) = IF at = {} THEN NULL ELSE o[Min(at)]
  BY DEF DataCompress_1
<1>4. at # {} /\ DataCompress_1(map, size) = o[Min(at)]
  <2>. HIDE DEF at
  <2>. QED BY <1>3
<1>5. Min(at) \in at
  <2>. HIDE DEF at
  <2>. QED BY Zenon, <1>2, <1>4, MinFacts
<1>. QED
  BY Zenon, <1>4, <1>5 DEF Between

Target1(map, o, obj, k) ==
  /\ k \in DOMAIN o /\ FitAt(map, Room(map[obj]), o[k])
  /\ k = 1 \/ o[k] \notin {map[obj].prev, map[obj].next}
       \/ (k > 2 /\ o[k - 1] \in {map[obj].prev, map[obj].next})

LEMMA TargetFinds ==
  ASSUME NEW n \in Nat \ {0}, NEW map \in MapOf(n), NEW obj, NEW o, o = Order(map),
         Target(map, obj) # NULL
  PROVE  \E k \in DOMAIN o : Target(map, obj) = o[k] /\ Target1(map, o, obj, k)
<1>. DEFINE beside == {map[obj].prev, map[obj].next}
            fits == {k \in DOMAIN o :
                 /\ map[o[k]].dt = 0 /\ Room(map[o[k]]) >= Room(map[obj])
                 /\ k = 1 \/ o[k] \notin beside \/ (k > 2 /\ o[k - 1] \in beside)}
<1>1. WalkOf(map, o, n)
  BY OrderIsWalk
<1>2. fits \subseteq Nat
  BY <1>1 DEF WalkOf
<1>3. Target(map, obj) = IF fits = {} THEN NULL ELSE o[Min(fits)]
  BY DEF Target
<1>4. fits # {} /\ Target(map, obj) = o[Min(fits)]
  <2>. HIDE DEF fits
  <2>. QED BY <1>3
<1>5. Min(fits) \in fits
  <2>. HIDE DEF fits
  <2>. QED BY Zenon, <1>2, <1>4, MinFacts
<1>. QED
  BY Zenon, <1>4, <1>5 DEF Target1, FitAt

LEMMA DataCompress_2Finds ==
  ASSUME NEW n \in Nat \ {0}, NEW map \in MapOf(n), NEW size, NEW o, o = Order(map),
         DataCompress_2(map, size) # NULL
  PROVE  \E k \in DOMAIN o, d \in -1 .. 1 :
           /\ DataCompress_2(map, size) = o[k + d] /\ Tries(map, size, k, d)
           /\ Target(map, o[k + d]) # NULL
<1>. DEFINE can == {t \in (DOMAIN o) \X (-1 .. 1) :
                /\ Tries(map, size, t[1], t[2])
                /\ Target(map, o[t[1] + t[2]]) # NULL}
            Le(t, u) == t[1] < u[1] \/ (t[1] = u[1] /\ t[2] <= u[2])
            first == CHOOSE t \in can : \A u \in can : Le(t, u)
<1>1. WalkOf(map, o, n)
  BY OrderIsWalk
<1>2. DOMAIN o \subseteq Nat
  BY <1>1 DEF WalkOf
<1>3. DataCompress_2(map, size) = IF can = {} THEN NULL ELSE o[first[1] + first[2]]
  BY DEF DataCompress_2
<1>4. can # {} /\ DataCompress_2(map, size) = o[first[1] + first[2]]
  <2>. HIDE DEF can, first
  <2>. QED BY <1>3
<1>5. \A t \in can : t[1] \in Nat /\ t[2] \in -1 .. 1
  BY <1>2
<1>6. \E t \in can : \A u \in can : Le(t, u)
  <2>. HIDE DEF can
  <2>. DEFINE K == {t[1] : t \in can}
  <2>1. K \subseteq Nat /\ K # {}
    BY <1>4, <1>5
  <2>2. PICK k \in K : \A j \in K : k <= j
    <3>. HIDE DEF K
    <3>. QED BY <2>1, LeastNat
  <2>. DEFINE D == {t[2] + 1 : t \in {u \in can : u[1] = k}}
  <2>3. D \subseteq Nat /\ D # {}
    BY <1>5
  <2>4. PICK d \in D : \A e \in D : d <= e
    <3>. HIDE DEF D
    <3>. QED BY <2>3, LeastNat
  <2>5. PICK t \in can : t[1] = k /\ t[2] + 1 = d
    OBVIOUS
  <2>6. ASSUME NEW u \in can PROVE Le(t, u)
    <3>1. k <= u[1] /\ k \in Nat /\ u[1] \in Nat /\ t[2] \in Int /\ u[2] \in Int
      BY <1>5, <2>1, <2>2
    <3>2. CASE k < u[1]
      BY <2>5, <3>2
    <3>3. CASE k = u[1]
      <4>1. u[2] + 1 \in D
        BY <3>3
      <4>2. t[2] + 1 <= u[2] + 1
        BY <2>4, <2>5, <4>1
      <4>. QED BY <2>5, <3>1, <3>3, <4>2
    <3>. QED BY <3>1, <3>2, <3>3
  <2>. QED BY <2>6
<1>7. first \in can
  <2>. HIDE DEF can, Le
  <2>. QED BY <1>6
<1>. HIDE DEF first
<1>8. /\ first[1] \in DOMAIN o /\ first[2] \in -1 .. 1
      /\ Tries(map, size, first[1], first[2])
      /\ Target(map, o[first[1] + first[2]]) # NULL
  BY <1>7
<1>. QED
  BY ONLY <1>4, <1>8

LEMMA DataCompress_3Finds ==
  ASSUME NEW n \in Nat \ {0}, NEW map \in MapOf(n), NEW o, o = Order(map)
  PROVE  /\ DataCompress_3(map) = NULL =>
              \A k \in DOMAIN o : map[o[k]].dt # 0 \/ map[o[k]].next = NULL
         /\ DataCompress_3(map) # NULL =>
              \E k \in DOMAIN o :
                /\ DataCompress_3(map) = o[k]
                /\ map[o[k]].dt = 0 /\ map[o[k]].next # NULL
                /\ \A j \in DOMAIN o : j < k => map[o[j]].dt # 0 \/ map[o[j]].next = NULL
<1>. DEFINE gaps == {k \in DOMAIN o : map[o[k]].dt = 0 /\ map[o[k]].next # NULL}
<1>1. WalkOf(map, o, n)
  BY OrderIsWalk
<1>2. gaps \subseteq Nat /\ DOMAIN o \subseteq Nat /\ \A k \in DOMAIN o : o[k] \in 1 .. n
  BY <1>1 DEF WalkOf
<1>3. DataCompress_3(map) = IF gaps = {} THEN NULL ELSE o[Min(gaps)]
  BY DEF DataCompress_3
<1>4. gaps # {} => Min(gaps) \in gaps /\ \A y \in gaps : Min(gaps) <= y
  <2>. HIDE DEF gaps
  <2>. QED BY <1>2, MinFacts
<1>5. CASE gaps = {}
  BY <1>3, <1>5
<1>6. CASE gaps # {}
  <2>1. PICK k \in DOMAIN o : k = Min(gaps)
    BY <1>4, <1>6
  <2>2. k \in gaps /\ \A y \in gaps : k <= y
    <3>. HIDE DEF gaps
    <3>. QED BY <1>4, <1>6, <2>1
  <2>3. DataCompress_3(map) = o[k]
    <3>. HIDE DEF gaps
    <3>. QED BY <1>3, <1>6, <2>1
  <2>4. o[k] # NULL
    BY <1>2 DEF NULL
  <2>5. \A j \in DOMAIN o : j < k => map[o[j]].dt # 0 \/ map[o[j]].next = NULL
    BY <1>2, <2>2
  <2>. QED BY <2>2, <2>3, <2>4, <2>5
<1>. QED
  BY <1>5, <1>6

----------------------------------------------------------------------------
(* The fields of the blocks after the surgery of a move.                   *)

LEMMA BlockType ==
  ASSUME NEW n, NEW map \in MapOf(n), NEW i \in 1 .. n
  PROVE  /\ map[i].dt \in {0, 1} /\ map[i].id \in Ids \cup {NoId, 0}
         /\ map[i].soff \in Int /\ map[i].eoff \in Int
         /\ map[i].prev \in 0 .. n /\ map[i].next \in 0 .. n
<1>1. map[i] \in Blocks(n)
  BY DEF MapOf
<1>. QED
  BY ONLY <1>1 DEF Blocks

DtSet(m, map, n, i, v) ==
  \A j \in 1 .. n :
    /\ m[j].dt = IF j = i THEN v ELSE map[j].dt
    /\ m[j].id = map[j].id
    /\ m[j].soff = map[j].soff
    /\ m[j].eoff = map[j].eoff
    /\ m[j].prev = map[j].prev
    /\ m[j].next = map[j].next

LEMMA SetDtIs ==
  ASSUME NEW n, NEW map \in MapOf(n), NEW i, NEW v \in {0, 1},
         NEW m, m = [map EXCEPT ![i].dt = v]
  PROVE  m \in MapOf(n) /\ DtSet(m, map, n, i, v)
<1>1. ASSUME NEW b \in Blocks(n), NEW c, c = [b EXCEPT !.dt = v]
      PROVE  /\ c \in Blocks(n)
             /\ c.dt = v /\ c.id = b.id /\ c.soff = b.soff /\ c.eoff = b.eoff /\ c.prev = b.prev /\ c.next = b.next
  BY <1>1 DEF Blocks
<1>2. ASSUME NEW j \in 1 .. n
      PROVE  m[j] = IF j = i THEN [map[j] EXCEPT !.dt = v] ELSE map[j]
  BY DEF MapOf
<1>3. \A j \in 1 .. n : map[j] \in Blocks(n)
  BY DEF MapOf
<1>4. ASSUME NEW j \in 1 .. n
      PROVE  /\ m[j] \in Blocks(n)
             /\ j # i => m[j] = map[j]
             /\ j = i => m[j].dt = v /\ m[j].id = map[j].id /\ m[j].soff = map[j].soff /\ m[j].eoff = map[j].eoff /\ m[j].prev = map[j].prev /\ m[j].next = map[j].next
  <2>. PICK b \in Blocks(n) : b = map[j]
    BY <1>3
  <2>. PICK c : c = [b EXCEPT !.dt = v]
    OBVIOUS
  <2>1. c \in Blocks(n) /\ c.dt = v /\ c.id = b.id /\ c.soff = b.soff /\ c.eoff = b.eoff /\ c.prev = b.prev /\ c.next = b.next
    BY <1>1
  <2>. QED BY <1>2, <2>1
<1>5. m = [j \in 1 .. n |-> m[j]]
  BY DEF MapOf
<1>6. m \in MapOf(n)
  BY ONLY <1>4, <1>5 DEF MapOf
<1>. QED
  BY ONLY <1>4, <1>6 DEF DtSet

IdSet(m, map, n, i, v) ==
  \A j \in 1 .. n :
    /\ m[j].dt = map[j].dt
    /\ m[j].id = IF j = i THEN v ELSE map[j].id
    /\ m[j].soff = map[j].soff
    /\ m[j].eoff = map[j].eoff
    /\ m[j].prev = map[j].prev
    /\ m[j].next = map[j].next

LEMMA SetIdIs ==
  ASSUME NEW n, NEW map \in MapOf(n), NEW i, NEW v \in Ids \cup {NoId, 0},
         NEW m, m = [map EXCEPT ![i].id = v]
  PROVE  m \in MapOf(n) /\ IdSet(m, map, n, i, v)
<1>1. ASSUME NEW b \in Blocks(n), NEW c, c = [b EXCEPT !.id = v]
      PROVE  /\ c \in Blocks(n)
             /\ c.dt = b.dt /\ c.id = v /\ c.soff = b.soff /\ c.eoff = b.eoff /\ c.prev = b.prev /\ c.next = b.next
  BY <1>1 DEF Blocks
<1>2. ASSUME NEW j \in 1 .. n
      PROVE  m[j] = IF j = i THEN [map[j] EXCEPT !.id = v] ELSE map[j]
  BY DEF MapOf
<1>3. \A j \in 1 .. n : map[j] \in Blocks(n)
  BY DEF MapOf
<1>4. ASSUME NEW j \in 1 .. n
      PROVE  /\ m[j] \in Blocks(n)
             /\ j # i => m[j] = map[j]
             /\ j = i => m[j].dt = map[j].dt /\ m[j].id = v /\ m[j].soff = map[j].soff /\ m[j].eoff = map[j].eoff /\ m[j].prev = map[j].prev /\ m[j].next = map[j].next
  <2>. PICK b \in Blocks(n) : b = map[j]
    BY <1>3
  <2>. PICK c : c = [b EXCEPT !.id = v]
    OBVIOUS
  <2>1. c \in Blocks(n) /\ c.dt = b.dt /\ c.id = v /\ c.soff = b.soff /\ c.eoff = b.eoff /\ c.prev = b.prev /\ c.next = b.next
    BY <1>1
  <2>. QED BY <1>2, <2>1
<1>5. m = [j \in 1 .. n |-> m[j]]
  BY DEF MapOf
<1>6. m \in MapOf(n)
  BY ONLY <1>4, <1>5 DEF MapOf
<1>. QED
  BY ONLY <1>4, <1>6 DEF IdSet

SoffSet(m, map, n, i, v) ==
  \A j \in 1 .. n :
    /\ m[j].dt = map[j].dt
    /\ m[j].id = map[j].id
    /\ m[j].soff = IF j = i THEN v ELSE map[j].soff
    /\ m[j].eoff = map[j].eoff
    /\ m[j].prev = map[j].prev
    /\ m[j].next = map[j].next

LEMMA SetSoffIs ==
  ASSUME NEW n, NEW map \in MapOf(n), NEW i, NEW v \in Int,
         NEW m, m = [map EXCEPT ![i].soff = v]
  PROVE  m \in MapOf(n) /\ SoffSet(m, map, n, i, v)
<1>1. ASSUME NEW b \in Blocks(n), NEW c, c = [b EXCEPT !.soff = v]
      PROVE  /\ c \in Blocks(n)
             /\ c.dt = b.dt /\ c.id = b.id /\ c.soff = v /\ c.eoff = b.eoff /\ c.prev = b.prev /\ c.next = b.next
  BY <1>1 DEF Blocks
<1>2. ASSUME NEW j \in 1 .. n
      PROVE  m[j] = IF j = i THEN [map[j] EXCEPT !.soff = v] ELSE map[j]
  BY DEF MapOf
<1>3. \A j \in 1 .. n : map[j] \in Blocks(n)
  BY DEF MapOf
<1>4. ASSUME NEW j \in 1 .. n
      PROVE  /\ m[j] \in Blocks(n)
             /\ j # i => m[j] = map[j]
             /\ j = i => m[j].dt = map[j].dt /\ m[j].id = map[j].id /\ m[j].soff = v /\ m[j].eoff = map[j].eoff /\ m[j].prev = map[j].prev /\ m[j].next = map[j].next
  <2>. PICK b \in Blocks(n) : b = map[j]
    BY <1>3
  <2>. PICK c : c = [b EXCEPT !.soff = v]
    OBVIOUS
  <2>1. c \in Blocks(n) /\ c.dt = b.dt /\ c.id = b.id /\ c.soff = v /\ c.eoff = b.eoff /\ c.prev = b.prev /\ c.next = b.next
    BY <1>1
  <2>. QED BY <1>2, <2>1
<1>5. m = [j \in 1 .. n |-> m[j]]
  BY DEF MapOf
<1>6. m \in MapOf(n)
  BY ONLY <1>4, <1>5 DEF MapOf
<1>. QED
  BY ONLY <1>4, <1>6 DEF SoffSet

EoffSet(m, map, n, i, v) ==
  \A j \in 1 .. n :
    /\ m[j].dt = map[j].dt
    /\ m[j].id = map[j].id
    /\ m[j].soff = map[j].soff
    /\ m[j].eoff = IF j = i THEN v ELSE map[j].eoff
    /\ m[j].prev = map[j].prev
    /\ m[j].next = map[j].next

LEMMA SetEoffIs ==
  ASSUME NEW n, NEW map \in MapOf(n), NEW i, NEW v \in Int,
         NEW m, m = [map EXCEPT ![i].eoff = v]
  PROVE  m \in MapOf(n) /\ EoffSet(m, map, n, i, v)
<1>1. ASSUME NEW b \in Blocks(n), NEW c, c = [b EXCEPT !.eoff = v]
      PROVE  /\ c \in Blocks(n)
             /\ c.dt = b.dt /\ c.id = b.id /\ c.soff = b.soff /\ c.eoff = v /\ c.prev = b.prev /\ c.next = b.next
  BY <1>1 DEF Blocks
<1>2. ASSUME NEW j \in 1 .. n
      PROVE  m[j] = IF j = i THEN [map[j] EXCEPT !.eoff = v] ELSE map[j]
  BY DEF MapOf
<1>3. \A j \in 1 .. n : map[j] \in Blocks(n)
  BY DEF MapOf
<1>4. ASSUME NEW j \in 1 .. n
      PROVE  /\ m[j] \in Blocks(n)
             /\ j # i => m[j] = map[j]
             /\ j = i => m[j].dt = map[j].dt /\ m[j].id = map[j].id /\ m[j].soff = map[j].soff /\ m[j].eoff = v /\ m[j].prev = map[j].prev /\ m[j].next = map[j].next
  <2>. PICK b \in Blocks(n) : b = map[j]
    BY <1>3
  <2>. PICK c : c = [b EXCEPT !.eoff = v]
    OBVIOUS
  <2>1. c \in Blocks(n) /\ c.dt = b.dt /\ c.id = b.id /\ c.soff = b.soff /\ c.eoff = v /\ c.prev = b.prev /\ c.next = b.next
    BY <1>1
  <2>. QED BY <1>2, <2>1
<1>5. m = [j \in 1 .. n |-> m[j]]
  BY DEF MapOf
<1>6. m \in MapOf(n)
  BY ONLY <1>4, <1>5 DEF MapOf
<1>. QED
  BY ONLY <1>4, <1>6 DEF EoffSet

PrevSet(m, map, n, i, v) ==
  \A j \in 1 .. n :
    /\ m[j].dt = map[j].dt
    /\ m[j].id = map[j].id
    /\ m[j].soff = map[j].soff
    /\ m[j].eoff = map[j].eoff
    /\ m[j].prev = IF j = i THEN v ELSE map[j].prev
    /\ m[j].next = map[j].next

LEMMA SetPrevIs ==
  ASSUME NEW n, NEW map \in MapOf(n), NEW i, NEW v \in 0 .. n,
         NEW m, m = [map EXCEPT ![i].prev = v]
  PROVE  m \in MapOf(n) /\ PrevSet(m, map, n, i, v)
<1>1. ASSUME NEW b \in Blocks(n), NEW c, c = [b EXCEPT !.prev = v]
      PROVE  /\ c \in Blocks(n)
             /\ c.dt = b.dt /\ c.id = b.id /\ c.soff = b.soff /\ c.eoff = b.eoff /\ c.prev = v /\ c.next = b.next
  BY <1>1 DEF Blocks
<1>2. ASSUME NEW j \in 1 .. n
      PROVE  m[j] = IF j = i THEN [map[j] EXCEPT !.prev = v] ELSE map[j]
  BY DEF MapOf
<1>3. \A j \in 1 .. n : map[j] \in Blocks(n)
  BY DEF MapOf
<1>4. ASSUME NEW j \in 1 .. n
      PROVE  /\ m[j] \in Blocks(n)
             /\ j # i => m[j] = map[j]
             /\ j = i => m[j].dt = map[j].dt /\ m[j].id = map[j].id /\ m[j].soff = map[j].soff /\ m[j].eoff = map[j].eoff /\ m[j].prev = v /\ m[j].next = map[j].next
  <2>. PICK b \in Blocks(n) : b = map[j]
    BY <1>3
  <2>. PICK c : c = [b EXCEPT !.prev = v]
    OBVIOUS
  <2>1. c \in Blocks(n) /\ c.dt = b.dt /\ c.id = b.id /\ c.soff = b.soff /\ c.eoff = b.eoff /\ c.prev = v /\ c.next = b.next
    BY <1>1
  <2>. QED BY <1>2, <2>1
<1>5. m = [j \in 1 .. n |-> m[j]]
  BY DEF MapOf
<1>6. m \in MapOf(n)
  BY ONLY <1>4, <1>5 DEF MapOf
<1>. QED
  BY ONLY <1>4, <1>6 DEF PrevSet

NextSet(m, map, n, i, v) ==
  \A j \in 1 .. n :
    /\ m[j].dt = map[j].dt
    /\ m[j].id = map[j].id
    /\ m[j].soff = map[j].soff
    /\ m[j].eoff = map[j].eoff
    /\ m[j].prev = map[j].prev
    /\ m[j].next = IF j = i THEN v ELSE map[j].next

LEMMA SetNextIs ==
  ASSUME NEW n, NEW map \in MapOf(n), NEW i, NEW v \in 0 .. n,
         NEW m, m = [map EXCEPT ![i].next = v]
  PROVE  m \in MapOf(n) /\ NextSet(m, map, n, i, v)
<1>1. ASSUME NEW b \in Blocks(n), NEW c, c = [b EXCEPT !.next = v]
      PROVE  /\ c \in Blocks(n)
             /\ c.dt = b.dt /\ c.id = b.id /\ c.soff = b.soff /\ c.eoff = b.eoff /\ c.prev = b.prev /\ c.next = v
  BY <1>1 DEF Blocks
<1>2. ASSUME NEW j \in 1 .. n
      PROVE  m[j] = IF j = i THEN [map[j] EXCEPT !.next = v] ELSE map[j]
  BY DEF MapOf
<1>3. \A j \in 1 .. n : map[j] \in Blocks(n)
  BY DEF MapOf
<1>4. ASSUME NEW j \in 1 .. n
      PROVE  /\ m[j] \in Blocks(n)
             /\ j # i => m[j] = map[j]
             /\ j = i => m[j].dt = map[j].dt /\ m[j].id = map[j].id /\ m[j].soff = map[j].soff /\ m[j].eoff = map[j].eoff /\ m[j].prev = map[j].prev /\ m[j].next = v
  <2>. PICK b \in Blocks(n) : b = map[j]
    BY <1>3
  <2>. PICK c : c = [b EXCEPT !.next = v]
    OBVIOUS
  <2>1. c \in Blocks(n) /\ c.dt = b.dt /\ c.id = b.id /\ c.soff = b.soff /\ c.eoff = b.eoff /\ c.prev = b.prev /\ c.next = v
    BY <1>1
  <2>. QED BY <1>2, <2>1
<1>5. m = [j \in 1 .. n |-> m[j]]
  BY DEF MapOf
<1>6. m \in MapOf(n)
  BY ONLY <1>4, <1>5 DEF MapOf
<1>. QED
  BY ONLY <1>4, <1>6 DEF NextSet

MovedFIs(mm, map, n, p, x, end) ==
  \A i \in 1 .. n :
    /\ mm[i].dt = IF i = p THEN 1 ELSE map[i].dt
    /\ mm[i].id = map[i].id
    /\ mm[i].soff = IF i = x THEN end + 1 ELSE map[i].soff
    /\ mm[i].eoff = IF i = p THEN end ELSE map[i].eoff
    /\ mm[i].prev = IF i = x THEN p ELSE map[i].prev
    /\ mm[i].next = IF i = p THEN x ELSE map[i].next

LEMMA MovedFFields ==
  ASSUME NEW n \in Nat \ {0}, NEW map \in MapOf(n), NEW obj \in 1 .. n, NEW m \in Int,
         NEW p, p = map[obj].prev, p \in 1 .. n, NEW x, x = map[obj].next,
         NEW end, end = map[p].soff + m - 1,
         NEW mm, mm = MovedF(map, obj, m)
  PROVE  mm \in MapOf(n) /\ MovedFIs(mm, map, n, p, x, end)
<1>1. end \in Int /\ end + 1 \in Int /\ x \in 0 .. n /\ p \in 0 .. n
  <2>1. map[p].soff \in Int /\ map[obj].next \in 0 .. n
    BY BlockType
  <2>. QED BY <2>1
<1>2. 1 \in {0, 1}
  OBVIOUS
<1>3. PICK a1 : a1 = [map EXCEPT ![p].dt = 1]
  OBVIOUS
<1>4. PICK a2 : a2 = [a1 EXCEPT ![p].eoff = end]
  OBVIOUS
<1>5. PICK a3 : a3 = [a2 EXCEPT ![p].next = x]
  OBVIOUS
<1>6. PICK a4 : a4 = [a3 EXCEPT ![x].soff = end + 1]
  BY Zenon
<1>7. mm = [a4 EXCEPT ![x].prev = p]
  BY Zenon, <1>3, <1>4, <1>5, <1>6 DEF MovedF
<1>8. a1 \in MapOf(n) /\ DtSet(a1, map, n, p, 1)
  BY ONLY <1>2, <1>3, map \in MapOf(n), SetDtIs
<1>9. a2 \in MapOf(n) /\ EoffSet(a2, a1, n, p, end)
  BY ONLY <1>1, <1>4, <1>8, SetEoffIs
<1>10. a3 \in MapOf(n) /\ NextSet(a3, a2, n, p, x)
  BY ONLY <1>1, <1>5, <1>9, SetNextIs
<1>11. a4 \in MapOf(n) /\ SoffSet(a4, a3, n, x, end + 1)
  BY ONLY <1>1, <1>6, <1>10, SetSoffIs
<1>12. mm \in MapOf(n) /\ PrevSet(mm, a4, n, x, p)
  BY ONLY <1>1, <1>7, <1>11, SetPrevIs
<1>. SUFFICES ASSUME NEW i \in 1 .. n
              PROVE  /\ mm[i].dt = IF i = p THEN 1 ELSE map[i].dt
                     /\ mm[i].id = map[i].id
                     /\ mm[i].soff = IF i = x THEN end + 1 ELSE map[i].soff
                     /\ mm[i].eoff = IF i = p THEN end ELSE map[i].eoff
                     /\ mm[i].prev = IF i = x THEN p ELSE map[i].prev
                     /\ mm[i].next = IF i = p THEN x ELSE map[i].next
  BY <1>12 DEF MovedFIs
<1>. QED
  BY ONLY <1>8, <1>12, <1>9, <1>10, <1>11, i \in 1 .. n DEF DtSet, SoffSet, EoffSet, PrevSet, NextSet

(* The messages of a state: none is empty.                                 *)
Messages(ms) ==
  /\ DOMAIN ms \subseteq Ids
  /\ \A j \in DOMAIN ms : ms[j].whence \in Int /\ ms[j].mbytes \in Nat /\ ms[j].mbytes > 0

LEMMA QBytesType == QBytes \in Nat /\ QBytes > 0
BY SpaceAssumption

Ascends(map, f, n) ==
  \A i, j \in f .. n : i < j => map[i].eoff < map[j].soff

LEMMA TilesAscend ==
  ASSUME NEW n \in Nat, NEW f \in 1 .. n, NEW map \in MapOf(n), Tiles(map, f, n)
  PROVE  Ascends(map, f, n)
<1>. SUFFICES ASSUME NEW i \in f .. n
              PROVE  \A j \in f .. n : i < j => map[i].eoff < map[j].soff
  BY DEF Ascends
<1>0. \A j \in f .. n : /\ map[j].soff \in Int /\ map[j].eoff \in Int
                        /\ map[j].soff <= map[j].eoff
                        /\ j < n => map[j + 1].soff = map[j].eoff + 1
  <2>1. \A j \in f .. n : j \in 1 .. n
    OBVIOUS
  <2>. QED BY <2>1, BlockType DEF Tiles
<1>. DEFINE K == {d \in Nat : i + d + 1 <= n => map[i].eoff < map[i + d + 1].soff}
<1>1. 0 \in K
  <2>. SUFFICES ASSUME i + 0 + 1 <= n PROVE map[i].eoff < map[i + 0 + 1].soff
    OBVIOUS
  <2>1. i < n /\ i + 0 + 1 = i + 1 /\ i + 1 \in f .. n
    OBVIOUS
  <2>. QED BY <1>0, <2>1
<1>2. \A d \in Nat : d \in K => d + 1 \in K
  <2>. SUFFICES ASSUME NEW d \in Nat, d \in K, i + (d + 1) + 1 <= n
                PROVE  map[i].eoff < map[i + (d + 1) + 1].soff
    OBVIOUS
  <2>. PICK l \in Int : l = i + d + 1
    OBVIOUS
  <2>1. i + (d + 1) + 1 = l + 1 /\ l \in f .. n /\ l + 1 \in f .. n /\ l < n /\ l <= n
    OBVIOUS
  <2>2. map[i].eoff < map[l].soff
    BY <2>1
  <2>3. map[l].soff <= map[l].eoff /\ map[l + 1].soff = map[l].eoff + 1
    BY <1>0, <2>1
  <2>4. /\ map[l].soff \in Int /\ map[l].eoff \in Int /\ map[i].eoff \in Int
        /\ map[l + 1].soff \in Int
    BY <1>0, <2>1
  <2>5. map[i].eoff < map[l + 1].soff
    BY ONLY <2>2, <2>3, <2>4
  <2>. QED BY <2>1, <2>5
<1>. HIDE DEF K
<1>3. \A d \in Nat : d \in K
  BY <1>1, <1>2, SetInduction
<1>. SUFFICES ASSUME NEW j \in f .. n, i < j PROVE map[i].eoff < map[j].soff
  OBVIOUS
<1>4. j - i - 1 \in Nat /\ i + (j - i - 1) + 1 = j /\ j <= n
  OBVIOUS
<1>5. j - i - 1 \in K
  BY <1>3, <1>4
<1>. QED
  BY <1>4, <1>5 DEF K

(* Where the blocks of a tiling lie.                                       *)
Lies(map, f, n) ==
  \A i \in f .. n :
    /\ map[i].soff \in Int /\ map[i].eoff \in Int /\ map[i].soff <= map[i].eoff
    /\ map[f].soff <= map[i].soff /\ map[i].eoff <= QBytes - 1

LEMMA TilesLie ==
  ASSUME NEW n \in Nat, NEW f \in 1 .. n, NEW map \in MapOf(n), Tiles(map, f, n)
  PROVE  Lies(map, f, n)
<1>. SUFFICES ASSUME NEW i \in f .. n
              PROVE  /\ map[i].soff \in Int /\ map[i].eoff \in Int /\ map[i].soff <= map[i].eoff
                     /\ map[f].soff <= map[i].soff /\ map[i].eoff <= QBytes - 1
  BY DEF Lies
<1>1. f \in f .. n /\ n \in f .. n /\ (\A j \in f .. n : j \in 1 .. n)
  OBVIOUS
<1>2. \A j \in f .. n : map[j].soff \in Int /\ map[j].eoff \in Int /\ map[j].soff <= map[j].eoff
  BY <1>1, BlockType DEF Tiles
<1>3. Ascends(map, f, n)
  BY TilesAscend
<1>4. i = f \/ map[f].eoff < map[i].soff
  BY <1>1, <1>3 DEF Ascends
<1>5. i = n \/ map[i].eoff < map[n].soff
  BY <1>1, <1>3 DEF Ascends
<1>6. map[n].eoff = QBytes - 1
  BY DEF Tiles
<1>7. map[f].soff <= map[i].soff
  BY <1>1, <1>2, <1>4
<1>8. map[i].eoff <= QBytes - 1
  BY <1>1, <1>2, <1>5, <1>6, QBytesType
<1>. QED
  BY <1>2, <1>7, <1>8

(* A data block lies where its message does.                               *)
LEMMA NamedSpan ==
  ASSUME NEW n \in Nat, NEW f \in 1 .. n, NEW map \in MapOf(n), NEW ms, Messages(ms),
         Named(ms, map, f, n), NEW i \in f .. n, map[i].dt = 1
  PROVE  /\ map[i].id \in DOMAIN ms /\ Span(map[i]) = Place(ms[map[i].id])
         /\ map[i].soff = ms[map[i].id].whence
         /\ Room(map[i]) = ms[map[i].id].mbytes
<1>1. /\ map[i].id \in DOMAIN ms /\ map[i].soff = ms[map[i].id].whence
      /\ map[i].eoff = map[i].soff + ms[map[i].id].mbytes - 1
  BY DEF Named
<1>2. ms[map[i].id].mbytes \in Nat /\ ms[map[i].id].whence \in Int
  BY <1>1 DEF Messages
<1>. QED
  BY <1>1, <1>2 DEF Span, Place, Room

(* A fresh map: no two messages meet, and no message meets a gap.          *)
LEMMA FreshPlaced ==
  ASSUME NEW n \in Nat \ {0}, NEW map \in MapOf(n), NEW ms, Messages(ms), Fresh(ms, map, n)
  PROVE  /\ Placed(ms)
         /\ \A i \in 1 .. n : map[i].dt = 0 => Clear(ms, Span(map[i]))
         /\ \A i \in 1 .. n : map[i].dt = 1 =>
              \A j \in DOMAIN ms \ {map[i].id} : Place(ms[j]) \cap Span(map[i]) = {}
<1>1. Tiles(map, 1, n) /\ Named(ms, map, 1, n) /\ map[1].soff = 0
  BY DEF Fresh
<1>2. Ascends(map, 1, n) /\ Lies(map, 1, n)
  BY <1>1, TilesAscend, TilesLie
<1>3. \A i \in 1 .. n : Span(map[i]) \subseteq Offsets
  <2>. SUFFICES ASSUME NEW i \in 1 .. n, NEW q \in Span(map[i]) PROVE q \in Offsets
    OBVIOUS
  <2>1. map[i].soff \in Int /\ map[i].eoff \in Int /\ 0 <= map[i].soff /\ map[i].eoff <= QBytes - 1
    BY <1>1, <1>2 DEF Lies
  <2>2. q \in Int /\ map[i].soff <= q /\ q <= map[i].eoff
    BY <2>1 DEF Span
  <2>. QED BY <2>1, <2>2, QBytesType DEF Offsets
<1>4. \A i, j \in 1 .. n : i # j => Span(map[i]) \cap Span(map[j]) = {}
  <2>1. \A i, j \in 1 .. n : i < j => Span(map[i]) \cap Span(map[j]) = {}
    <3>. SUFFICES ASSUME NEW i \in 1 .. n, NEW j \in 1 .. n, i < j, NEW q,
                         q \in Span(map[i]), q \in Span(map[j])
                  PROVE  FALSE
      OBVIOUS
    <3>1. map[i].eoff < map[j].soff
      BY <1>2 DEF Ascends
    <3>2. map[i].soff \in Int /\ map[i].eoff \in Int /\ map[j].soff \in Int /\ map[j].eoff \in Int
      BY <1>2 DEF Lies
    <3>3. q \in Int /\ q <= map[i].eoff /\ map[j].soff <= q
      BY <3>2 DEF Span
    <3>. QED BY <3>1, <3>2, <3>3
  <2>2. \A i, j \in 1 .. n : i # j => i < j \/ j < i
    OBVIOUS
  <2>. QED BY <2>1, <2>2
<1>5. ASSUME NEW id \in DOMAIN ms
      PROVE  \E i \in 1 .. n : map[i].dt = 1 /\ map[i].id = id /\ Span(map[i]) = Place(ms[id])
  <2>1. PICK i \in 1 .. n : map[i].dt = 1 /\ map[i].id = id
    BY DEF Fresh
  <2>. QED BY <1>1, <2>1, NamedSpan
<1>6. Placed(ms)
  <2>. SUFFICES ASSUME NEW a \in DOMAIN ms
                PROVE  /\ Place(ms[a]) \subseteq Offsets
                       /\ \A b \in DOMAIN ms \ {a} : Place(ms[a]) \cap Place(ms[b]) = {}
    BY DEF Placed
  <2>1. PICK i \in 1 .. n : map[i].dt = 1 /\ map[i].id = a /\ Span(map[i]) = Place(ms[a])
    BY <1>5
  <2>2. ASSUME NEW b \in DOMAIN ms \ {a} PROVE Place(ms[a]) \cap Place(ms[b]) = {}
    <3>1. PICK j \in 1 .. n : map[j].dt = 1 /\ map[j].id = b /\ Span(map[j]) = Place(ms[b])
      BY <1>5
    <3>. QED BY <1>4, <2>1, <3>1
  <2>. QED BY <1>3, <2>1, <2>2
<1>7. ASSUME NEW i \in 1 .. n, map[i].dt = 0
      PROVE  Clear(ms, Span(map[i]))
  <2>1. ASSUME NEW j \in DOMAIN ms PROVE Place(ms[j]) \cap Span(map[i]) = {}
    <3>1. PICK k \in 1 .. n : map[k].dt = 1 /\ map[k].id = j /\ Span(map[k]) = Place(ms[j])
      BY <1>5
    <3>. QED BY <1>4, <1>7, <3>1
  <2>. QED BY <1>3, <2>1 DEF Clear
<1>8. ASSUME NEW i \in 1 .. n, map[i].dt = 1, NEW j \in DOMAIN ms \ {map[i].id}
      PROVE  Place(ms[j]) \cap Span(map[i]) = {}
  <2>1. PICK k \in 1 .. n : map[k].dt = 1 /\ map[k].id = j /\ Span(map[k]) = Place(ms[j])
    BY <1>5
  <2>. QED BY <1>4, <1>8, <2>1
<1>. QED
  BY <1>6, <1>7, <1>8

(* No offset lies between the blocks.                                      *)
LEMMA FreshCovers ==
  ASSUME NEW n \in Nat \ {0}, NEW map \in MapOf(n), Tiles(map, 1, n), map[1].soff = 0
  PROVE  \A q \in Offsets : \E i \in 1 .. n : q \in Span(map[i])
<1>1. Lies(map, 1, n)
  BY TilesLie
<1>. SUFFICES ASSUME NEW q \in Offsets PROVE \E i \in 1 .. n : q \in Span(map[i])
  OBVIOUS
<1>2. q \in Int /\ 0 <= q /\ q <= QBytes - 1
  BY QBytesType DEF Offsets
<1>. DEFINE S == {i \in 1 .. n : q <= map[i].eoff}
<1>3. n \in S
  BY <1>2 DEF Tiles
<1>4. S \subseteq Nat /\ S # {}
  BY <1>3
<1>. HIDE DEF S
<1>5. PICK i \in S : \A j \in S : i <= j
  BY <1>4, LeastNat
<1>6. i \in 1 .. n /\ q <= map[i].eoff
  BY <1>5 DEF S
<1>7. map[i].soff <= q
  <2>1. CASE i = 1
    BY <1>2, <2>1
  <2>2. CASE i # 1
    <3>1. i - 1 \in 1 .. n /\ i - 1 < n /\ (i - 1) + 1 = i /\ ~(i <= i - 1)
      BY <1>6, <2>2
    <3>2. ~(q <= map[i - 1].eoff)
      BY <1>5, <3>1 DEF S
    <3>3. map[i].soff = map[i - 1].eoff + 1
      BY <3>1 DEF Tiles
    <3>4. map[i - 1].eoff \in Int
      BY <1>1, <3>1 DEF Lies
    <3>. QED BY <1>2, <3>2, <3>3, <3>4
  <2>. QED BY <2>1, <2>2
<1>8. map[i].soff \in Int /\ map[i].eoff \in Int
  BY <1>1, <1>6 DEF Lies
<1>. QED
  BY <1>2, <1>6, <1>7, <1>8 DEF Span

LEMMA FreshOrder ==
  ASSUME NEW n \in Nat \ {0}, NEW map \in MapOf(n), NEW ms, Fresh(ms, map, n),
         NEW o, o = Order(map)
  PROVE  DOMAIN o = 1 .. n /\ \A k \in 1 .. n : o[k] = k
<1>1. WalkOf(map, o, n)
  BY OrderIsWalk
<1>2. \A i \in 1 .. n : map[i].next = IF i = n THEN NULL ELSE i + 1
  BY DEF Fresh, Linked
<1>. QED
  BY <1>1, <1>2, LinkedWalk

Bytes(ms) == UNION {{id} \X (1 .. ms[id].mbytes) : id \in DOMAIN ms}

LEMMA BytesFinite ==
  ASSUME NEW ms, Messages(ms)
  PROVE  IsFiniteSet(Bytes(ms)) /\ Cardinality(Bytes(ms)) \in Nat
<1>. DEFINE D == DOMAIN ms
            S == {{id} \X (1 .. ms[id].mbytes) : id \in D}
            f == [id \in D |-> {id} \X (1 .. ms[id].mbytes)]
<1>1. IsFiniteSet(D)
  <2>1. D \in SUBSET Ids /\ IsFiniteSet(Ids)
    BY SpaceAssumption DEF Messages
  <2>. QED BY <2>1, FS_Subset
<1>2. f \in Surjection(D, S)
  BY DEF Surjection
<1>3. IsFiniteSet(S)
  <2>. HIDE DEF S, f
  <2>. QED BY <1>1, <1>2, FS_Surjection
<1>4. ASSUME NEW T \in S PROVE IsFiniteSet(T)
  <2>1. PICK id \in D : T = {id} \X (1 .. ms[id].mbytes)
    OBVIOUS
  <2>2. IsFiniteSet(1 .. ms[id].mbytes)
    <3>1. ms[id].mbytes \in Int
      BY DEF Messages
    <3>. QED BY <3>1, FS_Interval
  <2>3. IsFiniteSet({id})
    BY FS_Singleton
  <2>. QED BY <2>1, <2>2, <2>3, FS_Product
<1>5. IsFiniteSet(UNION S)
  <2>. HIDE DEF S
  <2>. QED BY <1>3, <1>4, FS_UNION
<1>6. IsFiniteSet(Bytes(ms))
  BY <1>5 DEF Bytes
<1>. QED
  BY <1>6, FS_CardinalityType

LEMMA CoveredCount ==
  ASSUME NEW ms, Messages(ms), NEW S, S \subseteq Int, Covered(ms, S)
  PROVE  Cardinality(S) <= Cardinality(Bytes(ms))
<1>. DEFINE At(q) == CHOOSE id \in DOMAIN ms : q \in Place(ms[id])
            f == [q \in S |-> <<At(q), q - ms[At(q)].whence + 1>>]
<1>1. ASSUME NEW q \in S
      PROVE  /\ At(q) \in DOMAIN ms /\ ms[At(q)].whence \in Int
             /\ q \in Int /\ q - ms[At(q)].whence + 1 \in 1 .. ms[At(q)].mbytes
  <2>1. At(q) \in DOMAIN ms /\ q \in Place(ms[At(q)])
    BY DEF Covered
  <2>. HIDE DEF At
  <2>2. ms[At(q)].whence \in Int /\ ms[At(q)].mbytes \in Nat /\ q \in Int
    BY <2>1 DEF Messages
  <2>. QED BY <2>1, <2>2 DEF Place
<1>. HIDE DEF At
<1>2. f \in [S -> Bytes(ms)]
  BY <1>1 DEF Bytes
<1>3. \A q, p \in S : f[q] = f[p] => q = p
  <2>. SUFFICES ASSUME NEW q \in S, NEW p \in S, f[q] = f[p] PROVE q = p
    OBVIOUS
  <2>1. At(q) = At(p) /\ q - ms[At(q)].whence + 1 = p - ms[At(p)].whence + 1
    OBVIOUS
  <2>. QED BY <1>1, <2>1
<1>4. f \in Injection(S, Bytes(ms))
  BY <1>2, <1>3 DEF Injection, IsInjective
<1>. QED
  BY <1>4, BytesFinite, FS_Injection

(* All but a .. b is taken: that much is free, and no more.                *)
LEMMA OneGap ==
  ASSUME NEW ms, Messages(ms), NEW a \in Int, NEW b \in Int,
         0 <= a, a <= b + 1, b < QBytes, Covered(ms, Offsets \ (a .. b))
  PROVE  QBytes <= Cardinality(Bytes(ms)) + (b - a + 1)
<1>1. QBytes - 1 \in Int /\ 0 \in Int /\ ~(0 > QBytes - 1)
  BY QBytesType
<1>2. IsFiniteSet(Offsets) /\ Cardinality(Offsets) = QBytes
  <2>1. IsFiniteSet(0 .. QBytes - 1) /\ Cardinality(0 .. QBytes - 1) = QBytes - 1 - 0 + 1
    BY <1>1, FS_Interval
  <2>2. QBytes - 1 - 0 + 1 = QBytes
    BY QBytesType
  <2>. QED BY <2>1, <2>2 DEF Offsets
<1>3. Offsets \cap (a .. b) = a .. b
  BY QBytesType DEF Offsets
<1>4. Cardinality(a .. b) = b - a + 1
  <2>1. CASE a > b
    <3>1. b - a + 1 = 0
      BY <2>1
    <3>. QED BY <2>1, <3>1, FS_Interval
  <2>2. CASE ~(a > b)
    BY <2>2, FS_Interval
  <2>. QED BY <2>1, <2>2
<1>5. Cardinality(Offsets \ (a .. b)) = QBytes - (b - a + 1)
  <2>. PICK T : T = a .. b
    OBVIOUS
  <2>1. Cardinality(Offsets \ T) = Cardinality(Offsets) - Cardinality(Offsets \cap T)
    BY ONLY <1>2, FS_Difference
  <2>2. Offsets \cap T = T /\ Cardinality(T) = b - a + 1
    BY <1>3, <1>4
  <2>3. Cardinality(Offsets \ T) = QBytes - (b - a + 1)
    BY ONLY <1>2, <2>1, <2>2
  <2>. QED BY <2>3
<1>6. Offsets \ (a .. b) \subseteq Int
  BY QBytesType DEF Offsets
<1>7. QBytes - (b - a + 1) <= Cardinality(Bytes(ms))
  BY <1>5, <1>6, CoveredCount
<1>. QED
  BY <1>7, QBytesType, BytesFinite

(* A map all of whose blocks but one hold messages.                        *)
LEMMA FreshOneGap ==
  ASSUME NEW n \in Nat \ {0}, NEW map \in MapOf(n), NEW ms, Messages(ms), Fresh(ms, map, n),
         NEW g \in 1 .. n, \A i \in 1 .. n : i # g => map[i].dt = 1
  PROVE  QBytes <= Cardinality(Bytes(ms)) + Room(map[g])
<1>1. Tiles(map, 1, n) /\ Named(ms, map, 1, n) /\ map[1].soff = 0
  BY DEF Fresh
<1>2. Lies(map, 1, n)
  BY <1>1, TilesLie
<1>3. /\ map[g].soff \in Int /\ map[g].eoff \in Int /\ map[g].soff <= map[g].eoff
      /\ 0 <= map[g].soff /\ map[g].eoff <= QBytes - 1
  BY <1>1, <1>2 DEF Lies
<1>4. Covered(ms, Offsets \ (map[g].soff .. map[g].eoff))
  <2>. SUFFICES ASSUME NEW q \in Offsets, q \notin map[g].soff .. map[g].eoff
                PROVE  \E id \in DOMAIN ms : q \in Place(ms[id])
    BY DEF Covered
  <2>1. PICK i \in 1 .. n : q \in Span(map[i])
    BY <1>1, FreshCovers
  <2>2. i # g /\ map[i].dt = 1
    BY <2>1 DEF Span
  <2>3. map[i].id \in DOMAIN ms /\ Span(map[i]) = Place(ms[map[i].id])
    BY <1>1, <2>2, NamedSpan
  <2>. QED BY <2>1, <2>3
<1>5. map[g].soff <= map[g].eoff + 1 /\ map[g].eoff < QBytes
  BY <1>3, QBytesType
<1>. QED
  BY <1>3, <1>4, <1>5, OneGap DEF Room

LEMMA SetPrevOrNot ==
  ASSUME NEW n \in Nat, NEW map \in MapOf(n), NEW i, NEW v \in 0 .. n,
         NEW m, m = SetPrev(map, i, v)
  PROVE  m \in MapOf(n) /\ PrevSet(m, map, n, i, v)
<1>1. CASE i = NULL
  <2>1. m = map
    BY <1>1 DEF SetPrev
  <2>2. \A j \in 1 .. n : j # i
    BY <1>1 DEF NULL
  <2>. QED BY <2>1, <2>2 DEF PrevSet
<1>2. CASE i # NULL
  <2>1. m = [map EXCEPT ![i].prev = v]
    BY <1>2 DEF SetPrev
  <2>. QED BY <2>1, SetPrevIs
<1>. QED
  BY <1>1, <1>2

LEMMA SetNextOrNot ==
  ASSUME NEW n \in Nat, NEW map \in MapOf(n), NEW i, NEW v \in 0 .. n,
         NEW m, m = SetNext(map, i, v)
  PROVE  m \in MapOf(n) /\ NextSet(m, map, n, i, v)
<1>1. CASE i = NULL
  <2>1. m = map
    BY <1>1 DEF SetNext
  <2>2. \A j \in 1 .. n : j # i
    BY <1>1 DEF NULL
  <2>. QED BY <2>1, <2>2 DEF NextSet
<1>2. CASE i # NULL
  <2>1. m = [map EXCEPT ![i].next = v]
    BY <1>2 DEF SetNext
  <2>. QED BY <2>1, SetNextIs
<1>. QED
  BY <1>1, <1>2

BlockSet(m, map, n, i, b) == \A j \in 1 .. n : m[j] = IF j = i THEN b ELSE map[j]

LEMMA SetBlockIs ==
  ASSUME NEW n, NEW map \in MapOf(n), NEW i, NEW b \in Blocks(n),
         NEW m, m = [map EXCEPT ![i] = b]
  PROVE  m \in MapOf(n) /\ BlockSet(m, map, n, i, b)
BY DEF MapOf, BlockSet

ExchangedIs(mm, map, n, to, obj, end, y, join) ==
  \A i \in 1 .. n :
    /\ mm[i].dt = IF i = obj THEN 0 ELSE IF i = to THEN 1 ELSE map[i].dt
    /\ mm[i].id = IF i = obj THEN 0 ELSE IF i = to THEN map[obj].id ELSE map[i].id
    /\ mm[i].soff = IF i = obj THEN end + 1 ELSE map[i].soff
    /\ mm[i].eoff = IF i = obj THEN IF join THEN map[y].eoff ELSE end + Room(map[to])
                    ELSE IF i = to THEN end ELSE map[i].eoff
    /\ mm[i].prev = IF join /\ i = map[y].next THEN obj ELSE map[i].prev
    /\ mm[i].next = IF join /\ i = obj THEN map[y].next ELSE map[i].next

LEMMA ExchangedFields ==
  ASSUME NEW n \in Nat \ {0}, NEW map \in MapOf(n), NEW to \in 1 .. n, NEW obj \in 1 .. n,
         NEW m \in Int, NEW end, end = map[to].soff + m - 1, NEW y, y = map[obj].next,
         NEW mm, mm = Exchanged(map, to, obj, m)
  PROVE  mm \in MapOf(n) /\ ExchangedIs(mm, map, n, to, obj, end, y, y # NULL /\ map[y].dt = 0)
<1>1. /\ end \in Int /\ end + 1 \in Int /\ end + Room(map[to]) \in Int
      /\ y \in 0 .. n /\ map[obj].id \in Ids \cup {NoId, 0}
  <2>1. map[to].soff \in Int /\ map[to].eoff \in Int /\ map[obj].next \in 0 .. n
        /\ map[obj].id \in Ids \cup {NoId, 0}
    BY BlockType
  <2>. QED BY <2>1 DEF Room
<1>2. 1 \in {0, 1} /\ 0 \in {0, 1} /\ 0 \in Ids \cup {NoId, 0} /\ obj \in 0 .. n
  OBVIOUS
<1>3. PICK a1 : a1 = [map EXCEPT ![to].eoff = end]
  OBVIOUS
<1>4. PICK a2 : a2 = [a1 EXCEPT ![to].dt = 1]
  OBVIOUS
<1>5. PICK a3 : a3 = [a2 EXCEPT ![to].id = map[obj].id]
  OBVIOUS
<1>6. PICK a4 : a4 = [a3 EXCEPT ![obj].soff = end + 1]
  OBVIOUS
<1>7. PICK a5 : a5 = [a4 EXCEPT ![obj].eoff = end + Room(map[to])]
  OBVIOUS
<1>8. PICK a6 : a6 = [a5 EXCEPT ![obj].dt = 0]
  OBVIOUS
<1>9. PICK m1 : m1 = [a6 EXCEPT ![obj].id = 0]
  OBVIOUS
<1>10. mm = IF y # NULL /\ map[y].dt = 0
            THEN SetPrev([m1 EXCEPT ![obj].eoff = map[y].eoff, ![obj].next = map[y].next],
                         map[y].next, obj)
            ELSE m1
  <2>1. m1 = [map EXCEPT ![to].eoff = end, ![to].dt = 1, ![to].id = map[obj].id,
                         ![obj].soff = end + 1, ![obj].eoff = end + Room(map[to]),
                         ![obj].dt = 0, ![obj].id = 0]
    BY ONLY <1>3, <1>4, <1>5, <1>6, <1>7, <1>8, <1>9
  <2>. DEFINE e == map[to].soff + m - 1
              z == map[obj].next
              k == [map EXCEPT ![to].eoff = e, ![to].dt = 1, ![to].id = map[obj].id,
                         ![obj].soff = e + 1, ![obj].eoff = e + Room(map[to]),
                         ![obj].dt = 0, ![obj].id = 0]
  <2>2. Exchanged(map, to, obj, m) =
          IF z # NULL /\ map[z].dt = 0
          THEN SetPrev([k EXCEPT ![obj].eoff = map[z].eoff, ![obj].next = map[z].next],
                       map[z].next, obj)
          ELSE k
    BY Zenon DEF Exchanged
  <2>3. e = end /\ z = y
    OBVIOUS
  <2>4. k = m1
    BY <2>1, <2>3
  <2>. HIDE DEF e, z, k
  <2>. QED BY ONLY <2>2, <2>3, <2>4, mm = Exchanged(map, to, obj, m)
<1>11. a1 \in MapOf(n) /\ EoffSet(a1, map, n, to, end)
  BY ONLY <1>1, <1>3, map \in MapOf(n), SetEoffIs
<1>12. a2 \in MapOf(n) /\ DtSet(a2, a1, n, to, 1)
  BY ONLY <1>2, <1>4, <1>11, SetDtIs
<1>13. a3 \in MapOf(n) /\ IdSet(a3, a2, n, to, map[obj].id)
  BY ONLY <1>1, <1>5, <1>12, SetIdIs
<1>14. a4 \in MapOf(n) /\ SoffSet(a4, a3, n, obj, end + 1)
  BY ONLY <1>1, <1>6, <1>13, SetSoffIs
<1>15. a5 \in MapOf(n) /\ EoffSet(a5, a4, n, obj, end + Room(map[to]))
  BY ONLY <1>1, <1>7, <1>14, SetEoffIs
<1>16. a6 \in MapOf(n) /\ DtSet(a6, a5, n, obj, 0)
  BY ONLY <1>2, <1>8, <1>15, SetDtIs
<1>17. m1 \in MapOf(n) /\ IdSet(m1, a6, n, obj, 0)
  BY ONLY <1>2, <1>9, <1>16, SetIdIs
<1>18. ASSUME NEW i \in 1 .. n
       PROVE  /\ m1[i].dt = IF i = obj THEN 0 ELSE IF i = to THEN 1 ELSE map[i].dt
              /\ m1[i].id = IF i = obj THEN 0 ELSE IF i = to THEN map[obj].id ELSE map[i].id
              /\ m1[i].soff = IF i = obj THEN end + 1 ELSE map[i].soff
              /\ m1[i].eoff = IF i = obj THEN end + Room(map[to])
                              ELSE IF i = to THEN end ELSE map[i].eoff
              /\ m1[i].prev = map[i].prev
              /\ m1[i].next = map[i].next
  BY ONLY i \in 1 .. n, <1>11, <1>12, <1>13, <1>14, <1>15, <1>16, <1>17
     DEF DtSet, IdSet, SoffSet, EoffSet
<1>19. CASE ~(y # NULL /\ map[y].dt = 0)
  BY ONLY <1>10, <1>17, <1>18, <1>19 DEF ExchangedIs
<1>20. CASE y # NULL /\ map[y].dt = 0
  <2>1. map[y].eoff \in Int /\ map[y].next \in 0 .. n
    <3>1. y \in 1 .. n
      BY <1>1, <1>20 DEF NULL
    <3>. QED BY <3>1, BlockType
  <2>2. PICK b1 : b1 = [m1 EXCEPT ![obj].eoff = map[y].eoff]
    OBVIOUS
  <2>3. PICK b2 : b2 = [b1 EXCEPT ![obj].next = map[y].next]
    OBVIOUS
  <2>4. mm = SetPrev(b2, map[y].next, obj)
    BY ONLY <1>10, <1>20, <2>2, <2>3
  <2>5. b1 \in MapOf(n) /\ EoffSet(b1, m1, n, obj, map[y].eoff)
    BY ONLY <1>17, <2>1, <2>2, SetEoffIs
  <2>6. b2 \in MapOf(n) /\ NextSet(b2, b1, n, obj, map[y].next)
    BY ONLY <2>1, <2>3, <2>5, SetNextIs
  <2>7. mm \in MapOf(n) /\ PrevSet(mm, b2, n, map[y].next, obj)
    BY ONLY <1>2, <2>4, <2>6, SetPrevOrNot, n \in Nat \ {0}
  <2>. QED
    BY ONLY <1>18, <1>20, <2>5, <2>6, <2>7 DEF ExchangedIs, EoffSet, NextSet, PrevSet
<1>. QED
  BY <1>19, <1>20

JoinPrevIs(mm, map, n, i, p, x) ==
  \A j \in 1 .. n :
    /\ mm[j].dt = map[j].dt /\ mm[j].id = map[j].id /\ mm[j].soff = map[j].soff
    /\ mm[j].eoff = IF j = p THEN map[i].eoff ELSE map[j].eoff
    /\ mm[j].prev = IF j = x THEN p ELSE map[j].prev
    /\ mm[j].next = IF j = p THEN x ELSE map[j].next

LEMMA JoinPrevFields ==
  ASSUME NEW n \in Nat \ {0}, NEW map \in MapOf(n), NEW i \in 1 .. n,
         NEW p, p = map[i].prev, NEW x, x = map[i].next,
         NEW mm, mm = JoinPrev(map, i)
  PROVE  mm \in MapOf(n) /\ JoinPrevIs(mm, map, n, i, p, x)
<1>1. map[i].eoff \in Int /\ p \in 0 .. n /\ x \in 0 .. n
  BY BlockType
<1>2. PICK b1 : b1 = [map EXCEPT ![p].eoff = map[i].eoff]
  OBVIOUS
<1>3. PICK b2 : b2 = [b1 EXCEPT ![p].next = x]
  OBVIOUS
<1>4. mm = SetPrev(b2, x, p)
  BY <1>2, <1>3 DEF JoinPrev
<1>5. b1 \in MapOf(n) /\ EoffSet(b1, map, n, p, map[i].eoff)
  BY ONLY <1>1, <1>2, map \in MapOf(n), SetEoffIs
<1>6. b2 \in MapOf(n) /\ NextSet(b2, b1, n, p, x)
  BY ONLY <1>1, <1>3, <1>5, SetNextIs
<1>7. mm \in MapOf(n) /\ PrevSet(mm, b2, n, x, p)
  BY ONLY <1>1, <1>4, <1>6, SetPrevOrNot, n \in Nat \ {0}
<1>. QED
  BY ONLY <1>5, <1>6, <1>7 DEF JoinPrevIs, EoffSet, NextSet, PrevSet

JoinNextIs(mm, map, n, i, p, x) ==
  \A j \in 1 .. n :
    /\ mm[j].dt = map[j].dt /\ mm[j].id = map[j].id /\ mm[j].eoff = map[j].eoff
    /\ mm[j].soff = IF j = x THEN map[i].soff ELSE map[j].soff
    /\ mm[j].prev = IF j = x THEN p ELSE map[j].prev
    /\ mm[j].next = IF j = p THEN x ELSE map[j].next

LEMMA JoinNextFields ==
  ASSUME NEW n \in Nat \ {0}, NEW map \in MapOf(n), NEW i \in 1 .. n,
         NEW p, p = map[i].prev, NEW x, x = map[i].next,
         NEW mm, mm = JoinNext(map, i)
  PROVE  mm \in MapOf(n) /\ JoinNextIs(mm, map, n, i, p, x)
<1>1. map[i].soff \in Int /\ p \in 0 .. n /\ x \in 0 .. n
  BY BlockType
<1>2. PICK b1 : b1 = [map EXCEPT ![x].soff = map[i].soff]
  OBVIOUS
<1>3. PICK b2 : b2 = [b1 EXCEPT ![x].prev = p]
  OBVIOUS
<1>4. mm = SetNext(b2, p, x)
  BY <1>2, <1>3 DEF JoinNext
<1>5. b1 \in MapOf(n) /\ SoffSet(b1, map, n, x, map[i].soff)
  BY ONLY <1>1, <1>2, map \in MapOf(n), SetSoffIs
<1>6. b2 \in MapOf(n) /\ PrevSet(b2, b1, n, x, p)
  BY ONLY <1>1, <1>3, <1>5, SetPrevIs
<1>7. mm \in MapOf(n) /\ NextSet(mm, b2, n, p, x)
  BY ONLY <1>1, <1>4, <1>6, SetNextOrNot, n \in Nat \ {0}
<1>. QED
  BY ONLY <1>5, <1>6, <1>7 DEF JoinNextIs, SoffSet, NextSet, PrevSet

LEMMA VacatedType ==
  ASSUME NEW n \in Nat \ {0}, NEW map \in MapOf(n), NEW i \in 1 .. n
  PROVE  Vacated(map, i) \in MapOf(n)
<1>2. PICK m1 : m1 = IF IsGap(map, map[i].prev) THEN JoinPrev(map, i) ELSE map
  OBVIOUS
<1>3. PICK t1 : t1 = IF IsGap(map, map[i].prev) THEN map[i].prev ELSE i
  OBVIOUS
<1>5. PICK m2 : m2 = IF IsGap(m1, m1[t1].next) THEN JoinNext(m1, t1) ELSE m1
  OBVIOUS
<1>6. PICK t2 : t2 = IF IsGap(m1, m1[t1].next) THEN m1[t1].next ELSE t1
  OBVIOUS
<1>7. Vacated(map, i) = [m2 EXCEPT ![t2].dt = 0]
  BY <1>2, <1>3, <1>5, <1>6 DEF Vacated
<1>8. m1 \in MapOf(n)
  BY <1>2, JoinPrevFields
<1>9. t1 \in 1 .. n
  <2>1. map[i].prev \in 0 .. n
    BY BlockType
  <2>2. CASE IsGap(map, map[i].prev)
    BY <1>3, <2>1, <2>2 DEF IsGap, NULL
  <2>3. CASE ~IsGap(map, map[i].prev)
    BY <1>3, <2>3
  <2>. QED BY <2>2, <2>3
<1>10. m2 \in MapOf(n)
  BY <1>5, <1>8, <1>9, JoinNextFields
<1>. QED
  BY ONLY <1>7, <1>10, SetDtIs, 0 \in {0, 1}

MovedOneIs(mm, m, n, to, obj, size, end) ==
  IF Room(m[to]) > size
  THEN \A i \in 1 .. n :
         /\ mm[i].dt = IF i = to THEN 1 ELSE IF i = obj THEN 0 ELSE m[i].dt
         /\ mm[i].soff = IF i = obj THEN end + 1 ELSE m[i].soff
         /\ mm[i].eoff = IF i = to THEN end ELSE IF i = obj THEN m[to].eoff ELSE m[i].eoff
         /\ mm[i].next = IF i = to THEN obj ELSE IF i = obj THEN m[to].next ELSE m[i].next
  ELSE \A i \in 1 .. n :
         /\ mm[i].dt = IF i = to THEN 1 ELSE m[i].dt
         /\ mm[i].soff = m[i].soff /\ mm[i].eoff = m[i].eoff /\ mm[i].next = m[i].next

LEMMA MovedOneFields ==
  ASSUME NEW n \in Nat \ {0}, NEW map \in MapOf(n), NEW to \in 1 .. n, NEW obj \in 1 .. n,
         NEW m, m = Vacated(map, obj), NEW size, size = Room(map[obj]),
         NEW end, end = m[to].soff + size - 1,
         NEW mm, mm = MovedOne(map, obj, to)
  PROVE  mm \in MapOf(n) /\ MovedOneIs(mm, m, n, to, obj, size, end)
<1>1. m \in MapOf(n)
  BY VacatedType
<1>2. /\ m[obj].id \in Ids \cup {NoId, 0} /\ m[to].soff \in Int /\ m[to].eoff \in Int
      /\ m[to].next \in 0 .. n
  BY <1>1, BlockType
<1>3. size \in Int
  <2>1. map[obj].soff \in Int /\ map[obj].eoff \in Int
    BY BlockType
  <2>. QED BY <2>1 DEF Room
<1>4. end \in Int /\ end + 1 \in Int
  BY <1>2, <1>3
<1>5. PICK rest : rest = [dt |-> 0, id |-> m[obj].id, soff |-> end + 1, eoff |-> m[to].eoff,
                          prev |-> to, next |-> m[to].next]
  OBVIOUS
<1>6. rest \in Blocks(n) /\ rest.dt = 0 /\ rest.soff = end + 1 /\ rest.eoff = m[to].eoff
      /\ rest.next = m[to].next /\ rest.id \in Ids \cup {NoId, 0}
  BY <1>2, <1>4, <1>5 DEF Blocks
<1>7. mm = IF Room(m[to]) > size
           THEN [m EXCEPT ![obj] = rest, ![to].id = rest.id, ![to].eoff = end,
                          ![to].next = obj, ![to].dt = 1]
           ELSE [m EXCEPT ![to].dt = 1]
  BY <1>5 DEF MovedOne
<1>8. 1 \in {0, 1} /\ obj \in 0 .. n
  OBVIOUS
<1>9. CASE Room(m[to]) > size
  <2>1. PICK a1 : a1 = [m EXCEPT ![obj] = rest]
    OBVIOUS
  <2>2. PICK a2 : a2 = [a1 EXCEPT ![to].id = rest.id]
    OBVIOUS
  <2>3. PICK a3 : a3 = [a2 EXCEPT ![to].eoff = end]
    OBVIOUS
  <2>4. PICK a4 : a4 = [a3 EXCEPT ![to].next = obj]
    OBVIOUS
  <2>5. mm = [a4 EXCEPT ![to].dt = 1]
    BY ONLY <1>7, <1>9, <2>1, <2>2, <2>3, <2>4
  <2>6. a1 \in MapOf(n) /\ BlockSet(a1, m, n, obj, rest)
    BY ONLY <1>1, <1>6, <2>1, SetBlockIs
  <2>7. a2 \in MapOf(n) /\ IdSet(a2, a1, n, to, rest.id)
    BY ONLY <1>6, <2>2, <2>6, SetIdIs
  <2>8. a3 \in MapOf(n) /\ EoffSet(a3, a2, n, to, end)
    BY ONLY <1>4, <2>3, <2>7, SetEoffIs
  <2>9. a4 \in MapOf(n) /\ NextSet(a4, a3, n, to, obj)
    BY ONLY <1>8, <2>4, <2>8, SetNextIs
  <2>10. mm \in MapOf(n) /\ DtSet(mm, a4, n, to, 1)
    BY ONLY <1>8, <2>5, <2>9, SetDtIs
  <2>11. ASSUME NEW j \in 1 .. n
         PROVE  /\ a1[j].dt = IF j = obj THEN 0 ELSE m[j].dt
                /\ a1[j].soff = IF j = obj THEN end + 1 ELSE m[j].soff
                /\ a1[j].eoff = IF j = obj THEN m[to].eoff ELSE m[j].eoff
                /\ a1[j].next = IF j = obj THEN m[to].next ELSE m[j].next
    BY ONLY <1>6, <2>6, j \in 1 .. n DEF BlockSet
  <2>. QED
    BY ONLY <1>9, <2>7, <2>8, <2>9, <2>10, <2>11 DEF MovedOneIs, IdSet, EoffSet, NextSet, DtSet
<1>10. CASE ~(Room(m[to]) > size)
  <2>1. mm = [m EXCEPT ![to].dt = 1]
    BY ONLY <1>7, <1>10
  <2>2. mm \in MapOf(n) /\ DtSet(mm, m, n, to, 1)
    BY ONLY <1>1, <1>8, <2>1, SetDtIs
  <2>. QED
    BY ONLY <1>10, <2>2 DEF MovedOneIs, DtSet
<1>. QED
  BY <1>9, <1>10

(* A message moves, as its header has it.                                  *)
MovedTo(ms, ms2, id, at) ==
  /\ id \in DOMAIN ms /\ DOMAIN ms2 = DOMAIN ms
  /\ ms2[id].whence = at /\ ms2[id].mbytes = ms[id].mbytes
  /\ \A j \in DOMAIN ms \ {id} : ms2[j] = ms[j]

NewAt(ms, id, at) == at .. at + ms[id].mbytes - 1

(* What is clear of the others and of the new place stays clear.           *)
LEMMA StaysClear ==
  ASSUME NEW ms, NEW ms2, NEW id, NEW at, MovedTo(ms, ms2, id, at),
         NEW S, S \subseteq Offsets, S \cap NewAt(ms, id, at) = {},
         \A j \in DOMAIN ms \ {id} : Place(ms[j]) \cap S = {}
  PROVE  Clear(ms2, S)
<1>1. Place(ms2[id]) = NewAt(ms, id, at)
  BY DEF MovedTo, NewAt, Place
<1>2. \A j \in DOMAIN ms \ {id} : Place(ms2[j]) = Place(ms[j])
  BY DEF MovedTo
<1>. QED
  BY <1>1, <1>2 DEF MovedTo, Clear

LEMMA StaysPlaced ==
  ASSUME NEW ms, NEW ms2, NEW id, NEW at, MovedTo(ms, ms2, id, at), Placed(ms),
         NEW T, Clear(ms, T), NewAt(ms, id, at) \subseteq T \cup Place(ms[id])
  PROVE  Placed(ms2)
<1>1. Place(ms2[id]) = NewAt(ms, id, at)
  BY DEF MovedTo, NewAt, Place
<1>2. \A j \in DOMAIN ms \ {id} : Place(ms2[j]) = Place(ms[j])
  BY DEF MovedTo
<1>3. DOMAIN ms2 = DOMAIN ms /\ id \in DOMAIN ms
  BY DEF MovedTo
<1>4. NewAt(ms, id, at) \subseteq Offsets
  BY <1>3 DEF Clear, Placed
<1>5. ASSUME NEW j \in DOMAIN ms \ {id} PROVE NewAt(ms, id, at) \cap Place(ms[j]) = {}
  <2>1. Place(ms[j]) \cap T = {} /\ Place(ms[j]) \cap Place(ms[id]) = {}
    BY <1>3 DEF Clear, Placed
  <2>. QED BY <2>1
<1>. SUFFICES ASSUME NEW i \in DOMAIN ms
              PROVE  /\ Place(ms2[i]) \subseteq Offsets
                     /\ \A j \in DOMAIN ms \ {i} : Place(ms2[i]) \cap Place(ms2[j]) = {}
  BY <1>3 DEF Placed
<1>6. CASE i = id
  BY <1>1, <1>2, <1>4, <1>5, <1>6
<1>7. CASE i # id
  <2>1. Place(ms2[i]) = Place(ms[i])
    BY <1>2, <1>7
  <2>2. Place(ms[i]) \subseteq Offsets
    BY DEF Placed
  <2>3. ASSUME NEW j \in DOMAIN ms \ {i} PROVE Place(ms2[i]) \cap Place(ms2[j]) = {}
    <3>1. CASE j = id
      BY <1>1, <1>5, <1>7, <2>1, <3>1
    <3>2. CASE j # id
      BY <1>2, <2>1, <3>2 DEF Placed
    <3>. QED BY <3>1, <3>2
  <2>. QED BY <2>1, <2>2, <2>3
<1>. QED
  BY <1>6, <1>7

(* Blocks of a fresh map, one after the other.                             *)
LEMMA FreshBlock ==
  ASSUME NEW n \in Nat \ {0}, NEW map \in MapOf(n), NEW ms, Messages(ms), Fresh(ms, map, n),
         NEW i \in 1 .. n
  PROVE  /\ map[i].soff \in Int /\ map[i].eoff \in Int
         /\ 0 <= map[i].soff /\ map[i].soff <= map[i].eoff /\ map[i].eoff <= QBytes - 1
         /\ map[i].next = IF i = n THEN NULL ELSE i + 1
         /\ map[i].prev = IF i = 1 THEN NULL ELSE i - 1
         /\ i < n => map[i + 1].soff = map[i].eoff + 1
         /\ i < n => map[i].dt = 1 \/ map[i + 1].dt = 1
         /\ map[i].dt \in {0, 1}
         /\ map[i].dt = 1 => /\ map[i].id \in DOMAIN ms
                             /\ Span(map[i]) = Place(ms[map[i].id])
                             /\ map[i].soff = ms[map[i].id].whence
                             /\ Room(map[i]) = ms[map[i].id].mbytes
<1>1. Tiles(map, 1, n) /\ Named(ms, map, 1, n) /\ map[1].soff = 0 /\ Linked(map, 1, n)
      /\ map[1].prev = NULL
  BY DEF Fresh
<1>2. Lies(map, 1, n)
  BY <1>1, TilesLie
<1>3. map[i].dt \in {0, 1}
  BY BlockType
<1>4. map[i].prev = IF i = 1 THEN NULL ELSE i - 1
  BY <1>1 DEF Linked
<1>5. map[i].next = IF i = n THEN NULL ELSE i + 1
  BY <1>1 DEF Linked
<1>6. map[i].dt = 1 => /\ map[i].id \in DOMAIN ms
                       /\ Span(map[i]) = Place(ms[map[i].id])
                       /\ map[i].soff = ms[map[i].id].whence
                       /\ Room(map[i]) = ms[map[i].id].mbytes
  BY <1>1, NamedSpan
<1>. QED
  BY <1>1, <1>2, <1>3, <1>4, <1>5, <1>6 DEF Lies, Tiles

LEMMA SpanIn ==
  ASSUME NEW b, b.soff \in Int, b.eoff \in Int, 0 <= b.soff, b.eoff <= QBytes - 1
  PROVE  Span(b) \subseteq Offsets
BY QBytesType DEF Span, Offsets

(* A map on whose walk a gap is, by a rank.                                *)
Leads(map, S, r, g) ==
  /\ r[1] <= r[g]
  /\ \A i \in S : r[i] < r[g] => map[i].next # NULL /\ r[map[i].next] <= r[g]
  /\ \A i \in S : r[i] = r[g] => i = g

LEMMA RankedFits ==
  ASSUME NEW n \in Nat \ {0}, NEW map \in MapOf(n), NEW size,
         NEW S, NEW r, Ranked(map, S, r, n), NEW g \in S, Leads(map, S, r, g),
         map[g].dt = 0, Room(map[g]) >= size
  PROVE  Fits(map, size)
<1>. PICK o : o = Order(map)
  OBVIOUS
<1>1. WalkOf(map, o, n)
  BY OrderIsWalk
<1>2. \A i \in 1 .. n : map[i].next \in 0 .. n
  BY BlockType
<1>3. \E k \in DOMAIN o : map[o[k]].next = NULL
  BY ONLY <1>1, <1>2, n \in Nat \ {0}, Ranked(map, S, r, n), RankedEnds
<1>4. \E k \in DOMAIN o : o[k] = g
  BY <1>1, <1>2, RankedReaches DEF Leads
<1>. QED
  BY <1>3, <1>4 DEF Fits, Ends

LEMMA AllSafe ==
  ASSUME NEW n \in Nat \ {0}, NEW map \in MapOf(n), NEW ms,
         \A i \in 1 .. n : map[i].dt = 0 => Clear(ms, Span(map[i]))
  PROVE  Safe(ms, map)
<1>1. WalkOf(map, Order(map), n)
  BY OrderIsWalk
<1>. QED
  BY <1>1 DEF WalkOf, Safe

LEMMA By1 ==
  ASSUME NEW n \in Nat \ {0}, NEW map \in MapOf(n), NEW ms, Messages(ms), Fresh(ms, map, n),
         NEW to \in 1 .. n - 2, NEW obj, obj = to + 1, NEW size \in Nat,
         map[to].dt = 0, map[obj].dt = 1, map[obj + 1].dt = 0,
         Room(map[to]) + Room(map[obj + 1]) >= size,
         NEW id, id = map[obj].id, NEW at, at = map[to].soff,
         NEW ms2, MovedTo(ms, ms2, id, at),
         NEW mm, mm = MovedF(map, obj, ms[id].mbytes)
  PROVE  Placed(ms2) /\ Safe(ms2, mm) /\ Fits(mm, size)
<1>. PICK x \in Int : x = obj + 1
  OBVIOUS
<1>0. to \in 1 .. n /\ obj \in 1 .. n /\ x \in 1 .. n /\ to < n /\ obj < n /\ obj - 1 = to
  OBVIOUS
<1>. PICK m : m = ms[id].mbytes
  OBVIOUS
<1>1. /\ map[to].soff \in Int /\ map[to].eoff \in Int
      /\ 0 <= map[to].soff /\ map[to].soff <= map[to].eoff
      /\ map[obj].soff = map[to].eoff + 1
  BY <1>0, FreshBlock
<1>2. /\ map[obj].soff \in Int /\ map[obj].eoff \in Int
      /\ map[obj].soff <= map[obj].eoff
      /\ map[x].soff = map[obj].eoff + 1
      /\ map[obj].next = x /\ map[obj].prev = to
      /\ id \in DOMAIN ms /\ Span(map[obj]) = Place(ms[id]) /\ Room(map[obj]) = m
  <2>1. obj # n /\ obj # 1
    BY <1>0
  <2>. QED BY <1>0, <2>1, FreshBlock
<1>3. /\ map[x].soff \in Int /\ map[x].eoff \in Int /\ map[x].soff <= map[x].eoff
      /\ map[x].eoff <= QBytes - 1
  BY <1>0, FreshBlock
<1>. PICK end : end = map[to].soff + m - 1
  OBVIOUS
<1>4. /\ m \in Int /\ m >= 1 /\ end \in Int /\ end < map[obj].eoff
      /\ m = map[obj].eoff - map[obj].soff + 1
  <2>1. m = map[obj].eoff - map[obj].soff + 1
    BY <1>2 DEF Room
  <2>. QED BY <1>1, <1>2, <2>1
<1>5. mm \in MapOf(n)
      /\ \A i \in 1 .. n :
           /\ mm[i].dt = IF i = to THEN 1 ELSE map[i].dt
           /\ mm[i].soff = IF i = x THEN end + 1 ELSE map[i].soff
           /\ mm[i].eoff = IF i = to THEN end ELSE map[i].eoff
           /\ mm[i].next = IF i = to THEN x ELSE map[i].next
  <2>1. mm = MovedF(map, obj, m) /\ to = map[obj].prev /\ x = map[obj].next
    BY <1>2
  <2>2. mm \in MapOf(n) /\ MovedFIs(mm, map, n, to, x, end)
    BY ONLY <1>0, <1>4, <2>1, n \in Nat \ {0}, map \in MapOf(n), end = map[to].soff + m - 1, MovedFFields
  <2>. QED BY ONLY <2>2 DEF MovedFIs
<1>6. \A i \in 1 .. n : map[i].dt = 0 => Clear(ms, Span(map[i]))
  BY FreshPlaced
<1>7. \A j \in DOMAIN ms \ {id} : Place(ms[j]) \cap Span(map[obj]) = {}
  BY <1>0, FreshPlaced
<1>8. NewAt(ms, id, at) = at .. end /\ at \in Int /\ at = map[to].soff
  BY <1>1 DEF NewAt
<1>9. NewAt(ms, id, at) \subseteq Span(map[to]) \cup Place(ms[id])
  <2>1. Place(ms[id]) = map[obj].soff .. map[obj].eoff
    BY <1>2 DEF Span
  <2>2. at .. end \subseteq (map[to].soff .. map[to].eoff) \cup (map[obj].soff .. map[obj].eoff)
    BY ONLY <1>1, <1>2, <1>4, <1>8
  <2>. QED BY <1>8, <2>1, <2>2 DEF Span
<1>10. Placed(ms2)
  <2>1. Clear(ms, Span(map[to]))
    BY <1>0, <1>6
  <2>2. Placed(ms)
    BY FreshPlaced
  <2>. QED BY <1>9, <2>1, <2>2, StaysPlaced
<1>11. ASSUME NEW i \in 1 .. n, mm[i].dt = 0
       PROVE  Clear(ms2, Span(mm[i]))
  <2>1. i # to /\ map[i].dt = 0
    BY <1>5, <1>11
  <2>2. CASE i = x
    <3>1. Span(mm[i]) = end + 1 .. map[x].eoff
      BY <1>5, <2>1, <2>2 DEF Span
    <3>2. Span(mm[i]) \subseteq Offsets
      <4>1. 0 <= end + 1 /\ end + 1 \in Int /\ map[x].eoff <= QBytes - 1 /\ map[x].eoff \in Int
        BY <1>1, <1>3, <1>4
      <4>. QED BY ONLY <3>1, <4>1, QBytesType DEF Offsets
    <3>3. Span(mm[i]) \cap NewAt(ms, id, at) = {}
      BY <3>1, <1>8, <1>4, <1>3
    <3>4. end + 1 .. map[x].eoff \subseteq
            (map[to].soff .. map[to].eoff) \cup (map[obj].soff .. map[obj].eoff)
            \cup (map[x].soff .. map[x].eoff)
      BY ONLY <1>1, <1>2, <1>3, <1>4, end = map[to].soff + m - 1
    <3>5. Span(mm[i]) \subseteq Span(map[to]) \cup Span(map[obj]) \cup Span(map[x])
      BY <3>1, <3>4 DEF Span
    <3>6. ASSUME NEW j \in DOMAIN ms \ {id} PROVE Place(ms[j]) \cap Span(mm[i]) = {}
      <4>1. Place(ms[j]) \cap Span(map[to]) = {} /\ Place(ms[j]) \cap Span(map[x]) = {}
        BY <1>0, <1>6 DEF Clear
      <4>2. Place(ms[j]) \cap Span(map[obj]) = {}
        BY <1>7
      <4>. QED BY <3>5, <4>1, <4>2
    <3>. QED BY <3>2, <3>3, <3>6, StaysClear
  <2>3. CASE i # x
    <3>1. Span(mm[i]) = Span(map[i])
      BY <1>5, <2>1, <2>3 DEF Span
    <3>2. Clear(ms, Span(map[i]))
      BY <1>6, <2>1
    <3>3. Span(map[i]) \cap Span(map[to]) = {}
      <4>1. Ascends(map, 1, n)
        BY TilesAscend DEF Fresh
      <4>2. /\ map[i].soff \in Int /\ map[i].eoff \in Int
        BY FreshBlock
      <4>3. map[i].eoff < map[to].soff \/ map[to].eoff < map[i].soff
        <5>1. i < to \/ to < i
          BY <1>0, <2>1
        <5>. QED BY <5>1, <4>1, <1>0 DEF Ascends
      <4>. QED BY <4>2, <4>3, <1>1 DEF Span
    <3>4. Span(map[i]) \cap Place(ms[id]) = {}
      BY <1>2, <3>2 DEF Clear
    <3>5. Span(map[i]) \cap NewAt(ms, id, at) = {}
      BY <1>9, <3>3, <3>4
    <3>. QED BY <3>1, <3>2, <3>5, StaysClear DEF Clear
  <2>. QED BY <2>2, <2>3
<1>12. Safe(ms2, mm)
  BY <1>5, <1>11, AllSafe
<1>13. Fits(mm, size)
  <2>. DEFINE S == (1 .. n) \ {obj}
              r == [i \in 1 .. n |-> i]
  <2>1. ASSUME NEW i \in S, mm[i].next # NULL
        PROVE  mm[i].next \in S /\ mm[i].next > i /\ (i # to => mm[i].next = i + 1)
    <3>1. CASE i = to
      BY <1>0, <1>5, <3>1
    <3>2. CASE i # to
      <4>1. i # n /\ mm[i].next = i + 1
        BY <1>5, <2>1, <3>2, FreshBlock
      <4>. QED BY <1>0, <3>2, <4>1
    <3>. QED BY <3>1, <3>2
  <2>2. \A i \in S : i \in 1 .. n /\ r[i] = i
    OBVIOUS
  <2>3. Ranked(mm, S, r, n)
    <3>1. S \subseteq 1 .. n /\ 1 \in S /\ r \in [1 .. n -> Int]
      BY ONLY <1>0, n \in Nat \ {0}
    <3>2. ASSUME NEW i \in S, mm[i].next # NULL PROVE mm[i].next \in S /\ r[mm[i].next] > r[i]
      BY <2>1, <2>2, <3>2
    <3>. HIDE DEF S, r
    <3>. QED BY ONLY <3>1, <3>2 DEF Ranked
  <2>4. x \in S /\ r[x] = x /\ r[1] = 1 /\ 1 <= x
    BY <1>0
  <2>5. ASSUME NEW i \in S, r[i] < r[x]
        PROVE  mm[i].next # NULL /\ r[mm[i].next] <= r[x]
    <3>1. i < x /\ i < n
      BY <1>0, <2>5
    <3>2. mm[i].next # NULL
      <4>1. CASE i = to
        BY <1>0, <1>5, <4>1 DEF NULL
      <4>2. CASE i # to
        <5>1. map[i].next = i + 1 /\ mm[i].next = map[i].next
          BY <1>5, <3>1, <4>2, FreshBlock
        <5>. QED BY <5>1 DEF NULL
      <4>. QED BY <4>1, <4>2
    <3>3. mm[i].next \in S /\ mm[i].next <= x
      <4>1. CASE i = to
        <5>1. mm[i].next = x
          BY <1>0, <1>5, <4>1
        <5>. QED BY ONLY <5>1, <2>4, x \in Int
      <4>2. CASE i # to
        <5>1. mm[i].next \in S /\ mm[i].next = i + 1
          BY <2>1, <3>2, <4>2
        <5>2. i \in Int
          BY <2>2
        <5>. QED BY ONLY <5>1, <5>2, <3>1, x \in Int
      <4>. QED BY ONLY <4>1, <4>2
    <3>. QED BY <2>2, <2>4, <3>2, <3>3
  <2>6. mm[x].dt = 0 /\ Room(mm[x]) >= size
    <3>1. mm[x].dt = 0 /\ mm[x].soff = end + 1 /\ mm[x].eoff = map[x].eoff
      BY <1>0, <1>5
    <3>2. Room(map[to]) + Room(map[x]) >= size
      OBVIOUS
    <3>. QED BY <3>1, <3>2, <1>1, <1>2, <1>3, <1>4 DEF Room
  <2>7. \A i \in S : r[i] = r[x] => i = x
    BY <2>2, <2>4
  <2>8. r[1] <= r[x]
    BY <2>4
  <2>. HIDE DEF S, r
  <2>9. Leads(mm, S, r, x)
    BY ONLY <2>5, <2>7, <2>8 DEF Leads
  <2>10. mm \in MapOf(n)
    BY <1>5
  <2>. QED BY ONLY n \in Nat \ {0}, <2>10, <2>3, <2>4, <2>6, <2>9, RankedFits
<1>. QED
  BY <1>10, <1>12, <1>13

VacatedIs(m, map, n, obj, bef, beh) ==
  \A j \in 1 .. n :
    /\ m[j].dt = map[j].dt
    /\ m[j].soff = IF beh /\ j = obj + 1
                   THEN IF bef THEN map[obj - 1].soff ELSE map[obj].soff
                   ELSE map[j].soff
    /\ m[j].eoff = IF bef /\ j = obj - 1 THEN map[obj].eoff ELSE map[j].eoff
    /\ m[j].next = IF bef /\ j = obj - 1 THEN map[obj].next
                   ELSE IF beh /\ j = (IF bef THEN obj - 2 ELSE obj - 1) THEN obj + 1
                   ELSE map[j].next

LEMMA VacatedFresh ==
  ASSUME NEW n \in Nat \ {0}, NEW map \in MapOf(n), NEW ms, Messages(ms), Fresh(ms, map, n),
         NEW obj \in 1 .. n, map[obj].dt = 1,
         GapAt(map, obj - 1, n) \/ GapAt(map, obj + 1, n),
         NEW m, m = Vacated(map, obj)
  PROVE  /\ m \in MapOf(n)
         /\ VacatedIs(m, map, n, obj, GapAt(map, obj - 1, n), GapAt(map, obj + 1, n))
<1>. DEFINE bef == GapAt(map, obj - 1, n)
            beh == GapAt(map, obj + 1, n)
<1>. PICK p \in Int : p = obj - 1
  OBVIOUS
<1>. PICK x \in Int : x = obj + 1
  OBVIOUS
<1>1. /\ map[obj].prev = (IF obj = 1 THEN NULL ELSE p)
      /\ map[obj].next = (IF obj = n THEN NULL ELSE x)
  BY FreshBlock
<1>2. IsGap(map, map[obj].prev) <=> bef
  BY <1>1 DEF IsGap, GapAt, NULL
<1>3. IsGap(map, map[obj].next) <=> beh
  BY <1>1 DEF IsGap, GapAt, NULL
<1>4. bef => /\ p \in 1 .. n /\ map[p].dt = 0 /\ map[obj].prev = p
             /\ map[p].prev = (IF p = 1 THEN NULL ELSE p - 1)
  <2>. SUFFICES ASSUME bef PROVE /\ p \in 1 .. n /\ map[p].dt = 0 /\ map[obj].prev = p
                                 /\ map[p].prev = (IF p = 1 THEN NULL ELSE p - 1)
    OBVIOUS
  <2>1. p \in 1 .. n /\ map[p].dt = 0
    BY DEF GapAt
  <2>. QED BY <2>1, <1>1, FreshBlock
<1>5. beh => x \in 1 .. n /\ map[x].dt = 0 /\ map[obj].next = x
  BY <1>1 DEF GapAt
<1>6. m \in MapOf(n)
  BY VacatedType
<1>7. PICK m1 : m1 = IF IsGap(map, map[obj].prev) THEN JoinPrev(map, obj) ELSE map
  OBVIOUS
<1>8. PICK t1 : t1 = IF IsGap(map, map[obj].prev) THEN map[obj].prev ELSE obj
  OBVIOUS
<1>9. PICK m2 : m2 = IF IsGap(m1, m1[t1].next) THEN JoinNext(m1, t1) ELSE m1
  OBVIOUS
<1>10. PICK t2 : t2 = IF IsGap(m1, m1[t1].next) THEN m1[t1].next ELSE t1
  OBVIOUS
<1>11. m = [m2 EXCEPT ![t2].dt = 0]
  BY <1>7, <1>8, <1>9, <1>10 DEF Vacated
<1>12. p # obj /\ p # x /\ x # obj /\ obj \in 1 .. n
  OBVIOUS
<1>. HIDE DEF bef, beh
<1>13. CASE bef
  <2>1. m1 = JoinPrev(map, obj) /\ t1 = p
    BY <1>2, <1>4, <1>7, <1>8, <1>13
  <2>2. m1 \in MapOf(n) /\ JoinPrevIs(m1, map, n, obj, p, map[obj].next)
    BY ONLY <1>4, <1>12, <1>13, <2>1, n \in Nat \ {0}, map \in MapOf(n), JoinPrevFields
  <2>3. m1[p].next = map[obj].next /\ p \in 1 .. n
    BY ONLY <1>4, <1>13, <2>2 DEF JoinPrevIs
  <2>4. CASE beh
    <3>1. IsGap(m1, m1[t1].next) /\ m1[t1].next = x /\ x \in 1 .. n
      <4>1. m1[x].dt = 0
        BY ONLY <1>5, <2>2, <2>4 DEF JoinPrevIs
      <4>. QED BY <1>5, <2>1, <2>3, <2>4, <4>1 DEF IsGap, NULL
    <3>2. m2 = JoinNext(m1, p) /\ t2 = x
      BY <1>9, <1>10, <2>1, <3>1
    <3>3. m1[p].prev = map[p].prev
      BY ONLY <1>4, <1>5, <1>12, <1>13, <2>2, <2>3, <2>4 DEF JoinPrevIs
    <3>4. m2 \in MapOf(n) /\ JoinNextIs(m2, m1, n, p, m1[p].prev, m1[p].next)
      BY ONLY <2>2, <2>3, <3>2, n \in Nat \ {0}, JoinNextFields
    <3>5. DtSet(m, m2, n, x, 0)
      BY ONLY <1>11, <3>2, <3>4, SetDtIs, 0 \in {0, 1}
    <3>6. ASSUME NEW j \in 1 .. n
          PROVE  /\ m[j].dt = map[j].dt
                 /\ m[j].soff = IF j = x THEN map[p].soff ELSE map[j].soff
                 /\ m[j].eoff = IF j = p THEN map[obj].eoff ELSE map[j].eoff
                 /\ m[j].next = IF j = p THEN map[obj].next
                                ELSE IF j = p - 1 THEN x ELSE map[j].next
      <4>1. /\ m1[j].dt = map[j].dt /\ m1[j].soff = map[j].soff
            /\ m1[j].eoff = (IF j = p THEN map[obj].eoff ELSE map[j].eoff)
            /\ m1[j].next = (IF j = p THEN map[obj].next ELSE map[j].next)
        BY ONLY <2>2, j \in 1 .. n DEF JoinPrevIs
      <4>2. m1[p].soff = map[p].soff /\ m1[p].next = x
        BY ONLY <2>1, <2>2, <2>3, <3>1 DEF JoinPrevIs
      <4>3. /\ m2[j].dt = m1[j].dt /\ m2[j].eoff = m1[j].eoff
            /\ m2[j].soff = (IF j = x THEN map[p].soff ELSE m1[j].soff)
            /\ m2[j].next = (IF j = map[p].prev THEN x ELSE m1[j].next)
        BY ONLY <3>3, <3>4, <4>2, j \in 1 .. n DEF JoinNextIs
      <4>4. m[j].dt = (IF j = x THEN 0 ELSE m2[j].dt) /\ m[j].soff = m2[j].soff
            /\ m[j].eoff = m2[j].eoff /\ m[j].next = m2[j].next
        BY ONLY <3>5, j \in 1 .. n DEF DtSet
      <4>5. map[x].dt = 0
        BY <1>5, <2>4
      <4>6. (j = map[p].prev) <=> (j = p - 1)
        BY <1>4, <1>13, <2>3 DEF NULL
      <4>7. j = p => j # p - 1
        OBVIOUS
      <4>. QED BY ONLY <4>1, <4>3, <4>4, <4>5, <4>6, <4>7
    <3>7. p - 1 = obj - 2
      OBVIOUS
    <3>8. VacatedIs(m, map, n, obj, bef, beh)
      BY ONLY <1>13, <2>4, <3>6, <3>7, p = obj - 1, x = obj + 1 DEF VacatedIs
    <3>. QED BY <1>6, <3>8 DEF bef, beh
  <2>5. CASE ~beh
    <3>1. ~IsGap(m1, m1[t1].next)
      <4>1. CASE map[obj].next = NULL
        BY <2>1, <2>3, <4>1 DEF IsGap
      <4>2. CASE map[obj].next # NULL
        <5>1. map[obj].next = x /\ x \in 1 .. n
          BY <1>1, <4>2
        <5>2. m1[x].dt = map[x].dt
          BY ONLY <2>2, <5>1 DEF JoinPrevIs
        <5>3. map[x].dt # 0
          BY <1>3, <2>5, <4>2, <5>1 DEF IsGap
        <5>. QED BY <2>1, <2>3, <5>1, <5>2, <5>3 DEF IsGap
      <4>. QED BY <4>1, <4>2
    <3>2. m2 = m1 /\ t2 = p
      BY <1>9, <1>10, <2>1, <3>1
    <3>3. DtSet(m, m1, n, p, 0)
      BY ONLY <1>11, <2>2, <3>2, SetDtIs, 0 \in {0, 1}
    <3>4. ASSUME NEW j \in 1 .. n
          PROVE  /\ m[j].dt = map[j].dt /\ m[j].soff = map[j].soff
                 /\ m[j].eoff = IF j = p THEN map[obj].eoff ELSE map[j].eoff
                 /\ m[j].next = IF j = p THEN map[obj].next ELSE map[j].next
      <4>1. /\ m1[j].dt = map[j].dt /\ m1[j].soff = map[j].soff
            /\ m1[j].eoff = (IF j = p THEN map[obj].eoff ELSE map[j].eoff)
            /\ m1[j].next = (IF j = p THEN map[obj].next ELSE map[j].next)
        BY ONLY <2>2, j \in 1 .. n DEF JoinPrevIs
      <4>2. m[j].dt = (IF j = p THEN 0 ELSE m1[j].dt) /\ m[j].soff = m1[j].soff
            /\ m[j].eoff = m1[j].eoff /\ m[j].next = m1[j].next
        BY ONLY <3>3, j \in 1 .. n DEF DtSet
      <4>3. map[p].dt = 0
        BY <1>4, <1>13
      <4>. QED BY ONLY <4>1, <4>2, <4>3
    <3>5. VacatedIs(m, map, n, obj, bef, beh)
      BY ONLY <1>13, <2>5, <3>4, p = obj - 1 DEF VacatedIs
    <3>. QED BY <1>6, <3>5 DEF bef, beh
  <2>. QED BY <2>4, <2>5
<1>14. CASE ~bef
  <2>1. beh
    BY <1>14 DEF bef, beh
  <2>2. m1 = map /\ t1 = obj
    BY <1>2, <1>7, <1>8, <1>14
  <2>3. IsGap(m1, m1[t1].next) /\ m1[t1].next = x /\ x \in 1 .. n
    BY <1>3, <1>5, <2>1, <2>2
  <2>4. m2 = JoinNext(map, obj) /\ t2 = x
    BY <1>9, <1>10, <2>2, <2>3
  <2>5. m2 \in MapOf(n) /\ JoinNextIs(m2, map, n, obj, map[obj].prev, x)
    BY ONLY <1>5, <1>12, <2>1, <2>4, n \in Nat \ {0}, map \in MapOf(n), JoinNextFields
  <2>6. DtSet(m, m2, n, x, 0)
    BY ONLY <1>11, <2>4, <2>5, SetDtIs, 0 \in {0, 1}
  <2>7. ASSUME NEW j \in 1 .. n
        PROVE  /\ m[j].dt = map[j].dt
               /\ m[j].soff = IF j = x THEN map[obj].soff ELSE map[j].soff
               /\ m[j].eoff = map[j].eoff
               /\ m[j].next = IF j = p THEN x ELSE map[j].next
    <3>1. /\ m2[j].dt = map[j].dt /\ m2[j].eoff = map[j].eoff
          /\ m2[j].soff = (IF j = x THEN map[obj].soff ELSE map[j].soff)
          /\ m2[j].next = (IF j = map[obj].prev THEN x ELSE map[j].next)
      BY ONLY <2>5, j \in 1 .. n DEF JoinNextIs
    <3>2. m[j].dt = (IF j = x THEN 0 ELSE m2[j].dt) /\ m[j].soff = m2[j].soff
          /\ m[j].eoff = m2[j].eoff /\ m[j].next = m2[j].next
      BY ONLY <2>6, j \in 1 .. n DEF DtSet
    <3>3. map[x].dt = 0
      BY <1>5, <2>1
    <3>4. (j = map[obj].prev) <=> (j = p)
      BY <1>1 DEF NULL
    <3>. QED BY ONLY <3>1, <3>2, <3>3, <3>4
  <2>8. VacatedIs(m, map, n, obj, bef, beh)
    BY ONLY <1>14, <2>1, <2>7, p = obj - 1, x = obj + 1 DEF VacatedIs
  <2>. QED BY <1>6, <2>8 DEF bef, beh
<1>. QED
  BY <1>13, <1>14

(* The map after MoveOneData, in the blocks of the fresh one.              *)
SplitIs(mm, map, n, obj, to, bef, beh, end, split) ==
  \A j \in 1 .. n :
    /\ mm[j].dt = IF j = to THEN 1 ELSE IF split /\ j = obj THEN 0 ELSE map[j].dt
    /\ mm[j].soff = IF split /\ j = obj THEN end + 1
                    ELSE IF beh /\ j = obj + 1
                    THEN IF bef THEN map[obj - 1].soff ELSE map[obj].soff
                    ELSE map[j].soff
    /\ mm[j].eoff = IF split /\ j = to THEN end
                    ELSE IF split /\ j = obj THEN map[to].eoff
                    ELSE IF bef /\ j = obj - 1 THEN map[obj].eoff
                    ELSE map[j].eoff
    /\ mm[j].next = IF split /\ j = to THEN obj
                    ELSE IF split /\ j = obj THEN map[to].next
                    ELSE IF bef /\ j = obj - 1 THEN map[obj].next
                    ELSE IF beh /\ j = (IF bef THEN obj - 2 ELSE obj - 1) THEN obj + 1
                    ELSE map[j].next

By2Holds(map, n, ms, obj, to, size) ==
  /\ Messages(ms) /\ Fresh(ms, map, n)
  /\ to \in 1 .. n /\ obj \in 1 .. n
  /\ map[to].dt = 0 /\ map[obj].dt = 1 /\ Room(map[to]) >= Room(map[obj])
  /\ to \notin {obj - 1, obj + 1}
  /\ GapAt(map, obj - 1, n) \/ GapAt(map, obj + 1, n)
  /\ Room(map[obj]) + RoomAt(map, obj - 1, n) + RoomAt(map, obj + 1, n) >= size

LEMMA SplitFields ==
  ASSUME NEW n \in Nat \ {0}, NEW map \in MapOf(n), NEW ms, NEW obj, NEW to, NEW size,
         By2Holds(map, n, ms, obj, to, size),
         NEW end, end = map[to].soff + Room(map[obj]) - 1,
         NEW mm, mm = MovedOne(map, obj, to)
  PROVE  /\ mm \in MapOf(n)
         /\ SplitIs(mm, map, n, obj, to, GapAt(map, obj - 1, n), GapAt(map, obj + 1, n), end,
                    Room(map[to]) > Room(map[obj]))
<1>. DEFINE bef == GapAt(map, obj - 1, n)
            beh == GapAt(map, obj + 1, n)
<1>0. to \in 1 .. n /\ obj \in 1 .. n /\ to # obj /\ to # obj - 1 /\ to # obj + 1
  BY DEF By2Holds
<1>. PICK m : m = Vacated(map, obj)
  OBVIOUS
<1>1. m \in MapOf(n) /\ VacatedIs(m, map, n, obj, bef, beh)
  BY VacatedFresh DEF By2Holds
<1>2. bef => to # obj - 2
  <2>. SUFFICES ASSUME bef, to = obj - 2 PROVE FALSE
    OBVIOUS
  <2>1. to < n /\ to + 1 = obj - 1 /\ map[obj - 1].dt = 0 /\ map[to].dt = 0
    BY <1>0 DEF GapAt, By2Holds
  <2>2. map[to].dt = 1 \/ map[to + 1].dt = 1
    BY <1>0, <2>1, FreshBlock DEF By2Holds
  <2>. QED BY <2>1, <2>2
<1>. HIDE DEF bef, beh
<1>3. /\ m[to].soff = map[to].soff /\ m[to].eoff = map[to].eoff /\ m[to].next = map[to].next
  BY ONLY <1>0, <1>1, <1>2 DEF VacatedIs
<1>4. Room(m[to]) = Room(map[to])
  BY <1>3 DEF Room
<1>. PICK s : s = Room(map[obj])
  OBVIOUS
<1>5. mm \in MapOf(n) /\ MovedOneIs(mm, m, n, to, obj, s, end)
  <2>1. end = m[to].soff + s - 1
    BY <1>3
  <2>. QED BY ONLY <1>0, <2>1, n \in Nat \ {0}, map \in MapOf(n), m = Vacated(map, obj),
                   s = Room(map[obj]), mm = MovedOne(map, obj, to), MovedOneFields
<1>6. CASE Room(map[to]) > s
  <2>1. ASSUME NEW i \in 1 .. n
        PROVE  /\ mm[i].dt = IF i = to THEN 1 ELSE IF i = obj THEN 0 ELSE m[i].dt
               /\ mm[i].soff = IF i = obj THEN end + 1 ELSE m[i].soff
               /\ mm[i].eoff = IF i = to THEN end ELSE IF i = obj THEN m[to].eoff ELSE m[i].eoff
               /\ mm[i].next = IF i = to THEN obj ELSE IF i = obj THEN m[to].next ELSE m[i].next
    BY ONLY <1>4, <1>5, <1>6, i \in 1 .. n DEF MovedOneIs
  <2>2. SplitIs(mm, map, n, obj, to, bef, beh, end, TRUE)
    BY ONLY <1>0, <1>1, <1>3, <2>1 DEF SplitIs, VacatedIs
  <2>3. (Room(map[to]) > Room(map[obj])) = TRUE
    BY <1>6
  <2>. QED BY <1>5, <2>2, <2>3 DEF bef, beh
<1>7. CASE ~(Room(map[to]) > s)
  <2>1. ASSUME NEW i \in 1 .. n
        PROVE  /\ mm[i].dt = IF i = to THEN 1 ELSE m[i].dt
               /\ mm[i].soff = m[i].soff /\ mm[i].eoff = m[i].eoff /\ mm[i].next = m[i].next
    BY ONLY <1>4, <1>5, <1>7, i \in 1 .. n DEF MovedOneIs
  <2>2. SplitIs(mm, map, n, obj, to, bef, beh, end, FALSE)
    BY ONLY <1>0, <1>1, <1>3, <2>1 DEF SplitIs, VacatedIs
  <2>3. (Room(map[to]) > Room(map[obj])) = FALSE
    BY <1>7
  <2>. QED BY <1>5, <2>2, <2>3 DEF bef, beh
<1>. QED
  BY <1>6, <1>7

LEMMA By2Safe ==
  ASSUME NEW n \in Nat \ {0}, NEW map \in MapOf(n), NEW ms, NEW obj, NEW to, NEW size,
         By2Holds(map, n, ms, obj, to, size),
         NEW id, id = map[obj].id, NEW at, at = map[to].soff,
         NEW ms2, MovedTo(ms, ms2, id, at),
         NEW mm, mm = MovedOne(map, obj, to)
  PROVE  Placed(ms2) /\ Safe(ms2, mm)
<1>. DEFINE bef == GapAt(map, obj - 1, n)
            beh == GapAt(map, obj + 1, n)
<1>. PICK end : end = map[to].soff + Room(map[obj]) - 1
  OBVIOUS
<1>. DEFINE split == Room(map[to]) > Room(map[obj])
<1>1. mm \in MapOf(n) /\ SplitIs(mm, map, n, obj, to, bef, beh, end, split)
  BY SplitFields
<1>. HIDE DEF split
<1>2. /\ to \in 1 .. n /\ obj \in 1 .. n /\ to # obj /\ to # obj - 1 /\ to # obj + 1
      /\ map[to].dt = 0 /\ map[obj].dt = 1 /\ Room(map[to]) >= Room(map[obj])
      /\ Messages(ms) /\ Fresh(ms, map, n)
  BY DEF By2Holds
<1>3. \A i \in 1 .. n :
        /\ map[i].soff \in Int /\ map[i].eoff \in Int
        /\ 0 <= map[i].soff /\ map[i].soff <= map[i].eoff /\ map[i].eoff <= QBytes - 1
        /\ i < n => map[i + 1].soff = map[i].eoff + 1
        /\ map[i].dt \in {0, 1}
  BY <1>2, FreshBlock
<1>4. /\ id \in DOMAIN ms /\ Span(map[obj]) = Place(ms[id]) /\ Room(map[obj]) = ms[id].mbytes
  BY <1>2, FreshBlock
<1>5. \A i \in 1 .. n : map[i].dt = 0 => Clear(ms, Span(map[i]))
  BY <1>2, FreshPlaced
<1>6. \A j \in DOMAIN ms \ {id} : Place(ms[j]) \cap Span(map[obj]) = {}
  BY <1>2, FreshPlaced
<1>7. /\ end \in Int /\ at \in Int /\ at = map[to].soff /\ at <= end /\ end <= map[to].eoff
      /\ NewAt(ms, id, at) = at .. end
  <2>1. Room(map[obj]) = map[obj].eoff - map[obj].soff + 1 /\ Room(map[to]) = map[to].eoff - map[to].soff + 1
    BY DEF Room
  <2>2. NewAt(ms, id, at) = at .. at + Room(map[obj]) - 1
    BY <1>4 DEF NewAt
  <2>3. /\ map[obj].soff \in Int /\ map[obj].eoff \in Int /\ map[obj].soff <= map[obj].eoff
        /\ map[to].soff \in Int /\ map[to].eoff \in Int
    BY <1>2, <1>3
  <2>4. at + Room(map[obj]) - 1 = end
    OBVIOUS
  <2>5. end \in Int /\ at <= end /\ end <= map[to].eoff
    BY ONLY <1>2, <2>1, <2>3, at = map[to].soff, end = map[to].soff + Room(map[obj]) - 1
  <2>. QED BY <2>2, <2>3, <2>4, <2>5
<1>8. NewAt(ms, id, at) \subseteq Span(map[to])
  BY <1>2, <1>3, <1>7 DEF Span
<1>9. Placed(ms2)
  <2>1. Placed(ms)
    BY <1>2, FreshPlaced
  <2>2. NewAt(ms, id, at) \subseteq Span(map[to]) \cup Place(ms[id])
    BY <1>8
  <2>. QED BY <1>2, <1>5, <2>1, <2>2, StaysPlaced
<1>10. \A i \in 1 .. n : i # to => Span(map[i]) \cap Span(map[to]) = {}
  <2>. SUFFICES ASSUME NEW i \in 1 .. n, i # to PROVE Span(map[i]) \cap Span(map[to]) = {}
    OBVIOUS
  <2>1. Ascends(map, 1, n)
    BY <1>2, TilesAscend DEF Fresh
  <2>2. i < to \/ to < i
    BY <1>2
  <2>3. map[i].eoff < map[to].soff \/ map[to].eoff < map[i].soff
    BY <1>2, <2>1, <2>2 DEF Ascends
  <2>4. /\ map[i].soff \in Int /\ map[i].eoff \in Int /\ map[to].soff \in Int /\ map[to].eoff \in Int
    BY <1>2, <1>3
  <2>. QED BY ONLY <2>3, <2>4 DEF Span
<1>. DEFINE Free(q) == \E j \in 1 .. n : /\ q \in Span(map[j])
                                         /\ j = obj \/ (map[j].dt = 0 /\ j # to)
<1>11. ASSUME NEW S, \A q \in S : Free(q)
       PROVE  Clear(ms2, S)
  <2>1. S \subseteq Offsets
    <3>. SUFFICES ASSUME NEW q \in S PROVE q \in Offsets
      OBVIOUS
    <3>1. PICK j \in 1 .. n : q \in Span(map[j])
      BY <1>11
    <3>2. Span(map[j]) \subseteq Offsets
      BY <1>3, SpanIn
    <3>. QED BY <3>1, <3>2
  <2>2. S \cap NewAt(ms, id, at) = {}
    <3>. SUFFICES ASSUME NEW q \in S, q \in NewAt(ms, id, at) PROVE FALSE
      OBVIOUS
    <3>1. PICK j \in 1 .. n : q \in Span(map[j]) /\ j # to
      BY <1>2, <1>11
    <3>. QED BY <1>8, <1>10, <3>1
  <2>3. ASSUME NEW k \in DOMAIN ms \ {id} PROVE Place(ms[k]) \cap S = {}
    <3>. SUFFICES ASSUME NEW q \in S, q \in Place(ms[k]) PROVE FALSE
      OBVIOUS
    <3>1. PICK j \in 1 .. n : q \in Span(map[j]) /\ (j = obj \/ map[j].dt = 0)
      BY <1>11
    <3>2. Place(ms[k]) \cap Span(map[j]) = {}
      BY <1>5, <1>6, <3>1 DEF Clear
    <3>. QED BY <3>1, <3>2
  <2>. HIDE DEF Free
  <2>. QED BY <2>1, <2>2, <2>3, StaysClear
<1>12. ASSUME NEW i \in 1 .. n, mm[i].dt = 0
       PROVE  Clear(ms2, Span(mm[i]))
  <2>0. /\ mm[i].dt = IF i = to THEN 1 ELSE IF split /\ i = obj THEN 0 ELSE map[i].dt
        /\ mm[i].soff = IF split /\ i = obj THEN end + 1
                    ELSE IF beh /\ i = obj + 1
                    THEN IF bef THEN map[obj - 1].soff ELSE map[obj].soff
                    ELSE map[i].soff
        /\ mm[i].eoff = IF split /\ i = to THEN end
                    ELSE IF split /\ i = obj THEN map[to].eoff
                    ELSE IF bef /\ i = obj - 1 THEN map[obj].eoff
                    ELSE map[i].eoff
    <3>. HIDE DEF bef, beh
    <3>. QED BY ONLY <1>1, i \in 1 .. n DEF SplitIs
  <2>1. i # to
    BY <1>12, <2>0
  <2>2. CASE i = obj
    <3>1. split
      BY <1>2, <1>12, <2>0, <2>1, <2>2
    <3>2. mm[i].soff = end + 1 /\ mm[i].eoff = map[to].eoff
      BY <2>0, <2>1, <2>2, <3>1
    <3>3. Span(mm[i]) = end + 1 .. map[to].eoff
      BY <3>2 DEF Span
    <3>4. Span(mm[i]) \subseteq Span(map[to])
      <4>1. map[to].soff \in Int /\ map[to].eoff \in Int /\ map[to].soff <= end + 1
        BY <1>2, <1>3, <1>7
      <4>2. (end + 1 .. map[to].eoff) \subseteq (map[to].soff .. map[to].eoff)
        BY ONLY <1>7, <4>1
      <4>. QED BY <3>3, <4>2 DEF Span
    <3>5. Span(mm[i]) \cap NewAt(ms, id, at) = {}
      BY <3>3, <1>2, <1>3, <1>7
    <3>6. Clear(ms, Span(map[to]))
      BY <1>2, <1>5
    <3>7. Span(mm[i]) \subseteq Offsets /\ \A j \in DOMAIN ms \ {id} : Place(ms[j]) \cap Span(mm[i]) = {}
      BY <3>4, <3>6 DEF Clear
    <3>. QED BY <3>5, <3>7, StaysClear
  <2>3. CASE i # obj
    <3>0. map[i].dt = 0
      BY <1>12, <2>0, <2>1, <2>3
    <3>1. CASE bef /\ i = obj - 1
      <4>1. mm[i].soff = map[i].soff /\ mm[i].eoff = map[obj].eoff
        BY <1>2, <2>0, <2>1, <2>3, <3>1
      <4>2. ASSUME NEW q \in Span(mm[i]) PROVE Free(q)
        <5>1. map[obj].soff = map[i].eoff + 1
          BY <1>2, <1>3, <3>1
        <5>2. q \in map[i].soff .. map[i].eoff \/ q \in map[obj].soff .. map[obj].eoff
          BY <1>2, <1>3, <4>1, <5>1 DEF Span
        <5>. QED BY <1>2, <2>1, <3>0, <5>2 DEF Span
      <4>. HIDE DEF Free
      <4>. QED BY <4>2, <1>11
    <3>2. CASE beh /\ i = obj + 1
      <4>1. mm[i].soff = (IF bef THEN map[obj - 1].soff ELSE map[obj].soff) /\ mm[i].eoff = map[i].eoff
        BY <1>2, <2>0, <2>1, <2>3, <3>2
      <4>2. ASSUME NEW q \in Span(mm[i]) PROVE Free(q)
        <5>1. map[i].soff = map[obj].eoff + 1
          BY <1>2, <1>3, <3>2
        <5>2. CASE bef
          <6>. PICK p \in 1 .. n : p = obj - 1 /\ map[p].dt = 0
            BY <5>2 DEF GapAt
          <6>1. map[obj].soff = map[p].eoff + 1 /\ p # to
            BY <1>2, <1>3
          <6>2. q \in map[p].soff .. map[i].eoff
            BY <4>1, <5>2 DEF Span
          <6>3. \/ q \in map[p].soff .. map[p].eoff \/ q \in map[i].soff .. map[i].eoff
                \/ q \in map[obj].soff .. map[obj].eoff
            BY <1>2, <1>3, <5>1, <6>1, <6>2
          <6>. QED BY <1>2, <2>1, <3>0, <6>1, <6>3 DEF Span
        <5>3. CASE ~bef
          <6>1. q \in map[obj].soff .. map[i].eoff
            BY <4>1, <5>3 DEF Span
          <6>2. \/ q \in map[i].soff .. map[i].eoff \/ q \in map[obj].soff .. map[obj].eoff
            BY <1>2, <1>3, <5>1, <6>1
          <6>. QED BY <1>2, <2>1, <3>0, <6>2 DEF Span
        <5>. QED BY <5>2, <5>3
      <4>. HIDE DEF Free
      <4>. QED BY <4>2, <1>11
    <3>3. CASE ~(bef /\ i = obj - 1) /\ ~(beh /\ i = obj + 1)
      <4>1. mm[i].soff = map[i].soff /\ mm[i].eoff = map[i].eoff
        BY <2>0, <2>1, <2>3, <3>3
      <4>2. \A q \in Span(mm[i]) : Free(q)
        BY <2>1, <3>0, <4>1 DEF Span
      <4>. HIDE DEF Free
      <4>. QED BY <4>2, <1>11
    <3>. QED BY <3>1, <3>2, <3>3
  <2>. QED BY <2>2, <2>3
<1>. QED
  BY <1>1, <1>9, <1>12, AllSafe

(* With more than the file's first block there is room for the message     *)
(* that is sent.                                                           *)
LEMMA By2Fits ==
  ASSUME NEW n \in Nat \ {0}, NEW map \in MapOf(n), NEW ms, NEW obj, NEW to, NEW size \in Nat,
         By2Holds(map, n, ms, obj, to, size), obj # 1,
         NEW mm, mm = MovedOne(map, obj, to)
  PROVE  Fits(mm, size)
<1>. DEFINE bef == GapAt(map, obj - 1, n)
            beh == GapAt(map, obj + 1, n)
            split == Room(map[to]) > Room(map[obj])
<1>. PICK end : end = map[to].soff + Room(map[obj]) - 1
  OBVIOUS
<1>1. mm \in MapOf(n) /\ SplitIs(mm, map, n, obj, to, bef, beh, end, split)
  BY SplitFields
<1>2. /\ to \in 1 .. n /\ obj \in 1 .. n /\ to # obj /\ to # obj - 1 /\ to # obj + 1
      /\ map[to].dt = 0 /\ map[obj].dt = 1 /\ (bef \/ beh)
      /\ Room(map[obj]) + RoomAt(map, obj - 1, n) + RoomAt(map, obj + 1, n) >= size
  BY DEF By2Holds
<1>3. \A i \in 1 .. n :
        /\ map[i].soff \in Int /\ map[i].eoff \in Int
        /\ i < n => map[i + 1].soff = map[i].eoff + 1
        /\ map[i].next = IF i = n THEN NULL ELSE i + 1
        /\ i < n => map[i].dt = 1 \/ map[i + 1].dt = 1
  BY FreshBlock DEF By2Holds
<1>13. to \in 1 .. n /\ obj \in 1 .. n /\ map[to].dt = 0
  BY <1>2
<1>4. /\ bef => obj - 1 \in 1 .. n /\ map[obj - 1].dt = 0
      /\ beh => obj + 1 \in 1 .. n /\ map[obj + 1].dt = 0
      /\ bef => to # obj - 2
  <2>1. /\ bef => obj - 1 \in 1 .. n /\ map[obj - 1].dt = 0
        /\ beh => obj + 1 \in 1 .. n /\ map[obj + 1].dt = 0
    BY DEF GapAt
  <2>2. ASSUME bef, to = obj - 2 PROVE FALSE
    <3>0. map[obj - 1].dt = 0
      BY <2>1, <2>2
    <3>1. to < n /\ to + 1 = obj - 1 /\ map[obj - 1].dt = 0 /\ map[to].dt = 0
      BY ONLY <2>2, <3>0, <1>13, n \in Nat \ {0}
    <3>. QED BY <1>2, <1>3, <3>1
  <2>. QED BY <2>1, <2>2
<1>. HIDE DEF split
<1>5. ASSUME NEW i \in 1 .. n
      PROVE  /\ mm[i].dt = IF i = to THEN 1 ELSE IF split /\ i = obj THEN 0 ELSE map[i].dt
             /\ mm[i].soff = IF split /\ i = obj THEN end + 1
                    ELSE IF beh /\ i = obj + 1
                    THEN IF bef THEN map[obj - 1].soff ELSE map[obj].soff
                    ELSE map[i].soff
             /\ mm[i].eoff = IF split /\ i = to THEN end
                    ELSE IF split /\ i = obj THEN map[to].eoff
                    ELSE IF bef /\ i = obj - 1 THEN map[obj].eoff
                    ELSE map[i].eoff
             /\ mm[i].next = IF split /\ i = to THEN obj
                    ELSE IF split /\ i = obj THEN map[to].next
                    ELSE IF bef /\ i = obj - 1 THEN map[obj].next
                    ELSE IF beh /\ i = (IF bef THEN obj - 2 ELSE obj - 1) THEN obj + 1
                    ELSE map[i].next
  <2>. HIDE DEF bef, beh
  <2>. QED BY ONLY <1>1, i \in 1 .. n DEF SplitIs
<1>. HIDE DEF bef, beh
<1>. DEFINE S == {i \in 1 .. n : /\ i = obj => split
                                 /\ bef /\ beh /\ i = obj - 1 => i = 1}
            Rk(i) == IF i = obj THEN 2 * to + 1 ELSE 2 * i
            r == [i \in 1 .. n |-> Rk(i)]
            g == IF beh THEN obj + 1 ELSE obj - 1
<1>6. \A i \in S : i \in 1 .. n /\ r[i] = Rk(i) /\ Rk(i) \in Int
  BY <1>2
<1>7. g \in S /\ g # obj /\ g \in 1 .. n /\ r[g] = 2 * g
  BY <1>2, <1>4
<1>. HIDE DEF NULL
<1>8. ASSUME NEW i \in S
      PROVE  /\ mm[i].next # NULL => mm[i].next \in S /\ Rk(mm[i].next) > Rk(i)
             /\ Rk(i) < 2 * g => mm[i].next # NULL /\ Rk(mm[i].next) <= 2 * g
  <2>0. i \in 1 .. n
    OBVIOUS
  <2>. PICK nx : nx = mm[i].next
    OBVIOUS
  <2>1. CASE i = to /\ split
    <3>1. nx = obj
      BY <1>5, <2>0, <2>1
    <3>2. obj # NULL
      BY <1>2 DEF NULL
    <3>3. obj \in S /\ Rk(obj) = 2 * to + 1 /\ Rk(i) = 2 * to
      BY <1>2, <1>4, <2>1
    <3>. HIDE DEF S, Rk
    <3>. QED BY <1>2, <1>7, <3>1, <3>2, <3>3
  <2>2. CASE i = obj
    <3>1. split /\ nx = map[to].next
      BY <1>2, <1>5, <2>0, <2>2
    <3>2. nx = IF to = n THEN NULL ELSE to + 1
      BY <1>2, <1>3, <3>1
    <3>3. to # n => to + 1 \in S /\ Rk(to + 1) = 2 * to + 2
      BY <1>2, <1>4
    <3>4. Rk(i) = 2 * to + 1
      BY <2>2
    <3>5. 2 * to + 1 < 2 * g => to # n /\ to + 1 <= g
      BY <1>2, <1>4, <1>7
    <3>6. to + 1 # NULL
      BY <1>2 DEF NULL
    <3>. HIDE DEF S, Rk, g
    <3>. QED BY <1>2, <1>7, <3>2, <3>3, <3>4, <3>5, <3>6
  <2>3. CASE i # obj /\ ~(i = to /\ split)
    <3>1. nx = IF bef /\ i = obj - 1 THEN map[obj].next
               ELSE IF beh /\ i = (IF bef THEN obj - 2 ELSE obj - 1) THEN obj + 1
               ELSE map[i].next
      BY ONLY <1>5, <2>0, <2>3, nx = mm[i].next
    <3>2. Rk(i) = 2 * i
      BY <2>3
    <3>3. CASE i = obj - 1 \/ (bef /\ beh /\ i = obj - 2)
      <4>1. nx = obj + 1 \/ (nx = NULL /\ obj = n /\ i = obj - 1 /\ ~beh)
        BY <1>2, <1>3, <1>4, <3>1, <3>3
      <4>2. obj # n => obj + 1 \in S /\ Rk(obj + 1) = 2 * obj + 2
        BY <1>2
      <4>3. obj + 1 # NULL
        BY <1>2 DEF NULL
      <4>4. 2 * i < 2 * g => beh
        BY <1>2, <1>4, <3>3
      <4>5. beh => g = obj + 1 /\ obj # n
        BY <1>2, <1>4
      <4>6. nx = obj + 1 => obj # n
        BY <1>2, <1>3, <1>4, <3>1, <3>3 DEF NULL
      <4>. HIDE DEF S, Rk, g
      <4>. QED BY <1>2, <1>7, <2>0, <3>2, <3>3, <4>1, <4>2, <4>3, <4>4, <4>5, <4>6
    <3>4. CASE ~(i = obj - 1 \/ (bef /\ beh /\ i = obj - 2))
      <4>1. nx = IF i = n THEN NULL ELSE i + 1
        BY <1>2, <1>3, <2>0, <3>1, <3>4
      <4>2. i # n => i + 1 \in S /\ Rk(i + 1) = 2 * i + 2
        BY <1>2, <2>0, <2>3, <3>4
      <4>3. 2 * i < 2 * g => i # n /\ i + 1 <= g
        BY <1>2, <1>7, <2>0
      <4>4. i + 1 # NULL
        BY <2>0 DEF NULL
      <4>. HIDE DEF S, Rk, g
      <4>. QED BY <1>7, <2>0, <3>2, <4>1, <4>2, <4>3, <4>4
    <3>. QED BY <3>3, <3>4
  <2>. QED BY <2>1, <2>2, <2>3
<1>9. Ranked(mm, S, r, n)
  <2>1. S \subseteq 1 .. n /\ 1 \in S /\ r \in [1 .. n -> Int]
    BY <1>2
  <2>2. \A i \in S : mm[i].next # NULL => mm[i].next \in S /\ r[mm[i].next] > r[i]
    <3>. HIDE DEF S, Rk, r
    <3>. QED BY <1>6, <1>8
  <2>. HIDE DEF S, r
  <2>. QED BY ONLY <2>1, <2>2 DEF Ranked
<1>10. Leads(mm, S, r, g)
  <2>1. 1 \in S /\ Rk(1) = 2 /\ 1 <= g
    BY <1>2, <1>7
  <2>2. r[1] <= r[g]
    <3>. HIDE DEF S, Rk, r, g
    <3>. QED BY <1>6, <1>7, <2>1
  <2>3. \A i \in S : r[i] < r[g] => mm[i].next # NULL /\ r[mm[i].next] <= r[g]
    <3>. SUFFICES ASSUME NEW i \in S, r[i] < r[g]
                  PROVE  mm[i].next # NULL /\ r[mm[i].next] <= r[g]
      OBVIOUS
    <3>. HIDE DEF S, Rk, r, g
    <3>1. Rk(i) < 2 * g
      BY <1>6, <1>7
    <3>2. mm[i].next # NULL /\ Rk(mm[i].next) <= 2 * g /\ mm[i].next \in S
      BY <1>8, <3>1
    <3>. QED BY <1>6, <1>7, <3>2
  <2>4. \A i \in S : r[i] = r[g] => i = g
    <3>. SUFFICES ASSUME NEW i \in S, r[i] = r[g] PROVE i = g
      OBVIOUS
    <3>1. Rk(i) = 2 * g /\ i \in 1 .. n
      BY ONLY <1>6, <1>7, i \in S, r[i] = r[g]
    <3>2. 2 * to + 1 # 2 * g
      BY <1>2, <1>7
    <3>. QED BY <1>7, <3>1, <3>2
  <2>. HIDE DEF S, r, g
  <2>. QED BY ONLY <2>2, <2>3, <2>4 DEF Leads
<1>11. mm[g].dt = 0 /\ Room(mm[g]) >= size
  <2>1. CASE beh
    <3>. PICK x \in 1 .. n : x = obj + 1 /\ map[x].dt = 0
      BY <1>4, <2>1
    <3>1. g = x
      BY <2>1
    <3>. HIDE DEF g
    <3>2. mm[x].dt = 0 /\ mm[x].soff = (IF bef THEN map[obj - 1].soff ELSE map[obj].soff) /\ mm[x].eoff = map[x].eoff
      BY <1>2, <1>5, <2>1
    <3>3. map[x].soff = map[obj].eoff + 1
      BY <1>2, <1>3
    <3>4. RoomAt(map, x, n) = Room(map[x])
      BY DEF RoomAt, GapAt
    <3>5. CASE bef
      <4>. PICK p \in 1 .. n : p = obj - 1 /\ map[p].dt = 0
        BY <1>4, <3>5
      <4>1. map[obj].soff = map[p].eoff + 1
        BY <1>2, <1>3
      <4>2. RoomAt(map, obj - 1, n) = Room(map[p])
        BY DEF RoomAt, GapAt
      <4>3. Room(map[obj]) + Room(map[p]) + Room(map[x]) >= size
        BY <1>2, <3>4, <4>2
      <4>4. mm[x].soff = map[p].soff
        BY <3>2, <3>5
      <4>. QED BY <1>2, <1>3, <3>1, <3>2, <3>3, <4>1, <4>3, <4>4 DEF Room
    <3>6. CASE ~bef
      <4>1. RoomAt(map, obj - 1, n) = 0
        BY <3>6 DEF RoomAt, bef
      <4>2. Room(map[obj]) + Room(map[x]) >= size
        BY <1>2, <1>3, <3>4, <4>1 DEF Room
      <4>3. mm[x].soff = map[obj].soff
        BY <3>2, <3>6
      <4>. QED BY <1>2, <1>3, <3>1, <3>2, <3>3, <4>2, <4>3 DEF Room
    <3>. QED BY <3>5, <3>6
  <2>2. CASE ~beh
    <3>0. bef
      BY <1>2, <2>2
    <3>. PICK p \in 1 .. n : p = obj - 1 /\ map[p].dt = 0
      BY <1>4, <3>0
    <3>1. g = p
      BY <2>2
    <3>. HIDE DEF g
    <3>2. mm[p].dt = 0 /\ mm[p].soff = map[p].soff /\ mm[p].eoff = map[obj].eoff
      BY <1>2, <1>5, <2>2, <3>0
    <3>3. map[obj].soff = map[p].eoff + 1
      BY <1>2, <1>3
    <3>4. RoomAt(map, obj - 1, n) = Room(map[p])
      BY DEF RoomAt, GapAt
    <3>5. RoomAt(map, obj + 1, n) = 0
      BY <2>2 DEF RoomAt, beh
    <3>6. Room(map[obj]) + Room(map[p]) >= size
      BY <1>2, <1>3, <3>4, <3>5 DEF Room
    <3>. QED BY <1>2, <1>3, <3>1, <3>2, <3>3, <3>6 DEF Room
  <2>. QED BY <2>1, <2>2
<1>. HIDE DEF S, r, g
<1>12. g \in S /\ mm \in MapOf(n)
  BY ONLY <1>1, <1>7
<1>. QED
  BY ONLY n \in Nat \ {0}, <1>9, <1>10, <1>11, <1>12, RankedFits

(* The gap that DataCompress_3 pushes along and the blocks behind it.      *)
LEMMA ChainGap ==
  ASSUME NEW n \in Nat \ {0}, NEW map \in MapOf(n), NEW ms, NEW to, Chain(ms, map, to, n)
  PROVE  /\ to \in 1 .. n /\ map[to].dt = 0
         /\ map[to].soff \in Int /\ map[to].eoff \in Int
         /\ 0 <= map[to].soff /\ map[to].soff <= map[to].eoff
         /\ Clear(ms, Span(map[to]))
         /\ map[to].next \in 0 .. n
         /\ map[to].next = NULL => map[to].eoff = QBytes - 1
         /\ \E live \in SUBSET (1 .. to) :
              /\ 1 \in live /\ to \in live
              /\ \A i \in live \ {to} : map[i].dt = 1 /\ map[i].next \in live /\ map[i].next > i
<1>1. to \in 1 .. n
  BY DEF Chain
<1>2. map[to].soff \in Int /\ map[to].eoff \in Int /\ map[to].next \in 0 .. n
  BY <1>1, BlockType
<1>. QED
  BY <1>1, <1>2 DEF Chain

LEMMA ChainTail ==
  ASSUME NEW n \in Nat \ {0}, NEW map \in MapOf(n), NEW ms, Messages(ms), NEW to,
         Chain(ms, map, to, n), NEW obj, obj = map[to].next, obj # NULL
  PROVE  /\ obj \in 1 .. n /\ to < obj /\ map[obj].dt = 1 /\ map[obj].soff = map[to].eoff + 1
         /\ Linked(map, obj, n) /\ Tiles(map, obj, n) /\ Named(ms, map, obj, n)
         /\ Ascends(map, obj, n) /\ Lies(map, obj, n)
         /\ map[obj].id \in DOMAIN ms /\ Span(map[obj]) = Place(ms[map[obj].id])
         /\ map[obj].soff = ms[map[obj].id].whence
         /\ Room(map[obj]) = ms[map[obj].id].mbytes
         /\ \A i \in obj .. n : map[i].dt = 0 => Clear(ms, Span(map[i]))
<1>1. map[to].next \in 0 .. n
  BY ChainGap
<1>2. obj \in 1 .. n
  BY <1>1 DEF NULL
<1>3. /\ to < obj /\ map[obj].dt = 1 /\ map[obj].soff = map[to].eoff + 1
      /\ Linked(map, obj, n) /\ Tiles(map, obj, n) /\ Named(ms, map, obj, n)
      /\ \A i \in obj .. n : map[i].dt = 0 => Clear(ms, Span(map[i]))
  BY DEF Chain
<1>4. Ascends(map, obj, n) /\ Lies(map, obj, n)
  BY <1>2, <1>3, TilesAscend, TilesLie
<1>5. obj \in obj .. n
  BY <1>2
<1>6. /\ map[obj].id \in DOMAIN ms /\ Span(map[obj]) = Place(ms[map[obj].id])
      /\ map[obj].soff = ms[map[obj].id].whence
      /\ Room(map[obj]) = ms[map[obj].id].mbytes
  BY <1>2, <1>3, <1>5, NamedSpan
<1>. QED
  BY <1>2, <1>3, <1>4, <1>6

ChainMoved(ms, ms2, mm, obj, n, id, at) ==
  /\ Placed(ms2) /\ mm \in MapOf(n) /\ Chain(ms2, mm, obj, n)
  /\ mm[obj].soff = at + ms[id].mbytes

(* What DataCompress_3 makes of the map.                                   *)
IsExchanged(mm, map, to, obj, m) == mm = Exchanged(map, to, obj, m)

LEMMA By3 ==
  ASSUME NEW n \in Nat \ {0}, NEW map \in MapOf(n), NEW ms, Messages(ms), Placed(ms),
         NEW to, Chain(ms, map, to, n), NEW obj, obj = map[to].next, obj # NULL,
         NEW id, id = map[obj].id, NEW at, at = map[to].soff,
         NEW ms2, MovedTo(ms, ms2, id, at),
         NEW mm, IsExchanged(mm, map, to, obj, ms[id].mbytes)
  PROVE  ChainMoved(ms, ms2, mm, obj, n, id, at)
<1>0. PICK m : m = ms[id].mbytes
  OBVIOUS
<1>. PICK end : end = map[to].soff + m - 1
  OBVIOUS
<1>. PICK y : y = map[obj].next
  OBVIOUS
<1>. DEFINE join == y # NULL /\ map[y].dt = 0
<1>1. /\ to \in 1 .. n /\ map[to].dt = 0
      /\ map[to].soff \in Int /\ map[to].eoff \in Int
      /\ 0 <= map[to].soff /\ map[to].soff <= map[to].eoff
      /\ Clear(ms, Span(map[to]))
  BY ChainGap
<1>2. /\ obj \in 1 .. n /\ to < obj /\ map[obj].dt = 1 /\ map[obj].soff = map[to].eoff + 1
      /\ id \in DOMAIN ms /\ Span(map[obj]) = Place(ms[id])
      /\ map[obj].soff = ms[id].whence /\ Room(map[obj]) = m
  BY <1>0, ChainTail
<1>3. Linked(map, obj, n) /\ Tiles(map, obj, n) /\ Named(ms, map, obj, n)
      /\ Ascends(map, obj, n) /\ Lies(map, obj, n)
  BY ChainTail
<1>4. \A i \in obj .. n : map[i].dt = 0 => Clear(ms, Span(map[i]))
  BY ChainTail
<1>5. \A i \in obj .. n :
        /\ i \in 1 .. n
        /\ map[i].soff \in Int /\ map[i].eoff \in Int /\ map[i].soff <= map[i].eoff
        /\ map[i].eoff <= QBytes - 1
        /\ i < n => map[i + 1].soff = map[i].eoff + 1
        /\ i < n => map[i].dt = 1 \/ map[i + 1].dt = 1
        /\ map[i].next = IF i = n THEN NULL ELSE i + 1
        /\ i > obj => map[i].prev = i - 1
        /\ i > obj => map[obj].eoff < map[i].soff
        /\ map[i].dt \in {0, 1}
  <2>1. \A i \in obj .. n : i \in 1 .. n /\ map[i].dt \in {0, 1}
    BY <1>2, BlockType
  <2>2. \A i \in obj .. n : /\ i < n => map[i + 1].soff = map[i].eoff + 1
                            /\ i < n => map[i].dt = 1 \/ map[i + 1].dt = 1
    BY ONLY <1>3 DEF Tiles
  <2>3. \A i \in obj .. n : /\ map[i].next = IF i = n THEN NULL ELSE i + 1
                            /\ i > obj => map[i].prev = i - 1
    BY ONLY <1>3 DEF Linked
  <2>4. \A i \in obj .. n : /\ map[i].soff \in Int /\ map[i].eoff \in Int /\ map[i].soff <= map[i].eoff
                            /\ map[i].eoff <= QBytes - 1
    BY ONLY <1>3 DEF Lies
  <2>5. \A i \in obj .. n : i > obj => map[obj].eoff < map[i].soff
    BY ONLY <1>2, <1>3, n \in Nat \ {0} DEF Ascends
  <2>. QED BY ONLY <2>1, <2>2, <2>3, <2>4, <2>5
<1>6. map[obj].soff \in Int /\ map[obj].eoff \in Int /\ map[obj].soff <= map[obj].eoff
      /\ map[obj].eoff <= QBytes - 1 /\ y = (IF obj = n THEN NULL ELSE obj + 1)
  BY <1>2, <1>5
<1>7. /\ m \in Int /\ m >= 1 /\ end \in Int /\ end < map[obj].eoff /\ at <= end + 1
      /\ end + Room(map[to]) = map[obj].eoff
  <2>1. m = map[obj].eoff - map[obj].soff + 1
    BY <1>2 DEF Room
  <2>2. end + Room(map[to]) = map[obj].eoff
    BY <1>1, <1>2, <1>6, <2>1 DEF Room
  <2>. QED BY <1>1, <1>2, <1>6, <2>1, <2>2
<1>8. mm \in MapOf(n) /\ ExchangedIs(mm, map, n, to, obj, end, y, join)
  <2>1. mm = Exchanged(map, to, obj, m)
    BY <1>0 DEF IsExchanged
  <2>2. to \in 1 .. n /\ obj \in 1 .. n /\ m \in Int
    BY <1>1, <1>2, <1>7
  <2>3. /\ mm \in MapOf(n)
        /\ ExchangedIs(mm, map, n, to, obj, end, y, y # NULL /\ map[y].dt = 0)
    BY ONLY <2>1, <2>2, n \in Nat \ {0}, map \in MapOf(n), y = map[obj].next,
            end = map[to].soff + m - 1, ExchangedFields
  <2>. QED BY ONLY <2>3
<1>9. ASSUME NEW i \in 1 .. n
      PROVE  /\ mm[i].dt = IF i = obj THEN 0 ELSE IF i = to THEN 1 ELSE map[i].dt
             /\ i > obj => mm[i].id = map[i].id
             /\ mm[i].soff = IF i = obj THEN end + 1 ELSE map[i].soff
             /\ mm[i].eoff = IF i = obj THEN IF join THEN map[y].eoff ELSE map[obj].eoff
                             ELSE IF i = to THEN end ELSE map[i].eoff
             /\ mm[i].prev = IF join /\ i = map[y].next THEN obj ELSE map[i].prev
             /\ mm[i].next = IF join /\ i = obj THEN map[y].next ELSE map[i].next
  <2>. HIDE DEF join
  <2>. QED BY ONLY <1>1, <1>2, <1>7, <1>8, i \in 1 .. n, n \in Nat \ {0} DEF ExchangedIs
<1>10. NewAt(ms, id, at) = at .. end /\ at \in Int
  BY <1>0, <1>1 DEF NewAt
<1>11. at .. end \subseteq map[to].soff .. map[obj].eoff
  BY ONLY <1>1, <1>2, <1>6, <1>7, <1>10, at = map[to].soff
<1>12. map[to].soff .. map[obj].eoff = Span(map[to]) \cup Span(map[obj])
  <2>1. map[to].soff .. map[obj].eoff = (map[to].soff .. map[to].eoff) \cup (map[obj].soff .. map[obj].eoff)
    BY ONLY <1>1, <1>2, <1>6
  <2>. QED BY <2>1 DEF Span
<1>13. NewAt(ms, id, at) \subseteq Span(map[to]) \cup Place(ms[id])
  BY <1>2, <1>10, <1>11, <1>12
<1>14. Placed(ms2)
  BY <1>1, <1>13, StaysPlaced
<1>15. \A j \in DOMAIN ms \ {id} : Place(ms[j]) \cap Place(ms[id]) = {}
  BY <1>2 DEF Placed
<1>16. ASSUME NEW i \in obj .. n, i > obj, map[i].dt = 0
       PROVE  Clear(ms2, Span(map[i]))
  <2>1. Clear(ms, Span(map[i]))
    BY <1>4, <1>16
  <2>2. map[i].soff \in Int /\ map[i].eoff \in Int /\ map[obj].eoff < map[i].soff
    BY <1>5, <1>16
  <2>3. (map[i].soff .. map[i].eoff) \cap (map[to].soff .. map[obj].eoff) = {}
    BY ONLY <1>1, <1>6, <2>2
  <2>4. Span(map[i]) \cap NewAt(ms, id, at) = {}
    BY <1>10, <1>11, <2>3 DEF Span
  <2>. QED BY <2>1, <2>4, StaysClear DEF Clear
<1>17. Clear(ms2, Span(mm[obj]))
  <2>1. mm[obj].soff = end + 1 /\ mm[obj].eoff = IF join THEN map[y].eoff ELSE map[obj].eoff
    BY Zenon, <1>2, <1>9
  <2>2. Span(map[to]) \subseteq Offsets /\ Span(map[obj]) \subseteq Offsets
    BY <1>1, <1>2 DEF Clear, Placed
  <2>3. \A j \in DOMAIN ms \ {id} : /\ Place(ms[j]) \cap Span(map[to]) = {}
                                    /\ Place(ms[j]) \cap Span(map[obj]) = {}
    BY <1>1, <1>2, <1>15 DEF Clear
  <2>4. CASE join
    <3>1. y = obj + 1 /\ y \in obj .. n /\ map[y].dt = 0 /\ map[y].soff = map[obj].eoff + 1
      BY <1>2, <1>5, <1>6, <2>4
    <3>2. map[y].soff \in Int /\ map[y].eoff \in Int /\ map[y].soff <= map[y].eoff
      BY <1>5, <3>1
    <3>3. Clear(ms, Span(map[y]))
      BY <1>4, <3>1
    <3>4. mm[obj].eoff = map[y].eoff
      BY <2>1, <2>4
    <3>5. (end + 1 .. map[y].eoff) \subseteq (map[to].soff .. map[obj].eoff) \cup (map[y].soff .. map[y].eoff)
      BY ONLY <1>1, <1>6, <1>7, <3>1, <3>2, at = map[to].soff
    <3>6. Span(mm[obj]) \subseteq Span(map[to]) \cup Span(map[obj]) \cup Span(map[y])
      BY Zenon, <1>12, <2>1, <3>4, <3>5 DEF Span
    <3>7. Span(mm[obj]) \cap NewAt(ms, id, at) = {}
      <4>1. (end + 1 .. map[y].eoff) \cap (at .. end) = {}
        BY ONLY <1>7, <1>10, <3>2
      <4>. QED BY Zenon, <1>10, <2>1, <3>4, <4>1 DEF Span
    <3>8. Span(mm[obj]) \subseteq Offsets
      BY <2>2, <3>3, <3>6 DEF Clear
    <3>9. \A j \in DOMAIN ms \ {id} : Place(ms[j]) \cap Span(mm[obj]) = {}
      BY <2>3, <3>3, <3>6 DEF Clear
    <3>. QED BY ONLY <3>7, <3>8, <3>9, MovedTo(ms, ms2, id, at), StaysClear
  <2>5. CASE ~join
    <3>1. mm[obj].eoff = map[obj].eoff
      BY <2>1, <2>5
    <3>2. (end + 1 .. map[obj].eoff) \subseteq (map[to].soff .. map[obj].eoff)
      <4>1. map[to].soff \in Int /\ end + 1 \in Int /\ map[to].soff <= end + 1
        BY ONLY <1>1, <1>7, at = map[to].soff
      <4>. QED BY ONLY <4>1
    <3>3. Span(mm[obj]) \subseteq Span(map[to]) \cup Span(map[obj])
      BY Zenon, <1>12, <2>1, <3>1, <3>2 DEF Span
    <3>4. Span(mm[obj]) \cap NewAt(ms, id, at) = {}
      <4>1. (end + 1 .. map[obj].eoff) \cap (at .. end) = {}
        BY ONLY <1>7, <1>10, <1>6
      <4>. QED BY <1>10, <2>1, <3>1, <4>1 DEF Span
    <3>5. Span(mm[obj]) \subseteq Offsets
      BY <2>2, <3>3
    <3>6. \A j \in DOMAIN ms \ {id} : Place(ms[j]) \cap Span(mm[obj]) = {}
      BY <2>3, <3>3
    <3>. QED BY ONLY <3>4, <3>5, <3>6, MovedTo(ms, ms2, id, at), StaysClear
  <2>. QED BY <2>4, <2>5
<1>18. \E live \in SUBSET (1 .. obj) :
         /\ 1 \in live /\ obj \in live
         /\ \A i \in live \ {obj} : mm[i].dt = 1 /\ mm[i].next \in live /\ mm[i].next > i
  <2>1. PICK live \in SUBSET (1 .. to) :
          /\ 1 \in live /\ to \in live
          /\ \A i \in live \ {to} : map[i].dt = 1 /\ map[i].next \in live /\ map[i].next > i
    BY ChainGap
  <2>. PICK l2 : l2 = live \cup {obj}
    OBVIOUS
  <2>2. l2 \in SUBSET (1 .. obj) /\ 1 \in l2 /\ obj \in l2
    <3>1. to \in Int /\ obj \in Int /\ to < obj /\ 1 <= to
      BY ONLY <1>1, <1>2, n \in Nat \ {0}
    <3>2. live \in SUBSET (1 .. to) /\ 1 \in live
      BY <2>1
    <3>3. (1 .. to) \subseteq (1 .. obj) /\ obj \in 1 .. obj
      BY ONLY <3>1
    <3>. QED BY ONLY <3>2, <3>3, l2 = live \cup {obj}
  <2>3. ASSUME NEW i \in l2 \ {obj} PROVE mm[i].dt = 1 /\ mm[i].next \in l2 /\ mm[i].next > i
    <3>1. i \in live /\ i \in 1 .. n /\ i # obj
      BY <1>1, <2>1
    <3>2. mm[i].next = map[i].next /\ mm[i].dt = (IF i = to THEN 1 ELSE map[i].dt)
      <4>. HIDE DEF join
      <4>. QED BY <1>9, <3>1
    <3>3. CASE i = to
      BY <1>1, <1>2, <3>2, <3>3
    <3>4. CASE i # to
      <4>1. map[i].dt = 1 /\ map[i].next \in live /\ map[i].next > i
        BY <2>1, <3>1, <3>4
      <4>. QED BY <3>2, <3>4, <4>1
    <3>. QED BY <3>3, <3>4
  <2>. QED BY <2>2, <2>3
<1>. PICK x : x = mm[obj].next
  OBVIOUS
<1>19. /\ x = NULL \/ (x \in 1 .. n /\ x > obj)
       /\ x = NULL => mm[obj].eoff = QBytes - 1
       /\ x # NULL => /\ map[x].dt = 1 /\ map[x].soff = mm[obj].eoff + 1
                      /\ join => x = map[y].next
                      /\ join => map[y].next = y + 1 /\ y = obj + 1
                      /\ ~join => x = obj + 1
  <2>0. map[n].eoff = QBytes - 1
    BY ONLY <1>3 DEF Tiles
  <2>1. CASE join
    <3>1. y = obj + 1 /\ y \in obj .. n /\ map[y].dt = 0
      BY <1>2, <1>6, <2>1
    <3>2. x = map[y].next /\ mm[obj].eoff = map[y].eoff
      BY <1>2, <1>9, <2>1
    <3>3. map[y].next = IF y = n THEN NULL ELSE y + 1
      BY <1>5, <3>1
    <3>4. y < n => map[y + 1].dt = 1 /\ map[y + 1].soff = map[y].eoff + 1
      BY <1>5, <3>1
    <3>5. y = n \/ y < n
      BY <3>1
    <3>6. y + 1 # NULL
      BY <3>1, <1>2 DEF NULL
    <3>. QED BY <1>2, <2>0, <2>1, <3>1, <3>2, <3>3, <3>4, <3>5, <3>6
  <2>2. CASE ~join
    <3>1. x = y /\ mm[obj].eoff = map[obj].eoff
      BY Zenon, <1>2, <1>9, <2>2
    <3>2. y # NULL => map[y].dt = 1 /\ y = obj + 1 /\ y \in 1 .. n
      <4>1. y # NULL => y = obj + 1 /\ y \in obj .. n
        BY <1>2, <1>6
      <4>2. y # NULL => map[y].dt \in {0, 1} /\ y \in 1 .. n
        BY <1>5, <4>1
      <4>. QED BY <2>2, <4>1, <4>2
    <3>3. obj < n => map[obj + 1].soff = map[obj].eoff + 1
      BY <1>2, <1>5
    <3>4. y = NULL => obj = n
      BY <1>2, <1>6 DEF NULL
    <3>. QED BY <1>2, <2>0, <2>2, <3>1, <3>2, <3>3, <3>4
  <2>. QED BY Zenon, <2>1, <2>2
<1>20. ASSUME x # NULL
       PROVE  /\ mm[x].dt = 1 /\ mm[x].soff = mm[obj].eoff + 1
              /\ Linked(mm, x, n) /\ Tiles(mm, x, n) /\ Named(ms2, mm, x, n)
  <2>0. x \in 1 .. n /\ x > obj /\ map[x].dt = 1 /\ map[x].soff = mm[obj].eoff + 1
    BY <1>19, <1>20
  <2>10. x \in 1 .. n /\ x > obj /\ obj \in 1 .. n /\ to \in 1 .. n /\ to < obj
    BY ONLY <1>1, <1>2, <2>0
  <2>11. \A i \in x .. n : i \in 1 .. n /\ i \in obj .. n /\ i # obj /\ i # to /\ i > obj
    BY ONLY <2>10, n \in Nat \ {0}
  <2>1. ASSUME NEW i \in x .. n
        PROVE  /\ mm[i].dt = map[i].dt /\ mm[i].soff = map[i].soff /\ mm[i].eoff = map[i].eoff
               /\ mm[i].id = map[i].id /\ mm[i].next = map[i].next
               /\ i > x => mm[i].prev = map[i].prev
    <3>1. i \in 1 .. n /\ i # obj /\ i # to /\ i > obj
      BY <2>11
    <3>2. i > x => ~(join /\ i = map[y].next)
      <4>1. join => x = map[y].next
        BY <1>19, <1>20
      <4>2. i > x => i # x
        BY ONLY <2>10, i \in x .. n
      <4>. HIDE DEF join
      <4>. QED BY ONLY <4>1, <4>2
    <3>. HIDE DEF join
    <3>. QED BY ONLY <1>9, <3>1, <3>2
  <2>2. x \in x .. n
    BY ONLY <2>10, n \in Nat \ {0}
  <2>3. mm[x].dt = 1 /\ mm[x].soff = mm[obj].eoff + 1
    BY <2>0, <2>1, <2>2
  <2>4. Linked(mm, x, n)
    <3>. SUFFICES ASSUME NEW i \in x .. n
                  PROVE  /\ mm[i].next = IF i = n THEN NULL ELSE i + 1
                         /\ i > x => mm[i].prev = i - 1
      BY DEF Linked
    <3>1. i \in obj .. n /\ i > obj
      BY <2>11
    <3>2. i > x => i > obj
      BY ONLY <2>10, i \in x .. n
    <3>3. map[i].next = (IF i = n THEN NULL ELSE i + 1) /\ (i > obj => map[i].prev = i - 1)
      BY ONLY <1>5, <3>1
    <3>. QED BY ONLY <2>1, <3>1, <3>2, <3>3, i \in x .. n
  <2>5. Tiles(mm, x, n)
    <3>1. ASSUME NEW i \in x .. n
          PROVE  /\ mm[i].soff <= mm[i].eoff
                 /\ i < n => /\ mm[i + 1].soff = mm[i].eoff + 1
                             /\ mm[i].dt = 1 \/ mm[i + 1].dt = 1
      <4>1. i \in obj .. n
        BY <2>11
      <4>2. i < n => i + 1 \in x .. n
        BY ONLY <2>10, i \in x .. n, n \in Nat \ {0}
      <4>3. map[i].soff <= map[i].eoff
        BY <1>5, <4>1
      <4>4. i < n => map[i + 1].soff = map[i].eoff + 1 /\ (map[i].dt = 1 \/ map[i + 1].dt = 1)
        BY <1>5, <4>1
      <4>. QED BY ONLY <2>1, <4>2, <4>3, <4>4, i \in x .. n
    <3>2. n \in x .. n
      BY ONLY <2>10, n \in Nat \ {0}
    <3>3. mm[n].eoff = QBytes - 1
      <4>1. map[n].eoff = QBytes - 1
        BY ONLY <1>3 DEF Tiles
      <4>. QED BY <2>1, <3>2, <4>1
    <3>. QED BY ONLY <3>1, <3>3 DEF Tiles
  <2>6. Named(ms2, mm, x, n)
    <3>. SUFFICES ASSUME NEW i \in x .. n, mm[i].dt = 1
                  PROVE  /\ mm[i].id \in DOMAIN ms2
                         /\ mm[i].soff = ms2[mm[i].id].whence
                         /\ mm[i].eoff = mm[i].soff + ms2[mm[i].id].mbytes - 1
      BY DEF Named
    <3>1. i \in obj .. n /\ i > obj /\ map[i].dt = 1
      BY <2>11, <2>1
    <3>2. /\ map[i].id \in DOMAIN ms /\ map[i].soff = ms[map[i].id].whence
          /\ map[i].eoff = map[i].soff + ms[map[i].id].mbytes - 1
      BY <1>3, <3>1 DEF Named
    <3>3. map[obj].eoff < map[i].soff /\ map[i].soff \in Int
      BY <1>5, <3>1
    <3>4. map[i].id # id
      BY <1>2, <1>6, <3>2, <3>3
    <3>5. ms2[map[i].id] = ms[map[i].id] /\ DOMAIN ms2 = DOMAIN ms
      BY <3>2, <3>4 DEF MovedTo
    <3>6. mm[i].id = map[i].id /\ mm[i].soff = map[i].soff /\ mm[i].eoff = map[i].eoff
      BY ONLY <2>1, i \in x .. n
    <3>. QED BY ONLY <3>2, <3>5, <3>6
  <2>. QED BY <2>3, <2>4, <2>5, <2>6
<1>21. \A i \in 1 .. n : i > obj /\ mm[i].dt = 0 => Clear(ms2, Span(mm[i]))
  <2>. SUFFICES ASSUME NEW i \in 1 .. n, i > obj, mm[i].dt = 0 PROVE Clear(ms2, Span(mm[i]))
    OBVIOUS
  <2>1. i # obj /\ i # to /\ i \in obj .. n
    BY <1>1, <1>2
  <2>2. map[i].dt = 0 /\ mm[i].soff = map[i].soff /\ mm[i].eoff = map[i].eoff
    <3>. HIDE DEF join
    <3>. QED BY <1>9, <2>1
  <2>. QED BY <1>16, <2>1, <2>2 DEF Span
<1>22. mm[obj].dt = 0 /\ mm[obj].soff = end + 1 /\ 0 <= mm[obj].soff /\ mm[obj].soff <= mm[obj].eoff
  <2>1. mm[obj].dt = 0 /\ mm[obj].soff = end + 1 /\ mm[obj].eoff = IF join THEN map[y].eoff ELSE map[obj].eoff
    BY Zenon, <1>2, <1>9
  <2>2. 0 <= end + 1 /\ end + 1 <= map[obj].eoff
    BY ONLY <1>1, <1>6, <1>7, at = map[to].soff
  <2>3. join => map[y].eoff \in Int /\ map[obj].eoff <= map[y].eoff
    <3>1. join => y = obj + 1 /\ y \in obj .. n
      BY <1>2, <1>6
    <3>2. join => map[y].eoff \in Int /\ map[y].soff \in Int /\ map[obj].eoff < map[y].soff /\ map[y].soff <= map[y].eoff
      BY <1>2, <1>5, <3>1
    <3>. QED BY <1>6, <3>2
  <2>4. mm[obj].eoff \in Int /\ map[obj].eoff <= mm[obj].eoff
    <3>. HIDE DEF join
    <3>. QED BY ONLY <1>6, <2>1, <2>3
  <2>. QED BY ONLY <1>6, <1>7, <2>1, <2>2, <2>4
<1>23. mm[obj].soff = at + ms[id].mbytes
  <2>1. end + 1 = at + m
    BY ONLY <1>1, <1>7, at = map[to].soff, end = map[to].soff + m - 1
  <2>. QED BY ONLY <1>22, <2>1, m = ms[id].mbytes
<1>24. Chain(ms2, mm, obj, n)
  <2>. HIDE DEF join
  <2>. DEFINE f == IF x = NULL THEN n + 1 ELSE x
  <2>1. obj < f /\ \A i \in f .. n : i \in 1 .. n /\ i > obj
    BY ONLY <1>2, <1>19, n \in Nat \ {0}
  <2>2. \A i \in f .. n : mm[i].dt = 0 => Clear(ms2, Span(mm[i]))
    BY <1>21, <2>1
  <2>3. IF x = NULL THEN mm[obj].eoff = QBytes - 1
        ELSE /\ mm[x].dt = 1 /\ mm[x].soff = mm[obj].eoff + 1
             /\ Linked(mm, x, n) /\ Tiles(mm, x, n) /\ Named(ms2, mm, x, n)
    BY <1>19, <1>20
  <2>. QED BY ONLY <1>2, <1>17, <1>18, <1>22, <2>1, <2>2, <2>3, x = mm[obj].next DEF Chain
<1>. QED
  BY <1>8, <1>14, <1>23, <1>24 DEF ChainMoved

LEMMA ChainCovers ==
  ASSUME NEW n \in Nat \ {0}, NEW map \in MapOf(n), NEW ms, Messages(ms),
         NEW to, Chain(ms, map, to, n), NEW obj, obj = map[to].next, obj # NULL,
         NEW id, id = map[obj].id, NEW at, at = map[to].soff,
         NEW ms2, MovedTo(ms, ms2, id, at), Covered(ms, 0 .. at - 1)
  PROVE  Covered(ms2, 0 .. at + ms[id].mbytes - 1)
<1>1. at \in Int /\ map[to].eoff \in Int /\ at <= map[to].eoff
  BY ChainGap
<1>2. id \in DOMAIN ms /\ map[to].eoff + 1 = ms[id].whence
  BY ChainTail
<1>3. ms[id].mbytes \in Int
  BY <1>2 DEF Messages
<1>. SUFFICES ASSUME NEW q \in 0 .. at + ms[id].mbytes - 1
              PROVE  \E j \in DOMAIN ms2 : q \in Place(ms2[j])
  BY DEF Covered
<1>4. CASE q \in 0 .. at - 1
  <2>1. PICK j \in DOMAIN ms : q \in Place(ms[j])
    BY <1>4 DEF Covered
  <2>2. j # id
    BY <1>1, <1>2, <1>3, <1>4, <2>1 DEF Place
  <2>. QED BY <2>1, <2>2 DEF MovedTo
<1>5. CASE q \notin 0 .. at - 1
  <2>1. q \in at .. at + ms[id].mbytes - 1
    BY <1>1, <1>3, <1>5
  <2>. QED BY <1>2, <2>1 DEF MovedTo, Place
<1>. QED
  BY <1>4, <1>5

LEMMA MessagesFinite ==
  ASSUME NEW ms, Messages(ms), NEW S \in SUBSET DOMAIN ms
  PROVE  IsFiniteSet(S) /\ Cardinality(S) \in Nat /\ Cardinality(S) <= Cardinality(DOMAIN ms)
         /\ Cardinality(DOMAIN ms) \in Nat
<1>1. IsFiniteSet(DOMAIN ms)
  <2>1. DOMAIN ms \in SUBSET Ids /\ IsFiniteSet(Ids)
    BY SpaceAssumption DEF Messages
  <2>. QED BY <2>1, FS_Subset
<1>2. IsFiniteSet(S) /\ Cardinality(S) <= Cardinality(DOMAIN ms)
  BY <1>1, FS_Subset
<1>. QED
  BY <1>1, <1>2, FS_CardinalityType

(* Each move of the chain sets one more message before the gap.            *)
LEMMA ChainCounts ==
  ASSUME NEW n \in Nat \ {0}, NEW map \in MapOf(n), NEW ms, Messages(ms),
         NEW to, Chain(ms, map, to, n), NEW obj, obj = map[to].next, obj # NULL,
         NEW id, id = map[obj].id, NEW at, at = map[to].soff,
         NEW moves \in Int, moves <= Cardinality(Before(ms, at))
  PROVE  /\ moves + 1 <= Cardinality(DOMAIN ms)
         /\ \A ms2 : MovedTo(ms, ms2, id, at) =>
              moves + 1 <= Cardinality(Before(ms2, at + ms[id].mbytes))
<1>1. at \in Int /\ map[to].eoff \in Int /\ at <= map[to].eoff
  BY ChainGap
<1>2. id \in DOMAIN ms /\ map[to].eoff + 1 = ms[id].whence
  BY ChainTail
<1>3. ms[id].mbytes \in Int /\ ms[id].mbytes > 0
  BY <1>2 DEF Messages
<1>. PICK B : B = Before(ms, at)
  OBVIOUS
<1>4. B \in SUBSET DOMAIN ms /\ id \notin B
  BY <1>1, <1>2 DEF Before
<1>5. IsFiniteSet(B) /\ Cardinality(B) \in Nat
  BY <1>4, MessagesFinite
<1>6. Cardinality(B \cup {id}) = Cardinality(B) + 1
  BY <1>4, <1>5, FS_AddElement
<1>7. B \cup {id} \in SUBSET DOMAIN ms
  BY <1>2, <1>4
<1>8. moves + 1 <= Cardinality(B \cup {id})
  BY <1>5, <1>6
<1>9. moves + 1 <= Cardinality(DOMAIN ms)
  <2>1. /\ Cardinality(B \cup {id}) <= Cardinality(DOMAIN ms)
        /\ Cardinality(B \cup {id}) \in Nat /\ Cardinality(DOMAIN ms) \in Nat
    BY <1>7, MessagesFinite
  <2>. QED BY <1>8, <2>1
<1>10. ASSUME NEW ms2, MovedTo(ms, ms2, id, at)
       PROVE  moves + 1 <= Cardinality(Before(ms2, at + ms[id].mbytes))
  <2>. PICK C : C = Before(ms2, at + ms[id].mbytes)
    OBVIOUS
  <2>1. DOMAIN ms2 = DOMAIN ms /\ ms2[id].whence = at /\ \A j \in DOMAIN ms \ {id} : ms2[j] = ms[j]
    BY <1>10 DEF MovedTo
  <2>2. C \in SUBSET DOMAIN ms
    BY <2>1 DEF Before
  <2>3. B \cup {id} \subseteq C
    <3>1. id \in C
      BY <1>1, <1>2, <1>3, <2>1 DEF Before
    <3>2. ASSUME NEW j \in B PROVE j \in C
      <4>1. j \in DOMAIN ms /\ j # id /\ ms[j].whence < at
        BY <1>4 DEF Before
      <4>2. ms[j].whence \in Int
        BY <4>1 DEF Messages
      <4>3. ms2[j].whence < at + ms[id].mbytes
        BY <1>1, <1>3, <2>1, <4>1, <4>2
      <4>. QED BY <2>1, <4>1, <4>3 DEF Before
    <3>. QED BY <3>1, <3>2
  <2>4. IsFiniteSet(C) /\ Cardinality(C) \in Nat
    BY <2>2, MessagesFinite
  <2>5. Cardinality(B \cup {id}) <= Cardinality(C)
    <3>. PICK E : E = B \cup {id}
      OBVIOUS
    <3>1. E \in SUBSET C
      BY <2>3
    <3>. QED BY <2>4, <3>1, FS_Subset
  <2>. QED BY <1>5, <1>6, <1>8, <2>4, <2>5
<1>. QED
  BY <1>9, <1>10

(* The gap that was pushed along is on the walk, and so are the gaps       *)
(* behind it.                                                              *)
LEMMA ChainSafe ==
  ASSUME NEW n \in Nat \ {0}, NEW map \in MapOf(n), NEW ms, Messages(ms),
         NEW to, Chain(ms, map, to, n), NEW size, Room(map[to]) >= size
  PROVE  Safe(ms, map) /\ Fits(map, size)
<1>. PICK x : x = map[to].next
  OBVIOUS
<1>1. /\ to \in 1 .. n /\ map[to].dt = 0 /\ Clear(ms, Span(map[to])) /\ x \in 0 .. n
  BY ChainGap
<1>2. PICK live \in SUBSET (1 .. to) :
        /\ 1 \in live /\ to \in live
        /\ \A i \in live \ {to} : map[i].dt = 1 /\ map[i].next \in live /\ map[i].next > i
  BY ChainGap
<1>3. x # NULL => /\ x \in 1 .. n /\ to < x
                  /\ \A i \in x .. n : /\ map[i].next = IF i = n THEN NULL ELSE i + 1
                                       /\ map[i].dt = 0 => Clear(ms, Span(map[i]))
  <2>. SUFFICES ASSUME x # NULL
                PROVE  /\ x \in 1 .. n /\ to < x
                       /\ \A i \in x .. n : /\ map[i].next = IF i = n THEN NULL ELSE i + 1
                                            /\ map[i].dt = 0 => Clear(ms, Span(map[i]))
    OBVIOUS
  <2>1. x \in 1 .. n /\ to < x /\ Linked(map, x, n)
        /\ \A i \in x .. n : map[i].dt = 0 => Clear(ms, Span(map[i]))
    BY ChainTail
  <2>. QED BY <2>1 DEF Linked
<1>. PICK S : S = live \cup {i \in 1 .. n : x # NULL /\ x <= i}
  OBVIOUS
<1>. PICK r : r = [i \in 1 .. n |-> i]
  OBVIOUS
<1>4. S \subseteq 1 .. n /\ 1 \in S /\ to \in S /\ r \in [1 .. n -> Int]
  <2>1. live \subseteq 1 .. n
    BY <1>1, <1>2
  <2>2. S \subseteq 1 .. n
    BY <2>1, S = live \cup {i \in 1 .. n : x # NULL /\ x <= i}, Zenon
  <2>3. 1 \in S /\ to \in S
    BY <1>2, S = live \cup {i \in 1 .. n : x # NULL /\ x <= i}, Zenon
  <2>4. 1 .. n \subseteq Int
    OBVIOUS
  <2>5. r \in [1 .. n -> Int]
    BY ONLY <2>4, r = [i \in 1 .. n |-> i]
  <2>. QED BY <2>2, <2>3, <2>5
<1>5. \A i \in 1 .. n : r[i] = i
  OBVIOUS
<1>6. ASSUME NEW i \in S, map[i].next # NULL
      PROVE  map[i].next \in S /\ map[i].next > i /\ map[i].next \in 1 .. n
             /\ (i < to => map[i].next <= to)
  <2>1. CASE i \in live /\ i # to
    <3>1. map[i].next \in live /\ map[i].next > i
      BY <1>2, <2>1
    <3>2. map[i].next \in 1 .. to
      BY <1>2, <3>1
    <3>. QED BY <1>1, <3>1, <3>2
  <2>2. CASE i = to
    BY <1>1, <1>3, <1>6, <2>2
  <2>3. CASE i \notin live
    <3>1. x # NULL /\ x \in 1 .. n /\ i \in x .. n /\ i > to /\ to \in 1 .. n /\ i \in 1 .. n
      BY <1>1, <1>3, <2>3
    <3>2. map[i].next = i + 1 /\ i # n
      BY <1>3, <1>6, <3>1
    <3>3. i + 1 \in 1 .. n /\ x <= i + 1 /\ ~(i < to)
      BY ONLY <3>1, <3>2, n \in Nat \ {0}
    <3>. QED BY <3>1, <3>2, <3>3
  <2>. QED BY <2>1, <2>2, <2>3
<1>7. Ranked(map, S, r, n)
  <2>1. \A i \in S : map[i].next # NULL => map[i].next \in S /\ r[map[i].next] > r[i]
    BY ONLY <1>4, <1>5, <1>6
  <2>. QED BY ONLY <1>4, <2>1 DEF Ranked
<1>8. Leads(map, S, r, to)
  <2>1. r[1] <= r[to]
    BY <1>1, <1>5
  <2>2. ASSUME NEW i \in S, r[i] < r[to]
        PROVE  map[i].next # NULL /\ r[map[i].next] <= r[to]
    <3>1. i < to /\ i \in 1 .. n /\ i # to
      BY <1>1, <1>4, <1>5, <2>2
    <3>2. i \in live
      BY <1>1, <1>3, <3>1
    <3>3. map[i].next \in live
      BY <1>2, <3>1, <3>2
    <3>4. map[i].next # NULL
      BY <1>2, <3>3 DEF NULL
    <3>. QED BY <1>1, <1>5, <1>6, <3>1, <3>4
  <2>3. \A i \in S : r[i] = r[to] => i = to
    BY <1>1, <1>4, <1>5
  <2>. QED BY ONLY <2>1, <2>2, <2>3 DEF Leads
<1>9. Fits(map, size)
  BY ONLY <1>1, <1>4, <1>7, <1>8, n \in Nat \ {0}, map \in MapOf(n), Room(map[to]) >= size, RankedFits
<1>10. Safe(ms, map)
  <2>. PICK o : o = Order(map)
    OBVIOUS
  <2>1. WalkOf(map, o, n)
    BY OrderIsWalk
  <2>2. \A k \in DOMAIN o : o[k] \in S
    BY ONLY <1>7, <2>1, n \in Nat \ {0}, RankedStays
  <2>3. \A i \in S : map[i].dt = 0 => Clear(ms, Span(map[i]))
    <3>. SUFFICES ASSUME NEW i \in S, map[i].dt = 0 PROVE Clear(ms, Span(map[i]))
      OBVIOUS
    <3>1. CASE i \in live
      <4>1. i = to
        BY <1>2, <3>1
      <4>. QED BY <1>1, <4>1
    <3>2. CASE i \notin live
      <4>1. x # NULL /\ x <= i /\ i \in 1 .. n
        BY <3>2
      <4>2. x \in 1 .. n /\ i \in x .. n
        BY <1>3, <4>1
      <4>. QED BY <1>3, <4>1, <4>2
    <3>. QED BY <3>1, <3>2
  <2>. QED BY <2>2, <2>3 DEF Safe
<1>. QED
  BY <1>9, <1>10

(* When the gap is the last block, all that is free is in it.              *)
LEMMA ChainEnd ==
  ASSUME NEW n \in Nat \ {0}, NEW map \in MapOf(n), NEW ms, Messages(ms),
         NEW to, Chain(ms, map, to, n), map[to].next = NULL,
         Covered(ms, 0 .. map[to].soff - 1)
  PROVE  QBytes <= Cardinality(Bytes(ms)) + Room(map[to])
<1>. PICK a : a = map[to].soff
  OBVIOUS
<1>. PICK b : b = map[to].eoff
  OBVIOUS
<1>1. /\ a \in Int /\ b \in Int /\ 0 <= a /\ a <= b /\ b = QBytes - 1
  BY ChainGap
<1>2. Covered(ms, Offsets \ (a .. b))
  <2>1. Offsets \ (a .. b) \subseteq 0 .. a - 1
    BY <1>1, QBytesType DEF Offsets
  <2>. QED BY <2>1 DEF Covered
<1>3. a <= b + 1 /\ b < QBytes
  BY <1>1, QBytesType
<1>. QED
  BY <1>1, <1>2, <1>3, OneGap DEF Room

(* Where DataCompress_3 starts: the first gap of a fresh map.              *)
LEMMA FirstGap ==
  ASSUME NEW n \in Nat \ {0}, NEW map \in MapOf(n), NEW ms, Messages(ms), Fresh(ms, map, n),
         NEW g \in 1 .. n, map[g].dt = 0, \A i \in 1 .. g - 1 : map[i].dt = 1
  PROVE  Chain(ms, map, g, n) /\ Covered(ms, 0 .. map[g].soff - 1)
<1>. PICK x : x = map[g].next
  OBVIOUS
<1>1. /\ map[g].soff \in Int /\ map[g].eoff \in Int /\ 0 <= map[g].soff
      /\ map[g].soff <= map[g].eoff /\ map[g].eoff <= QBytes - 1
      /\ x = IF g = n THEN NULL ELSE g + 1
      /\ g < n => map[g + 1].soff = map[g].eoff + 1 /\ (map[g].dt = 1 \/ map[g + 1].dt = 1)
  BY FreshBlock
<1>2. \A i \in 1 .. n : map[i].dt = 0 => Clear(ms, Span(map[i]))
  BY FreshPlaced
<1>3. Linked(map, 1, n) /\ Tiles(map, 1, n) /\ Named(ms, map, 1, n)
  BY DEF Fresh
<1>4. x # NULL => /\ x \in 1 .. n /\ x = g + 1 /\ map[x].dt = 1 /\ map[x].soff = map[g].eoff + 1
  BY <1>1
<1>5. x = NULL => g = n /\ map[g].eoff = QBytes - 1
  <2>1. x = NULL => g = n
    BY <1>1 DEF NULL
  <2>2. map[n].eoff = QBytes - 1
    BY <1>3 DEF Tiles
  <2>. QED BY <2>1, <2>2
<1>6. x # NULL => Linked(map, x, n) /\ Tiles(map, x, n) /\ Named(ms, map, x, n)
  <2>. SUFFICES ASSUME x # NULL PROVE Linked(map, x, n) /\ Tiles(map, x, n) /\ Named(ms, map, x, n)
    OBVIOUS
  <2>1. \A i \in x .. n : i \in 1 .. n /\ (i > x => i > 1)
    BY <1>4
  <2>2. Linked(map, x, n)
    BY <1>3, <2>1 DEF Linked
  <2>3. Tiles(map, x, n)
    BY <1>3, <2>1 DEF Tiles
  <2>4. Named(ms, map, x, n)
    BY <1>3, <2>1 DEF Named
  <2>. QED BY <2>2, <2>3, <2>4
<1>7. \E live \in SUBSET (1 .. g) :
        /\ 1 \in live /\ g \in live
        /\ \A i \in live \ {g} : map[i].dt = 1 /\ map[i].next \in live /\ map[i].next > i
  <2>. PICK live : live = 1 .. g
    OBVIOUS
  <2>1. live \in SUBSET (1 .. g) /\ 1 \in live /\ g \in live
    OBVIOUS
  <2>2. ASSUME NEW i \in live \ {g} PROVE map[i].dt = 1 /\ map[i].next \in live /\ map[i].next > i
    <3>1. i \in 1 .. g - 1 /\ i \in 1 .. n /\ i # n
      OBVIOUS
    <3>2. map[i].next = i + 1
      BY <3>1, FreshBlock
    <3>. QED BY <3>1, <3>2
  <2>. QED BY <2>1, <2>2
<1>8. Chain(ms, map, g, n)
  <2>. DEFINE f == IF x = NULL THEN n + 1 ELSE x
  <2>1. g < f /\ \A i \in f .. n : i \in 1 .. n
    BY <1>4, <1>5
  <2>2. \A i \in f .. n : map[i].dt = 0 => Clear(ms, Span(map[i]))
    BY <1>2, <2>1
  <2>3. IF x = NULL THEN map[g].eoff = QBytes - 1
        ELSE /\ map[x].dt = 1 /\ map[x].soff = map[g].eoff + 1
             /\ Linked(map, x, n) /\ Tiles(map, x, n) /\ Named(ms, map, x, n)
    BY <1>4, <1>5, <1>6
  <2>4. Clear(ms, Span(map[g]))
    BY <1>2
  <2>. QED BY ONLY <1>1, <1>7, <2>1, <2>2, <2>3, <2>4, map[g].dt = 0, g \in 1 .. n, x = map[g].next
           DEF Chain
<1>9. Covered(ms, 0 .. map[g].soff - 1)
  <2>. SUFFICES ASSUME NEW q \in 0 .. map[g].soff - 1
                PROVE  \E id \in DOMAIN ms : q \in Place(ms[id])
    BY DEF Covered
  <2>1. q \in Offsets
    BY <1>1, QBytesType DEF Offsets
  <2>2. PICK i \in 1 .. n : q \in Span(map[i])
    BY <1>3, <2>1, FreshCovers DEF Fresh
  <2>3. i < g
    <3>1. map[i].soff \in Int /\ map[i].eoff \in Int
      BY FreshBlock
    <3>2. map[i].soff <= q
      BY <2>2, <3>1 DEF Span
    <3>3. Ascends(map, 1, n)
      BY <1>3, TilesAscend
    <3>4. g < i => map[g].eoff < map[i].soff
      BY <3>3 DEF Ascends
    <3>5. ~(g < i)
      BY <1>1, <3>1, <3>2, <3>4
    <3>6. g # i
      BY <1>1, <3>2
    <3>. QED BY <3>5, <3>6
  <2>4. map[i].dt = 1
    BY <2>3
  <2>5. map[i].id \in DOMAIN ms /\ Span(map[i]) = Place(ms[map[i].id])
    BY <2>4, FreshBlock
  <2>. QED BY <2>2, <2>5
<1>. QED
  BY <1>8, <1>9

(* As many bytes are free, but in no one gap: there are two gaps.          *)
LEMMA TwoGaps ==
  ASSUME NEW n \in Nat \ {0}, NEW map \in MapOf(n), NEW ms, Messages(ms), Fresh(ms, map, n),
         NEW size \in Nat, size > 0, Cardinality(Bytes(ms)) + size <= QBytes,
         \A i \in 1 .. n : ~FitAt(map, size, i)
  PROVE  \E i, j \in 1 .. n : i + 1 < j /\ map[i].dt = 0 /\ map[j].dt = 0
<1>0. \A i \in 1 .. n : map[i].dt \in {0, 1} /\ Room(map[i]) \in Int
  <2>1. \A i \in 1 .. n : map[i].dt \in {0, 1} /\ map[i].soff \in Int /\ map[i].eoff \in Int
    BY BlockType
  <2>. QED BY <2>1 DEF Room
<1>1. Cardinality(Bytes(ms)) \in Nat
  BY BytesFinite
<1>2. PICK g \in 1 .. n : map[g].dt = 0
  <2>. SUFFICES ASSUME \A i \in 1 .. n : map[i].dt # 0 PROVE FALSE
    OBVIOUS
  <2>1. Covered(ms, Offsets \ (0 .. -1))
    <3>. SUFFICES ASSUME NEW q \in Offsets PROVE \E id \in DOMAIN ms : q \in Place(ms[id])
      BY DEF Covered
    <3>1. PICK i \in 1 .. n : q \in Span(map[i])
      BY FreshCovers DEF Fresh
    <3>2. map[i].dt = 1
      BY <1>0
    <3>3. map[i].id \in DOMAIN ms /\ Span(map[i]) = Place(ms[map[i].id])
      BY <3>2, FreshBlock
    <3>. QED BY <3>1, <3>3
  <2>2. QBytes <= Cardinality(Bytes(ms)) + (-1 - 0 + 1)
    <3>1. 0 \in Int /\ -1 \in Int /\ 0 <= 0 /\ 0 <= -1 + 1 /\ -1 < QBytes
      BY QBytesType
    <3>. QED BY ONLY <2>1, <3>1, Messages(ms), OneGap
  <2>. QED BY <1>1, <2>2, QBytesType
<1>3. PICK h \in 1 .. n : h # g /\ map[h].dt = 0
  <2>. SUFFICES ASSUME \A i \in 1 .. n : i # g => map[i].dt # 0 PROVE FALSE
    OBVIOUS
  <2>1. \A i \in 1 .. n : i # g => map[i].dt = 1
    BY <1>0
  <2>2. QBytes <= Cardinality(Bytes(ms)) + Room(map[g])
    BY <2>1, FreshOneGap
  <2>3. Room(map[g]) < size
    BY <1>0, <1>2 DEF FitAt
  <2>. QED BY <1>0, <1>1, <2>2, <2>3, QBytesType
<1>4. \A i \in 1 .. n : i < n /\ map[i].dt = 0 => map[i + 1].dt = 1
  <2>1. \A i \in 1 .. n : i < n => map[i].dt = 1 \/ map[i + 1].dt = 1
    BY FreshBlock
  <2>. QED BY <2>1
<1>5. CASE g < h
  <2>1. h # g + 1
    BY <1>2, <1>3, <1>4, <1>5
  <2>. QED BY <1>2, <1>3, <1>5, <2>1
<1>6. CASE h < g
  <2>1. g # h + 1
    BY <1>2, <1>3, <1>4, <1>6
  <2>. QED BY <1>2, <1>3, <1>6, <2>1
<1>. QED
  BY <1>3, <1>5, <1>6

LEMMA StepMoves ==
  ASSUME NEW n \in Nat \ {0}, NEW map \in MapOf(n), NEW ms, Messages(ms),
         NEW mv, NEW size, NEW moves, Step(ms, map, n, mv, size, moves),
         NEW obj, obj = mv.obj, NEW to, to = mv.to, NEW id, id = map[obj].id
  PROVE  /\ obj \in 1 .. n /\ to \in 1 .. n /\ id \in DOMAIN ms
         /\ map[to].soff \in Int
         /\ Clear(ms, Span(map[to]))
         /\ NewAt(ms, id, map[to].soff) \subseteq Span(map[to]) \cup Place(ms[id])
<1>1. CASE mv.by = 1 \/ mv.by = 3
  <2>1. /\ obj \in 1 .. n /\ to \in 1 .. n /\ map[obj].soff = map[to].eoff + 1
        /\ map[to].soff \in Int /\ map[to].eoff \in Int /\ map[to].soff <= map[to].eoff
        /\ map[obj].soff \in Int /\ map[obj].eoff \in Int
        /\ id \in DOMAIN ms /\ Span(map[obj]) = Place(ms[id]) /\ Room(map[obj]) = ms[id].mbytes
        /\ Clear(ms, Span(map[to]))
    <3>1. CASE mv.by = 1
      <4>1. /\ Fresh(ms, map, n) /\ to \in 1 .. n - 2 /\ obj = to + 1
            /\ map[to].dt = 0 /\ map[obj].dt = 1
        BY <3>1 DEF Step
      <4>2. to \in 1 .. n /\ obj \in 1 .. n /\ to < n
        BY <4>1
      <4>3. /\ map[obj].soff = map[to].eoff + 1
            /\ map[to].soff \in Int /\ map[to].eoff \in Int /\ map[to].soff <= map[to].eoff
        BY <4>1, <4>2, FreshBlock
      <4>4. /\ map[obj].soff \in Int /\ map[obj].eoff \in Int
            /\ id \in DOMAIN ms /\ Span(map[obj]) = Place(ms[id]) /\ Room(map[obj]) = ms[id].mbytes
        BY <4>1, <4>2, FreshBlock
      <4>5. Clear(ms, Span(map[to]))
        BY <4>1, <4>2, FreshPlaced
      <4>. QED BY <4>2, <4>3, <4>4, <4>5
    <3>2. CASE mv.by = 3
      <4>1. Chain(ms, map, to, n) /\ obj = map[to].next /\ obj # NULL
        BY <3>2 DEF Step
      <4>2. /\ to \in 1 .. n /\ map[to].soff \in Int /\ map[to].eoff \in Int
            /\ map[to].soff <= map[to].eoff /\ Clear(ms, Span(map[to]))
        BY <4>1, ChainGap
      <4>3. /\ obj \in 1 .. n /\ map[obj].soff = map[to].eoff + 1
            /\ id \in DOMAIN ms /\ Span(map[obj]) = Place(ms[id]) /\ Room(map[obj]) = ms[id].mbytes
        BY <4>1, ChainTail
      <4>4. map[obj].soff \in Int /\ map[obj].eoff \in Int
        BY <4>3, BlockType
      <4>. QED BY <4>2, <4>3, <4>4
    <3>. QED BY <1>1, <3>1, <3>2
  <2>. PICK s : s = map[to].soff
    OBVIOUS
  <2>2. ms[id].mbytes = map[obj].eoff - map[obj].soff + 1
    BY <2>1 DEF Room
  <2>3. (s .. s + ms[id].mbytes - 1)
          \subseteq (map[to].soff .. map[to].eoff) \cup (map[obj].soff .. map[obj].eoff)
    BY ONLY <2>1, <2>2, s = map[to].soff
  <2>4. NewAt(ms, id, map[to].soff) \subseteq Span(map[to]) \cup Span(map[obj])
    BY <2>3 DEF NewAt, Span
  <2>. QED BY <2>1, <2>4
<1>2. CASE mv.by = 2
  <2>1. /\ Fresh(ms, map, n) /\ to \in 1 .. n /\ obj \in 1 .. n
        /\ map[to].dt = 0 /\ map[obj].dt = 1 /\ Room(map[to]) >= Room(map[obj])
    BY <1>2 DEF Step
  <2>2. /\ map[to].soff \in Int /\ map[to].eoff \in Int
        /\ id \in DOMAIN ms /\ Room(map[obj]) = ms[id].mbytes
    BY <2>1, FreshBlock
  <2>3. Clear(ms, Span(map[to]))
    BY <2>1, FreshPlaced
  <2>. PICK s : s = map[to].soff
    OBVIOUS
  <2>4. ms[id].mbytes \in Int
    BY <2>2 DEF Messages
  <2>5. Room(map[to]) = map[to].eoff - s + 1
    BY DEF Room
  <2>6. (s .. s + ms[id].mbytes - 1) \subseteq (s .. map[to].eoff)
    BY ONLY <2>1, <2>2, <2>4, <2>5, s = map[to].soff
  <2>7. NewAt(ms, id, map[to].soff) \subseteq Span(map[to])
    BY <2>6 DEF NewAt, Span
  <2>. QED BY <2>1, <2>2, <2>3, <2>7
<1>. QED
  BY <1>1, <1>2 DEF Step

----------------------------------------------------------------------------
(* MakeDataArray: blocks that lie one behind the other.                    *)

BlockQ == [dt : {0, 1}, id : Ids \cup {NoId}, soff : Int, eoff : Int]

Run(s, n, a, e) ==
  /\ s[1].soff = a /\ s[n].eoff = e
  /\ \A i \in 1 .. n :
       /\ s[i].soff <= s[i].eoff
       /\ i < n => /\ s[i + 1].soff = s[i].eoff + 1
                   /\ s[i].dt = 1 \/ s[i + 1].dt = 1

(* A block is replaced by others.                                          *)
Spliced(s, at, cut, n, c) ==
  [i \in 1 .. n + c - 1 |->
     IF i < at THEN s[i] ELSE IF i < at + c THEN cut[i - at + 1] ELSE s[i - c + 1]]

LEMMA SplicedIs ==
  ASSUME NEW T, NEW s \in Seq(T), NEW at \in 1 .. Len(s), NEW cut \in Seq(T), cut # <<>>
  PROVE  /\ SubSeq(s, 1, at - 1) \o cut \o SubSeq(s, at + 1, Len(s))
              = Spliced(s, at, cut, Len(s), Len(cut))
         /\ Spliced(s, at, cut, Len(s), Len(cut)) \in Seq(T)
         /\ Len(Spliced(s, at, cut, Len(s), Len(cut))) = Len(s) + Len(cut) - 1
<1>. PICK n \in Nat : n = Len(s)
  BY LenProperties
<1>. PICK c \in Nat : c = Len(cut)
  BY LenProperties
<1>1. c > 0
  BY EmptySeq
<1>2. s \in [1 .. n -> T] /\ cut \in [1 .. c -> T]
  BY LenProperties
<1>. PICK u : u = SubSeq(s, 1, at - 1)
  OBVIOUS
<1>. PICK v : v = SubSeq(s, at + 1, n)
  OBVIOUS
<1>3. u \in Seq(T) /\ Len(u) = at - 1 /\ \A i \in 1 .. at - 1 : u[i] = s[i]
  BY <1>2, SubSeqProperties
<1>4. v \in Seq(T) /\ Len(v) = n - at /\ \A i \in 1 .. n - at : v[i] = s[at + i]
  <2>1. at + 1 \in Int /\ n \in Int /\ \A i \in (at + 1) .. n : s[i] \in T
    BY <1>2
  <2>2. /\ v \in Seq(T)
        /\ Len(v) = IF at + 1 <= n THEN n - (at + 1) + 1 ELSE 0
        /\ \A i \in 1 .. n - (at + 1) + 1 : v[i] = s[(at + 1) + i - 1]
    BY <2>1, SubSeqProperties
  <2>. QED BY <2>2
<1>. PICK w : w = u \o cut
  OBVIOUS
<1>5. /\ w \in Seq(T) /\ Len(w) = at - 1 + c
      /\ \A i \in 1 .. at - 1 + c : w[i] = IF i <= at - 1 THEN u[i] ELSE cut[i - (at - 1)]
  <2>1. /\ u \o cut \in Seq(T) /\ Len(u \o cut) = Len(u) + Len(cut)
        /\ \A i \in 1 .. Len(u) + Len(cut) :
              (u \o cut)[i] = IF i <= Len(u) THEN u[i] ELSE cut[i - Len(u)]
    BY <1>3, ConcatProperties
  <2>. QED BY ONLY <1>3, <2>1, w = u \o cut, c = Len(cut)
<1>. PICK t : t = w \o v
  OBVIOUS
<1>6. /\ t \in Seq(T) /\ Len(t) = n + c - 1
      /\ \A i \in 1 .. n + c - 1 : t[i] = IF i <= at - 1 + c THEN w[i] ELSE v[i - (at - 1 + c)]
  <2>1. /\ w \o v \in Seq(T) /\ Len(w \o v) = Len(w) + Len(v)
        /\ \A i \in 1 .. Len(w) + Len(v) :
              (w \o v)[i] = IF i <= Len(w) THEN w[i] ELSE v[i - Len(w)]
    <3>1. w \in Seq(T) /\ v \in Seq(T)
      BY <1>4, <1>5
    <3>. QED BY ONLY <3>1, ConcatProperties
  <2>2. Len(w) + Len(v) = n + c - 1
    <3>1. at \in Int /\ n \in Int /\ c \in Int
      OBVIOUS
    <3>2. Len(w) = at - 1 + c /\ Len(v) = n - at
      BY <1>4, <1>5
    <3>. QED BY ONLY <3>1, <3>2
  <2>3. Len(w) = at - 1 + c /\ t = w \o v
    BY <1>5
  <2>. QED BY ONLY <2>1, <2>2, <2>3
<1>7. t \in [1 .. n + c - 1 -> T] /\ Len(t) = n + c - 1
  BY <1>6, LenProperties
<1>8. ASSUME NEW i \in 1 .. n + c - 1
      PROVE  t[i] = IF i < at THEN s[i] ELSE IF i < at + c THEN cut[i - at + 1] ELSE s[i - c + 1]
  <2>1. CASE i < at
    <3>1. i \in 1 .. at - 1 + c /\ i \in 1 .. at - 1 /\ i <= at - 1 + c /\ i <= at - 1
      BY <2>1
    <3>2. t[i] = w[i]
      BY <1>6, <3>1
    <3>3. w[i] = u[i] /\ u[i] = s[i]
      BY <1>3, <1>5, <3>1
    <3>. QED BY <2>1, <3>2, <3>3
  <2>2. CASE ~(i < at) /\ i < at + c
    <3>1. i \in 1 .. at - 1 + c /\ ~(i <= at - 1) /\ i <= at - 1 + c /\ i - (at - 1) = i - at + 1
      BY <2>2
    <3>2. t[i] = w[i]
      BY <1>6, <3>1
    <3>3. w[i] = cut[i - at + 1]
      BY <1>5, <3>1
    <3>. QED BY <2>2, <3>2, <3>3
  <2>3. CASE ~(i < at) /\ ~(i < at + c)
    <3>1. i - (at - 1 + c) \in 1 .. n - at /\ at + (i - (at - 1 + c)) = i - c + 1
      BY <2>3
    <3>2. v[i - (at - 1 + c)] = s[i - c + 1]
      BY <1>4, <3>1
    <3>3. t[i] = v[i - (at - 1 + c)]
      <4>1. ~(i <= at - 1 + c)
        BY <2>3
      <4>. QED BY <1>6, <4>1
    <3>. QED BY <2>3, <3>2, <3>3
  <2>. QED BY <2>1, <2>2, <2>3
<1>9. t = Spliced(s, at, cut, n, c)
  BY <1>7, <1>8 DEF Spliced
<1>10. t \in Seq(T)
  BY <1>6
<1>. QED
  BY <1>7, <1>9, <1>10

LEMMA SplicedRuns ==
  ASSUME NEW n \in Nat \ {0}, NEW s \in [1 .. n -> BlockQ], NEW at \in 1 .. n,
         NEW c \in Nat \ {0}, NEW cut \in [1 .. c -> BlockQ], NEW a, NEW e, Run(s, n, a, e),
         s[at].dt = 0, Run(cut, c, s[at].soff, s[at].eoff)
  PROVE  Run(Spliced(s, at, cut, n, c), n + c - 1, a, e)
<1>. PICK t : t = Spliced(s, at, cut, n, c)
  OBVIOUS
<1>. PICK m \in Nat : m = n + c - 1
  OBVIOUS
<1>1. \A i \in 1 .. m : i < at => t[i] = s[i]
  BY DEF Spliced
<1>2. \A i \in 1 .. m : ~(i < at) /\ i < at + c => t[i] = cut[i - at + 1]
  BY DEF Spliced
<1>3. \A i \in 1 .. m : ~(i < at) /\ ~(i < at + c) => t[i] = s[i - c + 1]
  BY DEF Spliced
<1>4. /\ \A i \in 1 .. n : s[i].soff \in Int /\ s[i].eoff \in Int
      /\ \A i \in 1 .. c : cut[i].soff \in Int /\ cut[i].eoff \in Int
  BY DEF BlockQ
<1>5. t[1].soff = a
  <2>1. 1 \in 1 .. m
    OBVIOUS
  <2>2. CASE at = 1
    <3>1. t[1] = cut[1 - 1 + 1]
      BY <1>2, <2>1, <2>2
    <3>. QED BY <2>2, <3>1 DEF Run
  <2>3. CASE at # 1
    BY <1>1, <2>1, <2>3 DEF Run
  <2>. QED BY <2>2, <2>3
<1>6. t[m].eoff = e
  <2>1. m \in 1 .. m
    OBVIOUS
  <2>2. CASE at = n
    <3>1. t[m] = cut[m - at + 1] /\ m - at + 1 = c
      BY <1>2, <2>1, <2>2
    <3>. QED BY <2>2, <3>1 DEF Run
  <2>3. CASE at # n
    <3>1. t[m] = s[m - c + 1] /\ m - c + 1 = n
      BY <1>3, <2>1, <2>3
    <3>. QED BY <3>1 DEF Run
  <2>. QED BY <2>2, <2>3
<1>7. ASSUME NEW i \in 1 .. m
      PROVE  /\ t[i].soff <= t[i].eoff
             /\ i < m => /\ t[i + 1].soff = t[i].eoff + 1
                         /\ t[i].dt = 1 \/ t[i + 1].dt = 1
  <2>1. CASE i < at
    <3>1. t[i] = s[i] /\ i \in 1 .. n /\ i < n /\ i + 1 \in 1 .. m
      BY <1>1, <2>1
    <3>2. /\ s[i].soff <= s[i].eoff /\ s[i + 1].soff = s[i].eoff + 1
          /\ s[i].dt = 1 \/ s[i + 1].dt = 1
      BY <3>1 DEF Run
    <3>3. CASE i + 1 < at
      <4>1. t[i + 1] = s[i + 1]
        BY <1>1, <3>1, <3>3
      <4>. QED BY <3>1, <3>2, <4>1
    <3>4. CASE i + 1 = at
      <4>1. t[i + 1] = cut[1] /\ cut[1].soff = s[i + 1].soff
        <5>1. t[i + 1] = cut[(i + 1) - at + 1]
          BY <1>2, <3>1, <3>4
        <5>. QED BY <3>4, <5>1 DEF Run
      <4>2. s[i].dt = 1
        BY <3>2, <3>4
      <4>. QED BY <3>1, <3>2, <4>1, <4>2
    <3>. QED BY <2>1, <3>1, <3>3, <3>4
  <2>2. CASE ~(i < at) /\ i < at + c
    <3>. PICK j \in Int : j = i - at + 1
      OBVIOUS
    <3>1. t[i] = cut[j] /\ j \in 1 .. c
      BY <1>2, <2>2
    <3>2. cut[j].soff <= cut[j].eoff
          /\ (j < c => cut[j + 1].soff = cut[j].eoff + 1 /\ (cut[j].dt = 1 \/ cut[j + 1].dt = 1))
      BY <3>1 DEF Run
    <3>3. CASE j < c
      <4>1. i + 1 \in 1 .. m /\ ~(i + 1 < at) /\ i + 1 < at + c /\ (i + 1) - at + 1 = j + 1
        BY <3>3, <2>2
      <4>2. t[i + 1] = cut[j + 1]
        BY <1>2, <4>1
      <4>. QED BY <3>1, <3>2, <3>3, <4>2
    <3>4. CASE j = c
      <4>. SUFFICES ASSUME i < m
                    PROVE  t[i + 1].soff = t[i].eoff + 1 /\ (t[i].dt = 1 \/ t[i + 1].dt = 1)
        BY <3>1, <3>2
      <4>1. i + 1 \in 1 .. m /\ ~(i + 1 < at) /\ ~(i + 1 < at + c) /\ (i + 1) - c + 1 = at + 1
            /\ at < n
        BY <3>4, <2>2
      <4>2. t[i + 1] = s[at + 1]
        BY <1>3, <4>1
      <4>3. s[at + 1].soff = s[at].eoff + 1 /\ s[at + 1].dt = 1
        BY <4>1 DEF Run
      <4>4. cut[c].eoff = s[at].eoff
        BY DEF Run
      <4>. QED BY <3>1, <3>4, <4>2, <4>3, <4>4
    <3>. QED BY <3>1, <3>3, <3>4
  <2>3. CASE ~(i < at) /\ ~(i < at + c)
    <3>. PICK j \in Int : j = i - c + 1
      OBVIOUS
    <3>1. t[i] = s[j] /\ j \in 1 .. n /\ (i < m => j < n)
      BY <1>3, <2>3
    <3>2. i < m => t[i + 1] = s[j + 1]
      <4>. SUFFICES ASSUME i < m PROVE t[i + 1] = s[j + 1]
        OBVIOUS
      <4>1. i + 1 \in 1 .. m /\ ~(i + 1 < at) /\ ~(i + 1 < at + c) /\ (i + 1) - c + 1 = j + 1
        BY <2>3
      <4>. QED BY <1>3, <4>1
    <3>. QED BY <3>1, <3>2 DEF Run
  <2>. QED BY <2>1, <2>2, <2>3
<1>. QED
  BY ONLY <1>5, <1>6, <1>7, t = Spliced(s, at, cut, n, c), m = n + c - 1 DEF Run

(* The list that is made of the blocks.                                    *)
ListOf(s, n) ==
  [i \in 1 .. n |->
     [dt |-> s[i].dt, id |-> s[i].id, soff |-> s[i].soff, eoff |-> s[i].eoff,
      prev |-> IF i = 1 THEN NULL ELSE i - 1,
      next |-> IF i = n THEN NULL ELSE i + 1]]

IsListOf(map, s, n) ==
  /\ map \in MapOf(n)
  /\ \A i \in 1 .. n : /\ map[i].dt = s[i].dt
                       /\ map[i].id = s[i].id
                       /\ map[i].soff = s[i].soff
                       /\ map[i].eoff = s[i].eoff
                       /\ map[i].prev = IF i = 1 THEN NULL ELSE i - 1
                       /\ map[i].next = IF i = n THEN NULL ELSE i + 1

LEMMA ListIs ==
  ASSUME NEW n \in Nat, NEW s \in [1 .. n -> BlockQ]
  PROVE  IsListOf(ListOf(s, n), s, n)
<1>1. ASSUME NEW i \in 1 .. n
      PROVE  [dt |-> s[i].dt, id |-> s[i].id, soff |-> s[i].soff, eoff |-> s[i].eoff,
              prev |-> IF i = 1 THEN NULL ELSE i - 1,
              next |-> IF i = n THEN NULL ELSE i + 1] \in Blocks(n)
  <2>1. /\ s[i].dt \in {0, 1} /\ s[i].id \in Ids \cup {NoId, 0}
        /\ s[i].soff \in Int /\ s[i].eoff \in Int
    BY DEF BlockQ
  <2>2. (IF i = 1 THEN NULL ELSE i - 1) \in 0 .. n /\ (IF i = n THEN NULL ELSE i + 1) \in 0 .. n
    BY DEF NULL
  <2>. QED BY <2>1, <2>2 DEF Blocks
<1>2. ListOf(s, n) \in MapOf(n)
  BY <1>1 DEF ListOf, MapOf
<1>. QED
  BY <1>2 DEF ListOf, IsListOf

LEMMA ListRuns ==
  ASSUME NEW n \in Nat \ {0}, NEW s \in [1 .. n -> BlockQ], Run(s, n, 0, QBytes - 1)
  PROVE  /\ Linked(ListOf(s, n), 1, n) /\ Tiles(ListOf(s, n), 1, n)
         /\ ListOf(s, n)[1].soff = 0 /\ ListOf(s, n)[1].prev = NULL
<1>. PICK map : map = ListOf(s, n)
  OBVIOUS
<1>1. \A i \in 1 .. n : /\ map[i].dt = s[i].dt
                        /\ map[i].soff = s[i].soff
                        /\ map[i].eoff = s[i].eoff
                        /\ map[i].prev = IF i = 1 THEN NULL ELSE i - 1
                        /\ map[i].next = IF i = n THEN NULL ELSE i + 1
  <2>1. IsListOf(map, s, n)
    BY ListIs, n \in Nat
  <2>. QED BY ONLY <2>1 DEF IsListOf
<1>2. Linked(map, 1, n)
  BY <1>1 DEF Linked
<1>3. ASSUME NEW i \in 1 .. n
      PROVE  /\ map[i].soff <= map[i].eoff
             /\ i < n => /\ map[i + 1].soff = map[i].eoff + 1
                         /\ map[i].dt = 1 \/ map[i + 1].dt = 1
  <2>1. /\ s[i].soff <= s[i].eoff
        /\ i < n => s[i + 1].soff = s[i].eoff + 1 /\ (s[i].dt = 1 \/ s[i + 1].dt = 1)
    BY DEF Run
  <2>2. i < n => i + 1 \in 1 .. n
    OBVIOUS
  <2>. QED BY <1>1, <2>1, <2>2
<1>4. Tiles(map, 1, n)
  <2>1. map[n].eoff = QBytes - 1
    BY <1>1 DEF Run
  <2>. QED BY <1>3, <2>1 DEF Tiles
<1>5. map[1].soff = 0 /\ map[1].prev = NULL
  BY <1>1 DEF Run
<1>. QED
  BY <1>2, <1>4, <1>5

LEMMA RunLies ==
  ASSUME NEW n \in Nat \ {0}, NEW s \in [1 .. n -> BlockQ], Run(s, n, 0, QBytes - 1)
  PROVE  /\ \A i \in 1 .. n : 0 <= s[i].soff /\ s[i].eoff <= QBytes - 1
         /\ \A q \in Offsets : \E i \in 1 .. n : q \in Span(s[i])
<1>. PICK map : map = ListOf(s, n)
  OBVIOUS
<1>1. map \in MapOf(n) /\ \A i \in 1 .. n : map[i].soff = s[i].soff /\ map[i].eoff = s[i].eoff
  <2>1. IsListOf(map, s, n)
    BY ListIs, n \in Nat
  <2>. QED BY ONLY <2>1 DEF IsListOf
<1>2. Tiles(map, 1, n) /\ map[1].soff = 0
  BY ListRuns
<1>3. Lies(map, 1, n)
  <2>1. 1 \in 1 .. n /\ n \in Nat
    OBVIOUS
  <2>. QED BY <1>1, <1>2, <2>1, TilesLie
<1>4. \A q \in Offsets : \E i \in 1 .. n : q \in Span(map[i])
  BY <1>1, <1>2, FreshCovers
<1>. QED
  BY <1>1, <1>2, <1>3, <1>4 DEF Lies, Span

----------------------------------------------------------------------------
(* A map of some of the messages.                                          *)

Part(ms, s, done) ==
  /\ s \in Seq(BlockQ) /\ s # <<>>
  /\ Run(s, Len(s), 0, QBytes - 1)
  /\ \A i \in 1 .. Len(s) : s[i].dt = 1 =>
        /\ s[i].id \in done
        /\ s[i].soff = ms[s[i].id].whence
        /\ s[i].eoff = s[i].soff + ms[s[i].id].mbytes - 1
  /\ \A id \in done : \E i \in 1 .. Len(s) : s[i].dt = 1 /\ s[i].id = id

(* The blocks a gap is cut into.                                           *)
CutOf(b, id) ==
  (IF b.soff < msgs[id].whence THEN <<Gap(b.soff, msgs[id].whence - 1)>> ELSE <<>>)
  \o <<Data(id)>>
  \o (IF b.eoff > LastByte(msgs[id]) THEN <<Gap(LastByte(msgs[id]) + 1, b.eoff)>> ELSE <<>>)

LEMMA Pairs ==
  ASSUME NEW T, NEW p \in T, NEW q \in T, NEW r \in T
  PROVE  /\ <<p>> \o <<>> = <<p>> /\ <<>> \o <<p>> = <<p>> /\ <<p>> \o <<q>> = <<p, q>>
         /\ <<p, q>> \o <<>> = <<p, q>> /\ <<p, q>> \o <<r>> = <<p, q, r>>
<1>1. <<p>> \in Seq(T) /\ <<q>> \in Seq(T) /\ <<p, q>> \in Seq(T) /\ <<p, q, r>> \in Seq(T)
      /\ <<r>> \in Seq(T)
  OBVIOUS
<1>2. <<p>> \o <<>> = <<p>> /\ <<>> \o <<p>> = <<p>> /\ <<p, q>> \o <<>> = <<p, q>>
  BY <1>1, ConcatEmptySeq
<1>3. <<p>> \o <<q>> = <<p, q>>
  <2>1. /\ <<p>> \o <<q>> \in Seq(T) /\ Len(<<p>> \o <<q>>) = Len(<<p>>) + Len(<<q>>)
        /\ \A i \in 1 .. Len(<<p>>) + Len(<<q>>) :
             (<<p>> \o <<q>>)[i] = IF i <= Len(<<p>>) THEN <<p>>[i] ELSE <<q>>[i - Len(<<p>>)]
    BY <1>1, ConcatProperties
  <2>. PICK c : c = <<p>> \o <<q>>
    OBVIOUS
  <2>2. c \in Seq(T) /\ Len(c) = 2 /\ c[1] = p /\ c[2] = q
    BY <2>1
  <2>3. \A i \in 1 .. 2 : c[i] = <<p, q>>[i]
    <3>1. \A i \in 1 .. 2 : i = 1 \/ i = 2
      OBVIOUS
    <3>2. <<p, q>>[1] = p /\ <<p, q>>[2] = q
      OBVIOUS
    <3>. QED BY ONLY <2>2, <3>1, <3>2
  <2>. QED BY <1>1, <2>2, <2>3, SeqEqual
<1>4. <<p, q>> \o <<r>> = <<p, q, r>>
  <2>1. /\ <<p, q>> \o <<r>> \in Seq(T) /\ Len(<<p, q>> \o <<r>>) = Len(<<p, q>>) + Len(<<r>>)
        /\ \A i \in 1 .. Len(<<p, q>>) + Len(<<r>>) :
             (<<p, q>> \o <<r>>)[i] = IF i <= Len(<<p, q>>) THEN <<p, q>>[i] ELSE <<r>>[i - Len(<<p, q>>)]
    BY <1>1, ConcatProperties
  <2>. PICK c : c = <<p, q>> \o <<r>>
    OBVIOUS
  <2>2. c \in Seq(T) /\ Len(c) = 3 /\ c[1] = p /\ c[2] = q /\ c[3] = r
    BY <2>1
  <2>3. \A i \in 1 .. 3 : c[i] = <<p, q, r>>[i]
    BY <2>2
  <2>. QED BY <1>1, <2>2, <2>3, SeqEqual
<1>. QED
  BY <1>2, <1>3, <1>4

LEMMA CutRuns ==
  ASSUME Messages(msgs), NEW id \in DOMAIN msgs, NEW b \in BlockQ, b.dt = 0, 0 <= b.soff,
         b.soff <= msgs[id].whence, b.eoff >= LastByte(msgs[id])
  PROVE  /\ CutOf(b, id) \in Seq(BlockQ) /\ CutOf(b, id) # <<>>
         /\ Run(CutOf(b, id), Len(CutOf(b, id)), b.soff, b.eoff)
         /\ \E j \in 1 .. Len(CutOf(b, id)) : CutOf(b, id)[j] = Data(id)
         /\ \A j \in 1 .. Len(CutOf(b, id)) :
              CutOf(b, id)[j].dt = 1 => CutOf(b, id)[j] = Data(id)
         /\ Data(id).dt = 1 /\ Data(id).id = id /\ Data(id).soff = msgs[id].whence
         /\ Data(id).eoff = msgs[id].whence + msgs[id].mbytes - 1
<1>. PICK w \in Int : w = msgs[id].whence
  BY DEF Messages
<1>. PICK l \in Int : l = w + msgs[id].mbytes - 1
  BY DEF Messages
<1>1. LastByte(msgs[id]) = l /\ w <= l /\ 0 <= w
  <2>1. msgs[id].mbytes \in Nat /\ msgs[id].mbytes > 0
    BY DEF Messages
  <2>2. b.soff \in Int
    BY DEF BlockQ
  <2>. QED BY <2>1, <2>2 DEF LastByte
<1>. PICK d : d = [dt |-> 1, id |-> id, soff |-> w, eoff |-> l]
  OBVIOUS
<1>2. d = Data(id)
  BY <1>1 DEF Data
<1>. PICK x \in Int : x = b.soff
  BY DEF BlockQ
<1>. PICK y \in Int : y = b.eoff
  BY DEF BlockQ
<1>. PICK g : g = [dt |-> 0, id |-> NoId, soff |-> x, eoff |-> w - 1]
  OBVIOUS
<1>. PICK h : h = [dt |-> 0, id |-> NoId, soff |-> l + 1, eoff |-> y]
  OBVIOUS
<1>3. g = Gap(b.soff, msgs[id].whence - 1) /\ h = Gap(LastByte(msgs[id]) + 1, b.eoff)
  BY <1>1 DEF Gap
<1>4. id \in Ids
  BY DEF Messages
<1>5. d \in BlockQ /\ g \in BlockQ /\ h \in BlockQ
  BY <1>4 DEF BlockQ
<1>6. x <= w /\ y >= l
  BY <1>1
<1>. PICK c : c = CutOf(b, id)
  OBVIOUS
<1>7. c = (IF x < w THEN <<g>> ELSE <<>>) \o <<d>> \o (IF y > l THEN <<h>> ELSE <<>>)
  BY <1>1, <1>2, <1>3 DEF CutOf
<1>8. \/ x = w /\ y = l /\ c = <<d>>
      \/ x < w /\ y = l /\ c = <<g, d>>
      \/ x = w /\ y > l /\ c = <<d, h>>
      \/ x < w /\ y > l /\ c = <<g, d, h>>
  <2>1. <<d>> \o <<>> = <<d>> /\ <<>> \o <<d>> = <<d>> /\ <<g>> \o <<d>> = <<g, d>>
        /\ <<g, d>> \o <<>> = <<g, d>> /\ <<g, d>> \o <<h>> = <<g, d, h>>
    BY ONLY <1>5, Pairs
  <2>2. <<d>> \o <<h>> = <<d, h>>
    BY ONLY <1>5, Pairs
  <2>3. CASE x < w
    <3>1. c = <<g, d>> \o (IF y > l THEN <<h>> ELSE <<>>)
      BY ONLY <1>7, <2>1, <2>3
    <3>2. CASE y > l
      BY ONLY <2>1, <2>3, <3>1, <3>2
    <3>3. CASE ~(y > l)
      <4>1. y = l
        BY <1>6, <3>3
      <4>2. c = <<g, d>>
        BY ONLY <2>1, <3>1, <3>3
      <4>. QED BY ONLY <2>3, <4>1, <4>2
    <3>. QED BY ONLY <3>2, <3>3
  <2>4. CASE ~(x < w)
    <3>1. c = <<d>> \o (IF y > l THEN <<h>> ELSE <<>>)
      BY ONLY <1>7, <2>1, <2>4
    <3>2. x = w
      BY <1>6, <2>4
    <3>3. CASE y > l
      BY ONLY <2>2, <3>1, <3>2, <3>3
    <3>4. CASE ~(y > l)
      <4>1. y = l
        BY <1>6, <3>4
      <4>2. c = <<d>>
        BY ONLY <2>1, <3>1, <3>4
      <4>. QED BY ONLY <3>2, <4>1, <4>2
    <3>. QED BY ONLY <3>3, <3>4
  <2>. QED BY <2>3, <2>4
<1>9. /\ c \in Seq(BlockQ) /\ c # <<>>
      /\ Run(c, Len(c), x, y)
      /\ \E j \in 1 .. Len(c) : c[j] = d
      /\ \A j \in 1 .. Len(c) : c[j].dt = 1 => c[j] = d
  <2>1. /\ d.dt = 1 /\ g.dt = 0 /\ h.dt = 0 /\ d.soff = w /\ d.eoff = l
        /\ g.soff = x /\ g.eoff = w - 1 /\ h.soff = l + 1 /\ h.eoff = y
    OBVIOUS
  <2>2. CASE x = w /\ y = l /\ c = <<d>>
    BY <1>1, <1>5, <2>1, <2>2 DEF Run
  <2>3. CASE x < w /\ y = l /\ c = <<g, d>>
    <3>1. Len(c) = 2 /\ c[1] = g /\ c[2] = d /\ 1 .. 2 = {1, 2} /\ c \in Seq(BlockQ) /\ c # <<>>
      BY <1>5, <2>3
    <3>2. Run(c, 2, x, y)
      BY <1>1, <2>1, <2>3, <3>1 DEF Run
    <3>. QED BY <2>1, <3>1, <3>2
  <2>4. CASE x = w /\ y > l /\ c = <<d, h>>
    <3>1. Len(c) = 2 /\ c[1] = d /\ c[2] = h /\ 1 .. 2 = {1, 2} /\ c \in Seq(BlockQ) /\ c # <<>>
      BY <1>5, <2>4
    <3>2. Run(c, 2, x, y)
      BY <1>1, <2>1, <2>4, <3>1 DEF Run
    <3>. QED BY <2>1, <3>1, <3>2
  <2>5. CASE x < w /\ y > l /\ c = <<g, d, h>>
    <3>1. Len(c) = 3 /\ c[1] = g /\ c[2] = d /\ c[3] = h /\ 1 .. 3 = {1, 2, 3}
          /\ c \in Seq(BlockQ) /\ c # <<>>
      BY <1>5, <2>5
    <3>2. Run(c, 3, x, y)
      BY <1>1, <2>1, <2>5, <3>1 DEF Run
    <3>. QED BY <2>1, <3>1, <3>2
  <2>. QED BY ONLY <1>8, <2>2, <2>3, <2>4, <2>5
<1>10. d.dt = 1 /\ d.id = id /\ d.soff = msgs[id].whence
       /\ d.eoff = msgs[id].whence + msgs[id].mbytes - 1
  OBVIOUS
<1>. QED
  BY ONLY <1>2, <1>9, <1>10, c = CutOf(b, id), x = b.soff, y = b.eoff

HoldsIt(s, id) ==
  {k \in DOMAIN s : /\ s[k].dt = 0
                    /\ s[k].soff <= msgs[id].whence
                    /\ s[k].eoff >= LastByte(msgs[id])}

LEMMA CarvedIs ==
  ASSUME NEW s \in Seq(BlockQ), NEW id
  PROVE  /\ HoldsIt(s, id) = {} => Carved(s, id) = <<>>
         /\ HoldsIt(s, id) # {} =>
              \E at \in HoldsIt(s, id) :
                 Carved(s, id) = SubSeq(s, 1, at - 1) \o CutOf(s[at], id) \o SubSeq(s, at + 1, Len(s))
<1>1. HoldsIt(s, id) = {} => Carved(s, id) = <<>>
  BY DEF Carved, HoldsIt
<1>2. HoldsIt(s, id) # {} => Min(HoldsIt(s, id)) \in HoldsIt(s, id)
  <2>1. HoldsIt(s, id) \subseteq Nat
    BY DEF HoldsIt
  <2>. QED BY <2>1, MinFacts
<1>3. ASSUME HoldsIt(s, id) # {}, NEW at, at = Min(HoldsIt(s, id))
      PROVE  Carved(s, id) = SubSeq(s, 1, at - 1) \o CutOf(s[at], id) \o SubSeq(s, at + 1, Len(s))
  BY <1>3, Zenon DEF Carved, HoldsIt, CutOf
<1>. QED
  BY <1>1, <1>2, <1>3

LEMMA CarvedType ==
  ASSUME NEW id
  PROVE  Carved(<<>>, id) = <<>>
<1>1. <<>> \in Seq(BlockQ) /\ HoldsIt(<<>>, id) = {}
  BY DEF HoldsIt
<1>. QED
  BY <1>1, CarvedIs

LEMMA CarvedPart ==
  ASSUME Messages(msgs), NEW done, NEW s, Part(msgs, s, done), NEW id \in DOMAIN msgs
  PROVE  Carved(s, id) = <<>> \/ Part(msgs, Carved(s, id), done \cup {id})
<1>1. s \in Seq(BlockQ) /\ s # <<>> /\ Run(s, Len(s), 0, QBytes - 1)
  BY DEF Part
<1>. SUFFICES ASSUME HoldsIt(s, id) # {} PROVE Part(msgs, Carved(s, id), done \cup {id})
  BY <1>1, CarvedIs
<1>2. PICK at \in HoldsIt(s, id) :
         Carved(s, id) = SubSeq(s, 1, at - 1) \o CutOf(s[at], id) \o SubSeq(s, at + 1, Len(s))
  BY <1>1, CarvedIs
<1>. PICK n : n = Len(s)
  OBVIOUS
<1>3. n \in Nat \ {0} /\ s \in [1 .. n -> BlockQ] /\ DOMAIN s = 1 .. n
  BY <1>1, EmptySeq, LenProperties
<1>. PICK b : b = s[at]
  OBVIOUS
<1>4. /\ at \in 1 .. n /\ b \in BlockQ /\ b.dt = 0 /\ b.soff <= msgs[id].whence
      /\ b.eoff >= LastByte(msgs[id]) /\ 0 <= b.soff
  <2>1. at \in 1 .. n /\ b.dt = 0 /\ b.soff <= msgs[id].whence /\ b.eoff >= LastByte(msgs[id])
    BY <1>3 DEF HoldsIt
  <2>2. b \in BlockQ
    BY <1>3, <2>1
  <2>3. 0 <= b.soff
    BY <1>1, <1>3, <2>1, RunLies
  <2>. QED BY <2>1, <2>2, <2>3
<1>. PICK cut : cut = CutOf(b, id)
  OBVIOUS
<1>. PICK d : d = Data(id)
  OBVIOUS
<1>5. /\ cut \in Seq(BlockQ) /\ cut # <<>> /\ Run(cut, Len(cut), b.soff, b.eoff)
      /\ \E j \in 1 .. Len(cut) : cut[j] = d
      /\ \A j \in 1 .. Len(cut) : cut[j].dt = 1 => cut[j] = d
      /\ d.dt = 1 /\ d.id = id /\ d.soff = msgs[id].whence
      /\ d.eoff = msgs[id].whence + msgs[id].mbytes - 1
  BY <1>4, CutRuns
<1>. PICK c : c = Len(cut)
  OBVIOUS
<1>6. c \in Nat \ {0} /\ cut \in [1 .. c -> BlockQ]
  BY <1>5, EmptySeq, LenProperties
<1>. PICK t : t = Spliced(s, at, cut, n, c)
  OBVIOUS
<1>7. t = Carved(s, id) /\ t \in Seq(BlockQ) /\ Len(t) = n + c - 1
  <2>1. at \in 1 .. Len(s)
    BY <1>4
  <2>2. /\ SubSeq(s, 1, at - 1) \o cut \o SubSeq(s, at + 1, Len(s))
              = Spliced(s, at, cut, Len(s), Len(cut))
        /\ Spliced(s, at, cut, Len(s), Len(cut)) \in Seq(BlockQ)
        /\ Len(Spliced(s, at, cut, Len(s), Len(cut))) = Len(s) + Len(cut) - 1
    BY ONLY <1>1, <1>5, <2>1, SplicedIs
  <2>3. Carved(s, id) = SubSeq(s, 1, at - 1) \o cut \o SubSeq(s, at + 1, Len(s))
    BY <1>2
  <2>4. t = Spliced(s, at, cut, Len(s), Len(cut))
    OBVIOUS
  <2>. QED BY ONLY <2>2, <2>3, <2>4, n = Len(s), c = Len(cut)
<1>8. Run(t, n + c - 1, 0, QBytes - 1)
  <2>1. Run(cut, c, s[at].soff, s[at].eoff) /\ s[at].dt = 0 /\ Run(s, n, 0, QBytes - 1)
    BY <1>1, <1>4, <1>5
  <2>. QED BY <1>3, <1>4, <1>6, <2>1, SplicedRuns
<1>9. \A i \in 1 .. n + c - 1 :
        t[i] = IF i < at THEN s[i] ELSE IF i < at + c THEN cut[i - at + 1] ELSE s[i - c + 1]
  BY DEF Spliced
<1>10. ASSUME NEW i \in 1 .. n + c - 1, t[i].dt = 1
       PROVE  /\ t[i].id \in done \cup {id}
              /\ t[i].soff = msgs[t[i].id].whence
              /\ t[i].eoff = t[i].soff + msgs[t[i].id].mbytes - 1
  <2>0. \A j \in 1 .. n : s[j].dt = 1 =>
          /\ s[j].id \in done
          /\ s[j].soff = msgs[s[j].id].whence
          /\ s[j].eoff = s[j].soff + msgs[s[j].id].mbytes - 1
    BY DEF Part
  <2>1. (\E j \in 1 .. n : t[i] = s[j]) \/ (\E j \in 1 .. c : t[i] = cut[j])
    <3>1. CASE i < at
      BY <1>3, <1>4, <1>6, <1>9, <3>1
    <3>2. CASE ~(i < at) /\ i < at + c
      <4>1. i - at + 1 \in 1 .. c
        BY <1>3, <1>4, <1>6, <3>2
      <4>. QED BY <1>9, <3>2, <4>1
    <3>3. CASE ~(i < at) /\ ~(i < at + c)
      <4>1. i - c + 1 \in 1 .. n
        BY <1>3, <1>4, <1>6, <3>3
      <4>. QED BY <1>9, <3>3, <4>1
    <3>. QED BY <3>1, <3>2, <3>3
  <2>2. CASE \E j \in 1 .. n : t[i] = s[j]
    BY <1>10, <2>0, <2>2
  <2>3. CASE \E j \in 1 .. c : t[i] = cut[j]
    BY <1>5, <1>10, <2>3
  <2>. QED BY <2>1, <2>2, <2>3
<1>11. ASSUME NEW j \in done \cup {id}
       PROVE  \E i \in 1 .. n + c - 1 : t[i].dt = 1 /\ t[i].id = j
  <2>1. CASE j = id
    <3>1. PICK l \in 1 .. c : cut[l] = d
      BY <1>5
    <3>2. /\ at + l - 1 \in 1 .. n + c - 1 /\ ~(at + l - 1 < at) /\ at + l - 1 < at + c
          /\ (at + l - 1) - at + 1 = l
      BY <1>3, <1>4, <1>6
    <3>3. t[at + l - 1] = d
      BY <1>9, <3>1, <3>2
    <3>. QED BY <1>5, <2>1, <3>2, <3>3
  <2>2. CASE j # id
    <3>1. PICK l \in 1 .. n : s[l].dt = 1 /\ s[l].id = j
      BY <2>2 DEF Part
    <3>2. l # at
      BY <1>4, <3>1
    <3>3. CASE l < at
      <4>1. l \in 1 .. n + c - 1
        BY <1>3, <1>6
      <4>. QED BY <1>9, <3>1, <3>3, <4>1
    <3>4. CASE l > at
      <4>1. /\ l + c - 1 \in 1 .. n + c - 1 /\ ~(l + c - 1 < at) /\ ~(l + c - 1 < at + c)
            /\ (l + c - 1) - c + 1 = l
        BY <1>3, <1>4, <1>6, <3>4
      <4>2. t[l + c - 1] = s[l]
        BY <1>9, <4>1
      <4>. QED BY <3>1, <4>1, <4>2
    <3>. QED BY <1>3, <1>4, <3>2, <3>3, <3>4
  <2>. QED BY <2>1, <2>2
<1>12. t # <<>>
  BY <1>3, <1>6, <1>7, EmptySeq
<1>13. Part(msgs, t, done \cup {id})
  BY <1>7, <1>8, <1>10, <1>11, <1>12 DEF Part
<1>. QED
  BY <1>7, <1>13

LEMMA CarvedFinds ==
  ASSUME Messages(msgs), Placed(msgs), NEW done, done \subseteq DOMAIN msgs,
         NEW s, Part(msgs, s, done), NEW id \in DOMAIN msgs \ done
  PROVE  HoldsIt(s, id) # {}
<1>1. s \in Seq(BlockQ) /\ s # <<>> /\ Run(s, Len(s), 0, QBytes - 1)
  BY DEF Part
<1>. PICK n : n = Len(s)
  OBVIOUS
<1>2. n \in Nat \ {0} /\ s \in [1 .. n -> BlockQ] /\ DOMAIN s = 1 .. n
  BY <1>1, EmptySeq, LenProperties
<1>. PICK w \in Int : w = msgs[id].whence
  BY DEF Messages
<1>. PICK l \in Int : l = w + msgs[id].mbytes - 1
  BY DEF Messages
<1>3. Place(msgs[id]) = w .. l /\ w <= l /\ w .. l \subseteq Offsets
  <2>1. msgs[id].mbytes \in Nat /\ msgs[id].mbytes > 0
    BY DEF Messages
  <2>. QED BY <2>1 DEF Place, Placed
<1>4. 0 <= w /\ l <= QBytes - 1 /\ LastByte(msgs[id]) = l
  <2>1. w \in Offsets /\ l \in Offsets
    BY <1>3
  <2>2. msgs[id].mbytes \in Nat /\ msgs[id].mbytes > 0
    BY DEF Messages
  <2>. QED BY <2>1, <2>2, QBytesType DEF Offsets, LastByte
<1>5. PICK k \in 1 .. n : w \in Span(s[k])
  <2>1. w \in Offsets
    BY <1>3
  <2>. QED BY <1>1, <1>2, <2>1, RunLies
<1>6. \A i \in 1 .. n : s[i].soff \in Int /\ s[i].eoff \in Int /\ s[i].dt \in {0, 1}
  BY <1>2 DEF BlockQ
<1>7. ASSUME NEW i \in 1 .. n, s[i].dt = 1 PROVE Span(s[i]) \cap (w .. l) = {}
  <2>1. /\ s[i].id \in done /\ s[i].soff = msgs[s[i].id].whence
        /\ s[i].eoff = s[i].soff + msgs[s[i].id].mbytes - 1
    BY <1>7 DEF Part
  <2>2. Span(s[i]) = Place(msgs[s[i].id])
    BY <2>1 DEF Span, Place
  <2>3. s[i].id \in DOMAIN msgs /\ s[i].id # id
    BY <2>1
  <2>4. Place(msgs[s[i].id]) \cap Place(msgs[id]) = {}
    BY <2>3 DEF Placed
  <2>. QED BY <1>3, <2>2, <2>4
<1>8. s[k].dt = 0 /\ s[k].soff <= w
  <2>1. s[k].soff <= w
    BY <1>5, <1>6 DEF Span
  <2>2. s[k].dt # 1
    <3>1. w \in w .. l
      BY <1>3
    <3>. QED BY <1>5, <1>7, <3>1
  <2>. QED BY <1>6, <2>1, <2>2
<1>9. s[k].eoff >= l
  <2>. SUFFICES ASSUME s[k].eoff < l PROVE FALSE
    BY <1>6
  <2>1. k # n
    BY <1>1, <1>4, <1>6 DEF Run
  <2>2. k < n /\ k + 1 \in 1 .. n
    BY <1>2, <2>1
  <2>3. s[k + 1].soff = s[k].eoff + 1 /\ s[k + 1].dt = 1 /\ s[k + 1].soff <= s[k + 1].eoff
    <3>1. /\ s[k + 1].soff = s[k].eoff + 1 /\ (s[k].dt = 1 \/ s[k + 1].dt = 1)
          /\ s[k + 1].soff <= s[k + 1].eoff
      BY <1>1, <2>2 DEF Run
    <3>. QED BY <1>8, <3>1
  <2>4. w <= s[k].eoff
    BY <1>5, <1>6 DEF Span
  <2>5. s[k + 1].soff \in w .. l /\ s[k + 1].soff \in s[k + 1].soff .. s[k + 1].eoff
    BY <1>6, <2>2, <2>3, <2>4
  <2>. QED BY <1>7, <2>2, <2>3, <2>5 DEF Span
<1>. QED
  BY <1>2, <1>4, <1>8, <1>9 DEF HoldsIt

LEMMA IdsInSeq ==
  ASSUME NEW D, IsFiniteSet(D), NEW ids, ids = SetToSeq(D)
  PROVE  /\ ids \in Seq(D) /\ Len(ids) \in Nat /\ ids \in [1 .. Len(ids) -> D]
         /\ \A i, j \in 1 .. Len(ids) : ids[i] = ids[j] => i = j
         /\ \A x \in D : \E i \in 1 .. Len(ids) : ids[i] = x
<1>. PICK c : c = Cardinality(D)
  OBVIOUS
<1>1. c \in Nat /\ ExistsBijection(1 .. c, D)
  BY FS_CardinalityType
<1>2. PICK f : f \in Bijection(1 .. c, D)
  BY <1>1 DEF ExistsBijection
<1>3. f \in [1 .. c -> D] /\ IsInjective(f)
  BY <1>2 DEF Bijection, Injection, IsInjective
<1>4. ids \in [1 .. c -> D] /\ IsInjective(ids)
  BY <1>3 DEF SetToSeq
<1>5. ids \in Injection(1 .. c, D)
  BY <1>4 DEF Injection, IsInjective
<1>6. Cardinality(1 .. c) = c
  BY <1>1, FS_Interval
<1>7. ids \in Surjection(1 .. c, D)
  BY <1>5, <1>6, FS_Injection
<1>8. ids \in Seq(D) /\ Len(ids) = c
  BY <1>1, <1>4
<1>. QED
  BY <1>1, <1>4, <1>7, <1>8 DEF IsInjective, Surjection

Maps == {s \in Seq(BlockQ) :
           s = <<>> \/ \E done \in SUBSET DOMAIN msgs : Part(msgs, s, done)}

LEMMA CarvedMaps ==
  ASSUME Messages(msgs), NEW s \in Maps, NEW id \in DOMAIN msgs
  PROVE  Carved(s, id) \in Maps
<1>1. CASE s = <<>>
  BY <1>1, CarvedType DEF Maps
<1>2. CASE s # <<>>
  <2>1. PICK done \in SUBSET DOMAIN msgs : Part(msgs, s, done)
    BY <1>2 DEF Maps
  <2>. PICK t : t = Carved(s, id)
    OBVIOUS
  <2>2. t = <<>> \/ Part(msgs, t, done \cup {id})
    BY <2>1, CarvedPart
  <2>3. <<>> \in Seq(BlockQ)
    OBVIOUS
  <2>4. done \cup {id} \in SUBSET DOMAIN msgs
    OBVIOUS
  <2>5. Part(msgs, t, done \cup {id}) => t \in Seq(BlockQ)
    BY DEF Part
  <2>. QED BY <2>2, <2>3, <2>4, <2>5 DEF Maps
<1>. QED
  BY <1>1, <1>2

LEMMA WholeGap ==
  Part(msgs, <<Gap(0, QBytes - 1)>>, {})
<1>. PICK g : g = [dt |-> 0, id |-> NoId, soff |-> 0, eoff |-> QBytes - 1]
  OBVIOUS
<1>1. g \in BlockQ /\ g.soff = 0 /\ g.eoff = QBytes - 1 /\ g.dt = 0 /\ 0 <= QBytes - 1
  BY QBytesType DEF BlockQ
<1>. PICK s : s = <<g>>
  OBVIOUS
<1>2. s \in Seq(BlockQ) /\ s # <<>> /\ Len(s) = 1 /\ s[1] = g
  BY <1>1
<1>3. Run(s, 1, 0, QBytes - 1)
  BY <1>1, <1>2 DEF Run
<1>4. Part(msgs, s, {})
  BY <1>1, <1>2, <1>3 DEF Part
<1>. QED
  BY <1>4 DEF Gap

(* The map that MakeDataArray makes.                                       *)
IsMap(map) ==
  \E n \in Nat : /\ n = Size(map) /\ map \in MapOf(n)
                 /\ map # <<>> => n > 0 /\ Fresh(msgs, map, n)

LEMMA MakesMap ==
  ASSUME Messages(msgs)
  PROVE  IsMap(MakeDataArray) /\ (Placed(msgs) => MakeDataArray # <<>>)
<1>. DEFINE D == DOMAIN msgs
            ids == SetToSeq(D)
            a == <<Gap(0, QBytes - 1)>>
            St(v, k) == IF k = 0 THEN a ELSE Carved(v[k - 1], ids[k])
            Eq(v) == v = [k \in 0 .. Len(ids) |-> St(v, k)]
            carved == CHOOSE v : Eq(v)
<1>. PICK c : c = Len(ids)
  OBVIOUS
<1>1. IsFiniteSet(D)
  <2>1. D \in SUBSET Ids /\ IsFiniteSet(Ids)
    BY SpaceAssumption DEF Messages
  <2>. QED BY <2>1, FS_Subset
<1>2. /\ c \in Nat /\ ids \in [1 .. c -> D]
      /\ \A i, j \in 1 .. c : ids[i] = ids[j] => i = j
      /\ \A x \in D : \E i \in 1 .. c : ids[i] = x
  <2>. PICK q : q = ids
    OBVIOUS
  <2>. HIDE DEF D
  <2>. QED BY <1>1, IdsInSeq
<1>3. a \in Maps
  <2>1. Part(msgs, a, {}) /\ {} \in SUBSET DOMAIN msgs
    BY WholeGap
  <2>2. a \in Seq(BlockQ)
    BY <2>1 DEF Part
  <2>. QED BY <2>1, <2>2 DEF Maps
<1>4. Eq(carved)
  <2>. DEFINE g == [kv \in Nat \X Maps |-> IF kv[1] \in 1 .. c THEN Carved(kv[2], ids[kv[1]]) ELSE a]
  <2>1. g \in [Nat \X Maps -> Maps]
    <3>1. ASSUME NEW kv \in Nat \X Maps
          PROVE  (IF kv[1] \in 1 .. c THEN Carved(kv[2], ids[kv[1]]) ELSE a) \in Maps
      <4>. HIDE DEF ids, a
      <4>1. kv[2] \in Maps
        OBVIOUS
      <4>2. CASE kv[1] \in 1 .. c
        <5>1. ids[kv[1]] \in DOMAIN msgs
          BY <1>2, <4>2
        <5>. QED BY <4>1, <4>2, <5>1, CarvedMaps
      <4>3. CASE kv[1] \notin 1 .. c
        BY <1>3, <4>3
      <4>. QED BY <4>2, <4>3
    <3>. QED BY <3>1
  <2>2. PICK v : /\ v \in [0 .. c -> Maps] /\ v[0] = a
                 /\ \A k \in 1 .. c : v[k] = g[<<k, v[k - 1]>>]
    <3>. HIDE DEF g, a
    <3>1. \A m \in Nat : \E v : Recurs(v, Maps, a, g, m)
      BY ONLY <1>3, <2>1, Recursion
    <3>. QED BY <1>2, <3>1 DEF Recurs
  <2>3. ASSUME NEW k \in 0 .. c PROVE v[k] = St(v, k)
    <3>. HIDE DEF ids, a
    <3>1. CASE k = 0
      BY <2>2, <3>1
    <3>2. CASE k # 0
      <4>1. k \in 1 .. c /\ k - 1 \in 0 .. c /\ k \in Nat
        BY <1>2, <3>2
      <4>2. v[k - 1] \in Maps
        BY <2>2, <4>1
      <4>3. g[<<k, v[k - 1]>>] = Carved(v[k - 1], ids[k])
        BY <4>1, <4>2
      <4>. QED BY <2>2, <3>2, <4>1, <4>3
    <3>. QED BY <3>1, <3>2
  <2>4. v = [k \in 0 .. c |-> St(v, k)]
    <3>. HIDE DEF St
    <3>. QED BY <2>2, <2>3
  <2>5. Eq(v)
    <3>. HIDE DEF St, ids
    <3>. QED BY <2>4
  <2>. HIDE DEF Eq
  <2>. QED BY <2>5
<1>. DEFINE blocks == carved[Len(ids)]
<1>5. MakeDataArray = ListOf(blocks, Len(blocks))
  BY DEF MakeDataArray, ListOf
<1>6. /\ carved[0] = a
      /\ \A k \in 1 .. c : carved[k] = Carved(carved[k - 1], ids[k])
  <2>1. carved = [k \in 0 .. c |-> St(carved, k)]
    BY <1>4
  <2>. HIDE DEF carved, ids, a
  <2>2. \A k \in 0 .. c : carved[k] = St(carved, k)
    <3>. HIDE DEF St
    <3>. QED BY <2>1
  <2>. QED BY <1>2, <2>2
<1>. DEFINE Done(k) == {ids[i] : i \in 1 .. k}
            S == {k \in Nat : k <= c => /\ carved[k] = <<>> \/ Part(msgs, carved[k], Done(k))
                                        /\ Placed(msgs) => carved[k] # <<>>}
<1>. HIDE DEF carved, ids
<1>7. 0 \in S
  <2>1. Part(msgs, a, {})
    BY WholeGap
  <2>2. a # <<>>
    BY <2>1 DEF Part
  <2>3. Done(0) = {}
    OBVIOUS
  <2>. HIDE DEF Done, a
  <2>. QED BY <1>6, <2>1, <2>2, <2>3
<1>8. \A k \in Nat : k \in S => k + 1 \in S
  <2>. SUFFICES ASSUME NEW k \in Nat, k \in S, k + 1 <= c
                PROVE  /\ carved[k + 1] = <<>> \/ Part(msgs, carved[k + 1], Done(k + 1))
                       /\ Placed(msgs) => carved[k + 1] # <<>>
    <3>. HIDE DEF Done
    <3>. QED OBVIOUS
  <2>1. /\ carved[k] = <<>> \/ Part(msgs, carved[k], Done(k))
        /\ Placed(msgs) => carved[k] # <<>>
    <3>. HIDE DEF Done
    <3>. QED BY <1>2
  <2>. PICK s : s = carved[k]
    OBVIOUS
  <2>. PICK id : id = ids[k + 1]
    OBVIOUS
  <2>. PICK done : done = Done(k)
    OBVIOUS
  <2>2. id \in DOMAIN msgs /\ k + 1 \in 1 .. c
    BY <1>2
  <2>3. carved[k + 1] = Carved(s, id)
    <3>1. (k + 1) - 1 = k
      OBVIOUS
    <3>. QED BY <1>6, <2>2, <3>1
  <2>4. Done(k + 1) = done \cup {id}
    <3>1. \A i \in 1 .. k + 1 : i \in 1 .. k \/ i = k + 1
      OBVIOUS
    <3>2. \A i \in 1 .. k : i \in 1 .. k + 1
      OBVIOUS
    <3>3. k + 1 \in 1 .. k + 1
      OBVIOUS
    <3>. QED BY <3>1, <3>2, <3>3
  <2>5. id \notin done /\ done \subseteq DOMAIN msgs
    <3>1. \A i \in 1 .. k : i \in 1 .. c /\ i # k + 1
      BY <1>2
    <3>. QED BY <1>2, <2>2, <3>1
  <2>. HIDE DEF Done
  <2>6. CASE s = <<>>
    BY <2>1, <2>3, <2>6, CarvedType
  <2>7. CASE s # <<>>
    <3>1. Part(msgs, s, done)
      BY <2>1, <2>7
    <3>2. Carved(s, id) = <<>> \/ Part(msgs, Carved(s, id), done \cup {id})
      BY <2>2, <3>1, CarvedPart
    <3>3. ASSUME Placed(msgs) PROVE Carved(s, id) # <<>>
      <4>1. HoldsIt(s, id) # {}
        BY <2>2, <2>5, <3>1, <3>3, CarvedFinds
      <4>2. s \in Seq(BlockQ) /\ s # <<>> /\ Run(s, Len(s), 0, QBytes - 1)
        BY <3>1 DEF Part
      <4>3. PICK at \in HoldsIt(s, id) :
               Carved(s, id) = SubSeq(s, 1, at - 1) \o CutOf(s[at], id) \o SubSeq(s, at + 1, Len(s))
        BY <4>1, <4>2, CarvedIs
      <4>4. Len(s) \in Nat /\ at \in 1 .. Len(s) /\ s[at] \in BlockQ /\ s[at].dt = 0
            /\ s[at].soff <= msgs[id].whence /\ s[at].eoff >= LastByte(msgs[id])
        BY <4>2, LenProperties DEF HoldsIt
      <4>5. s \in [1 .. Len(s) -> BlockQ] /\ Len(s) # 0
        BY <4>2, LenProperties, EmptySeq
      <4>6. 0 <= s[at].soff
        BY <4>2, <4>4, <4>5, RunLies
      <4>. PICK b : b = s[at]
        OBVIOUS
      <4>. PICK cut : cut = CutOf(b, id)
        OBVIOUS
      <4>7. cut \in Seq(BlockQ) /\ cut # <<>>
        BY <2>2, <4>4, <4>6, CutRuns
      <4>8. /\ SubSeq(s, 1, at - 1) \o cut \o SubSeq(s, at + 1, Len(s))
                 = Spliced(s, at, cut, Len(s), Len(cut))
            /\ Len(Spliced(s, at, cut, Len(s), Len(cut))) = Len(s) + Len(cut) - 1
        BY ONLY <4>2, <4>4, <4>7, SplicedIs
      <4>9. Len(cut) \in Nat /\ Len(cut) > 0
        BY <4>7, EmptySeq
      <4>10. Carved(s, id) = Spliced(s, at, cut, Len(s), Len(cut))
        BY <4>3, <4>8
      <4>11. Len(Carved(s, id)) > 0
        <5>1. Len(Carved(s, id)) = Len(s) + Len(cut) - 1
          BY ONLY <4>8, <4>10
        <5>. QED BY ONLY <4>4, <4>5, <4>9, <5>1
      <4>12. Len(<<>>) = 0
        OBVIOUS
      <4>. QED BY ONLY <4>11, <4>12
    <3>. QED BY <2>3, <2>4, <3>2, <3>3
  <2>. QED BY <2>6, <2>7
<1>9. c \in S
  <2>. HIDE DEF S
  <2>1. \A k \in Nat : k \in S
    BY <1>7, <1>8, SetInduction
  <2>. QED BY <1>2, <2>1
<1>. PICK s : s = carved[c]
  OBVIOUS
<1>10. Done(c) = DOMAIN msgs
  <2>1. \A x \in D : x \in Done(c)
    BY <1>2
  <2>2. \A x \in Done(c) : x \in D
    BY <1>2
  <2>. HIDE DEF Done
  <2>. QED BY <2>1, <2>2
<1>11. s = <<>> \/ Part(msgs, s, DOMAIN msgs)
  <2>. HIDE DEF Done
  <2>. QED BY <1>2, <1>9, <1>10
<1>12. Placed(msgs) => s # <<>>
  BY <1>2, <1>9
<1>. PICK n : n = Len(s)
  OBVIOUS
<1>. PICK map : map = ListOf(s, n)
  OBVIOUS
<1>13. MakeDataArray = map
  BY <1>5
<1>14. n \in Nat /\ s \in [1 .. n -> BlockQ] /\ (s # <<>> => n > 0) /\ (s = <<>> => n = 0)
  <2>1. s \in Seq(BlockQ)
    <3>1. <<>> \in Seq(BlockQ)
      OBVIOUS
    <3>. QED BY <1>11, <3>1 DEF Part
  <2>. QED BY <2>1, EmptySeq, LenProperties
<1>15. IsListOf(map, s, n)
  BY <1>14, ListIs
<1>16. DOMAIN map = 1 .. n /\ map \in MapOf(n)
  BY <1>15 DEF IsListOf, MapOf
<1>17. n = Size(map)
  <2>1. Cardinality(1 .. n) = IF 1 > n THEN 0 ELSE n - 1 + 1
    <3>1. n \in Int /\ 1 \in Int
      BY <1>14
    <3>. QED BY ONLY <3>1, FS_Interval
  <2>. QED BY ONLY <1>14, <1>16, <2>1 DEF Size
<1>18. CASE s = <<>>
  <2>1. n = 0 /\ DOMAIN map = {}
    BY <1>14, <1>16, <1>18
  <2>2. map = <<>>
    BY <1>16, <2>1 DEF MapOf
  <2>3. ~Placed(msgs)
    BY <1>12, <1>18
  <2>. QED BY <1>13, <1>14, <1>16, <1>17, <2>2, <2>3 DEF IsMap
<1>19. CASE s # <<>>
  <2>1. Part(msgs, s, DOMAIN msgs) /\ n > 0
    BY <1>11, <1>14, <1>19
  <2>2. Run(s, n, 0, QBytes - 1)
    BY <2>1 DEF Part
  <2>3. Linked(map, 1, n) /\ Tiles(map, 1, n) /\ map[1].soff = 0 /\ map[1].prev = NULL
    BY <1>14, <2>1, <2>2, ListRuns
  <2>4. \A i \in 1 .. n : map[i].dt = s[i].dt /\ map[i].id = s[i].id
                          /\ map[i].soff = s[i].soff /\ map[i].eoff = s[i].eoff
    BY <1>15 DEF IsListOf
  <2>5. Named(msgs, map, 1, n)
    BY <2>1, <2>4 DEF Part, Named
  <2>6. \A id \in DOMAIN msgs : \E i \in 1 .. n : map[i].dt = 1 /\ map[i].id = id
    BY <2>1, <2>4 DEF Part
  <2>7. Fresh(msgs, map, n)
    BY <2>3, <2>5, <2>6 DEF Fresh
  <2>8. map # <<>>
    <3>1. 1 \in DOMAIN map
      BY <1>14, <1>16, <2>1
    <3>. QED BY <3>1
  <2>. QED BY <1>13, <1>14, <1>16, <1>17, <2>1, <2>7, <2>8 DEF IsMap
<1>. QED
  BY <1>18, <1>19

Moves == [by : 0 .. 3, obj : Nat, to : Nat]

(* What FindSpace chooses, of whatever map.                                *)
MoveIn(map, n, mv) ==
  /\ mv \in Moves /\ mv.by \in 1 .. 3 /\ mv.obj \in 1 .. n /\ mv.to \in 0 .. n
  /\ mv.by = 1 => mv.to = map[mv.obj].prev

LEMMA NextMoveIs ==
  ASSUME NEW map, NEW size, NEW c1, c1 = DataCompress_1(map, size),
         NEW c2, c2 = DataCompress_2(map, size), NEW c3, c3 = DataCompress_3(map)
  PROVE  /\ c1 # NULL => NextMove(map, size) = [by |-> 1, obj |-> c1, to |-> map[c1].prev]
         /\ c1 = NULL /\ c2 # NULL =>
              NextMove(map, size) = [by |-> 2, obj |-> c2, to |-> Target(map, c2)]
         /\ c1 = NULL /\ c2 = NULL /\ c3 # NULL =>
              NextMove(map, size) = [by |-> 3, obj |-> map[c3].next, to |-> c3]
         /\ c1 = NULL /\ c2 = NULL /\ c3 = NULL => NextMove(map, size) = NoMove
BY DEF NextMove

LEMMA NextMoveIn ==
  ASSUME NEW n \in Nat \ {0}, NEW map \in MapOf(n), NEW size,
         NEW mv, mv = NextMove(map, size), mv # NoMove
  PROVE  MoveIn(map, n, mv)
<1>. PICK o : o = Order(map)
  OBVIOUS
<1>. PICK c1 : c1 = DataCompress_1(map, size)
  OBVIOUS
<1>. PICK c2 : c2 = DataCompress_2(map, size)
  OBVIOUS
<1>. PICK c3 : c3 = DataCompress_3(map)
  OBVIOUS
<1>0. /\ c1 # NULL => mv = [by |-> 1, obj |-> c1, to |-> map[c1].prev]
      /\ c1 = NULL /\ c2 # NULL => mv = [by |-> 2, obj |-> c2, to |-> Target(map, c2)]
      /\ c1 = NULL /\ c2 = NULL /\ c3 # NULL => mv = [by |-> 3, obj |-> map[c3].next, to |-> c3]
      /\ c1 = NULL /\ c2 = NULL /\ c3 = NULL => mv = NoMove
  BY NextMoveIs
<1>1. WalkOf(map, o, n)
  BY OrderIsWalk
<1>2. \A k \in DOMAIN o : o[k] \in 1 .. n
  BY <1>1 DEF WalkOf
<1>3. CASE c1 # NULL
  <2>1. mv = [by |-> 1, obj |-> c1, to |-> map[c1].prev]
    BY <1>0, <1>3
  <2>2. c1 \in 1 .. n
    <3>1. PICK k \in DOMAIN o : c1 = o[k] /\ Between(map, o, size, k)
      BY <1>3, DataCompress_1Finds
    <3>. QED BY <1>2, <3>1
  <2>3. map[c1].prev \in 0 .. n
    BY <2>2, BlockType
  <2>. QED BY <2>1, <2>2, <2>3 DEF MoveIn, Moves
<1>4. CASE c1 = NULL /\ c2 # NULL
  <2>1. mv = [by |-> 2, obj |-> c2, to |-> Target(map, c2)]
    BY <1>0, <1>4
  <2>2. PICK k \in DOMAIN o, d \in -1 .. 1 :
          c2 = o[k + d] /\ Tries(map, size, k, d) /\ Target(map, o[k + d]) # NULL
    BY <1>4, DataCompress_2Finds
  <2>3. c2 \in 1 .. n
    <3>1. k \in Int /\ (d # 0 => k + d \in DOMAIN o) /\ (d = 0 => k + d = k)
      <4>1. k \in 1 .. n
        BY <1>1 DEF WalkOf
      <4>2. d # 0 => k + d \in DOMAIN o
        <5>1. CASE map[o[k]].dt = 0
          BY <2>2, <5>1 DEF Tries
        <5>2. CASE map[o[k]].dt # 0
          BY <2>2, <5>2 DEF Tries
        <5>. QED BY <5>1, <5>2
      <4>. QED BY <4>1, <4>2
    <3>2. k + d \in DOMAIN o
      BY <3>1
    <3>. QED BY <1>2, <2>2, <3>2
  <2>4. Target(map, c2) \in 1 .. n
    <3>1. PICK l \in DOMAIN o : Target(map, c2) = o[l] /\ Target1(map, o, c2, l)
      BY <2>2, TargetFinds
    <3>. QED BY <1>2, <3>1
  <2>. QED BY <2>1, <2>3, <2>4 DEF MoveIn, Moves
<1>5. CASE c1 = NULL /\ c2 = NULL /\ c3 # NULL
  <2>1. mv = [by |-> 3, obj |-> map[c3].next, to |-> c3]
    BY <1>0, <1>5
  <2>2. PICK k \in DOMAIN o : c3 = o[k] /\ map[o[k]].dt = 0 /\ map[o[k]].next # NULL
    BY <1>5, DataCompress_3Finds
  <2>3. c3 \in 1 .. n
    BY <1>2, <2>2
  <2>4. map[c3].next \in 0 .. n /\ map[c3].next # 0
    BY <2>2, <2>3, BlockType DEF NULL
  <2>. QED BY <2>1, <2>3, <2>4 DEF MoveIn, Moves
<1>. QED
  BY <1>0, <1>3, <1>4, <1>5

LEMMA FreshEnds ==
  ASSUME NEW n \in Nat \ {0}, NEW map \in MapOf(n), NEW ms, Fresh(ms, map, n)
  PROVE  Ends(map)
<1>. PICK o : o = Order(map)
  OBVIOUS
<1>1. DOMAIN o = 1 .. n /\ \A k \in 1 .. n : o[k] = k
  BY FreshOrder
<1>2. map[n].next = NULL
  BY DEF Fresh, Linked
<1>. QED
  BY <1>1, <1>2 DEF Ends

(* When nothing fits, one of the three finds a move.                       *)
LEMMA FreshMove ==
  ASSUME NEW n \in Nat \ {0}, NEW map \in MapOf(n), NEW ms, Messages(ms), Fresh(ms, map, n),
         NEW size \in Nat, size > 0, Cardinality(Bytes(ms)) + size <= QBytes,
         BestFit(map, size) = NULL, NEW mv, mv = NextMove(map, size)
  PROVE  3 \in DOMAIN Order(map) /\ mv # NoMove /\ Step(ms, map, n, mv, size, 0)
<1>. PICK o : o = Order(map)
  OBVIOUS
<1>. PICK c1 : c1 = DataCompress_1(map, size)
  OBVIOUS
<1>. PICK c2 : c2 = DataCompress_2(map, size)
  OBVIOUS
<1>. PICK c3 : c3 = DataCompress_3(map)
  OBVIOUS
<1>0. /\ c1 # NULL => mv = [by |-> 1, obj |-> c1, to |-> map[c1].prev]
      /\ c1 = NULL /\ c2 # NULL => mv = [by |-> 2, obj |-> c2, to |-> Target(map, c2)]
      /\ c1 = NULL /\ c2 = NULL /\ c3 # NULL => mv = [by |-> 3, obj |-> map[c3].next, to |-> c3]
  BY NextMoveIs
<1>1. DOMAIN o = 1 .. n /\ \A k \in 1 .. n : o[k] = k
  BY FreshOrder
<1>2. Placed(ms)
  BY FreshPlaced
<1>3. \A i \in 1 .. n : ~FitAt(map, size, i)
  BY <1>1, BestFitFinds
<1>4. PICK g, h \in 1 .. n : g + 1 < h /\ map[g].dt = 0 /\ map[h].dt = 0
  BY <1>3, TwoGaps
<1>5. 3 \in DOMAIN o
  BY <1>1, <1>4
<1>6. \A i \in 1 .. n : /\ map[i].next = IF i = n THEN NULL ELSE i + 1
                        /\ map[i].prev = IF i = 1 THEN NULL ELSE i - 1
                        /\ map[i].dt \in {0, 1}
                        /\ Room(map[i]) \in Int /\ Room(map[i]) >= 1
  <2>. TAKE i \in 1 .. n
  <2>1. /\ map[i].next = IF i = n THEN NULL ELSE i + 1
        /\ map[i].prev = IF i = 1 THEN NULL ELSE i - 1
        /\ map[i].dt \in {0, 1}
        /\ map[i].soff \in Int /\ map[i].eoff \in Int /\ map[i].soff <= map[i].eoff
    BY FreshBlock
  <2>. QED BY <2>1 DEF Room
<1>7. CASE c1 # NULL
  <2>1. mv = [by |-> 1, obj |-> c1, to |-> map[c1].prev]
    BY <1>0, <1>7
  <2>2. PICK k \in DOMAIN o : c1 = o[k] /\ Between(map, o, size, k)
    BY <1>7, DataCompress_1Finds
  <2>3. /\ k \in 1 .. n /\ k - 1 \in 1 .. n /\ k + 1 \in 1 .. n
        /\ map[k - 1].dt = 0 /\ map[k].dt = 1 /\ map[k + 1].dt = 0
        /\ Room(map[k - 1]) + Room(map[k + 1]) >= size
    BY <1>1, <2>2 DEF Between
  <2>4. c1 = k /\ map[c1].prev = k - 1
    <3>1. c1 = k
      BY <1>1, <2>2, <2>3
    <3>2. k # 1
      BY <2>3
    <3>3. map[k].prev = k - 1
      BY <1>6, <2>3, <3>2
    <3>. QED BY ONLY <3>1, <3>3
  <2>5. mv.by = 1 /\ mv.obj = k /\ mv.to = k - 1
    BY <2>1, <2>4
  <2>. PICK to : to = mv.to
    OBVIOUS
  <2>. PICK obj : obj = mv.obj
    OBVIOUS
  <2>6. to \in 1 .. n - 2 /\ obj = to + 1 /\ to = k - 1 /\ obj = k
    BY <2>3, <2>5
  <2>7. map[to].dt = 0 /\ map[obj].dt = 1 /\ map[obj + 1].dt = 0
        /\ Room(map[to]) + Room(map[obj + 1]) >= size
    BY ONLY <2>3, <2>6
  <2>8. Step(ms, map, n, mv, size, 0)
    BY <1>2, <2>5, <2>6, <2>7 DEF Step
  <2>. QED BY <1>5, <2>5, <2>8 DEF NoMove
<1>8. CASE c1 = NULL /\ c2 # NULL
  <2>1. mv = [by |-> 2, obj |-> c2, to |-> Target(map, c2)]
    BY <1>0, <1>8
  <2>2. PICK k \in DOMAIN o, d \in -1 .. 1 :
          c2 = o[k + d] /\ Tries(map, size, k, d) /\ Target(map, o[k + d]) # NULL
    BY <1>8, DataCompress_2Finds
  <2>3. k \in 1 .. n /\ o[k] = k
    BY <1>1
  <2>. PICK obj \in Int : obj = k + d
    BY <2>3
  <2>4. /\ obj \in 1 .. n /\ map[obj].dt = 1
        /\ GapAt(map, obj - 1, n) \/ GapAt(map, obj + 1, n)
        /\ Room(map[obj]) + RoomAt(map, obj - 1, n) + RoomAt(map, obj + 1, n) >= size
    <3>. PICK p : p = obj - 1
      OBVIOUS
    <3>. PICK q : q = obj + 1
      OBVIOUS
    <3>1. \A i \in Int : RoomAt(map, i, n) \in Int /\ RoomAt(map, i, n) >= 0
      BY <1>6 DEF RoomAt, GapAt
    <3>2. CASE map[k].dt = 0
      <4>1. d # 0 /\ obj \in 1 .. n /\ map[obj].dt = 1 /\ Room(map[k]) + Room(map[obj]) >= size
        BY <1>1, <2>2, <2>3, <3>2 DEF Tries
      <4>2. GapAt(map, k, n) /\ RoomAt(map, k, n) = Room(map[k])
        BY <2>3, <3>2 DEF RoomAt, GapAt
      <4>3. k = p \/ k = q
        BY <2>3, <4>1
      <4>4. Room(map[k]) \in Int /\ Room(map[obj]) \in Int /\ p \in Int /\ q \in Int
        BY <1>6, <2>3, <4>1
      <4>5. Room(map[obj]) + RoomAt(map, p, n) + RoomAt(map, q, n) >= size
        <5>1. RoomAt(map, p, n) \in Int /\ RoomAt(map, p, n) >= 0
              /\ RoomAt(map, q, n) \in Int /\ RoomAt(map, q, n) >= 0
          BY <3>1, <4>4
        <5>2. RoomAt(map, p, n) = Room(map[k]) \/ RoomAt(map, q, n) = Room(map[k])
          BY <4>2, <4>3
        <5>. QED BY <4>1, <4>4, <5>1, <5>2
      <4>. QED BY <4>1, <4>2, <4>3, <4>5
    <3>3. CASE map[k].dt # 0
      <4>1. /\ d = 0 /\ k - 1 \in 1 .. n /\ k + 1 \in 1 .. n
            /\ map[k - 1].dt = 0 /\ map[k + 1].dt = 0
            /\ Room(map[k - 1]) + Room(map[k]) + Room(map[k + 1]) >= size
        BY <1>1, <2>2, <2>3, <3>3 DEF Tries
      <4>2. obj = k /\ p = k - 1 /\ q = k + 1
        BY <2>3, <4>1
      <4>3. /\ p \in 1 .. n /\ q \in 1 .. n /\ map[p].dt = 0 /\ map[q].dt = 0
            /\ Room(map[p]) + Room(map[obj]) + Room(map[q]) >= size
        BY ONLY <4>1, <4>2
      <4>4. GapAt(map, p, n) /\ RoomAt(map, p, n) = Room(map[p])
            /\ RoomAt(map, q, n) = Room(map[q])
        BY <4>3 DEF RoomAt, GapAt
      <4>5. Room(map[p]) \in Int /\ Room(map[obj]) \in Int /\ Room(map[q]) \in Int
        BY <1>6, <2>3, <4>2, <4>3
      <4>6. Room(map[obj]) + RoomAt(map, p, n) + RoomAt(map, q, n) >= size
        BY <4>3, <4>4, <4>5
      <4>7. map[obj].dt = 1 /\ obj \in 1 .. n
        BY <1>6, <2>3, <3>3, <4>2
      <4>. QED BY <4>4, <4>6, <4>7
    <3>. QED BY <3>2, <3>3
  <2>5. c2 = obj
    BY <1>1, <2>2, <2>4
  <2>6. PICK to \in DOMAIN o : Target(map, obj) = o[to] /\ Target1(map, o, obj, to)
    BY <2>2, <2>5, TargetFinds
  <2>7. to \in 1 .. n /\ o[to] = to
    BY <1>1
  <2>8. /\ map[to].dt = 0 /\ Room(map[to]) >= Room(map[obj])
        /\ \/ to = 1 \/ to \notin {map[obj].prev, map[obj].next}
           \/ (to > 2 /\ to - 1 \in {map[obj].prev, map[obj].next})
    <3>1. to > 2 => o[to - 1] = to - 1
      BY <1>1, <2>7
    <3>. QED BY <2>6, <2>7, <3>1 DEF Target1, FitAt
  <2>9. to = 1 \/ to \notin {obj - 1, obj + 1}
    <3>. SUFFICES ASSUME to # 1, to \in {obj - 1, obj + 1} PROVE FALSE
      OBVIOUS
    <3>1. to # obj
      BY <2>4, <2>8
    <3>2. /\ map[obj].next = IF obj = n THEN 0 ELSE obj + 1
          /\ map[obj].prev = IF obj = 1 THEN 0 ELSE obj - 1
      BY <1>6, <2>4 DEF NULL
    <3>3. CASE to = obj - 1
      <4>1. map[obj].prev = to
        BY <2>7, <3>2, <3>3
      <4>2. to - 1 \notin {map[obj].prev, map[obj].next}
        BY <2>4, <2>7, <3>2, <3>3
      <4>. QED BY <2>8, <4>1, <4>2
    <3>4. CASE to = obj + 1
      <4>1. map[obj].next = to
        BY <2>4, <2>7, <3>2, <3>4
      <4>2. to - 1 \notin {map[obj].prev, map[obj].next}
        BY <2>4, <2>7, <3>2, <3>4
      <4>. QED BY <2>8, <4>1, <4>2
    <3>. QED BY <3>3, <3>4
  <2>10. mv.by = 2 /\ mv.obj = obj /\ mv.to = to
    BY <2>1, <2>5, <2>6, <2>7
  <2>11. Step(ms, map, n, mv, size, 0)
    BY <1>2, <2>4, <2>7, <2>8, <2>9, <2>10 DEF Step
  <2>. QED BY <1>5, <2>10, <2>11 DEF NoMove
<1>9. CASE c1 = NULL /\ c2 = NULL
  <2>1. c3 # NULL
    <3>1. g \in DOMAIN o /\ map[o[g]].dt = 0 /\ map[o[g]].next # NULL
      <4>1. g \in 1 .. n /\ g # n /\ g + 1 # 0
        BY <1>4
      <4>2. o[g] = g /\ map[g].next = g + 1
        BY <1>1, <1>6, <4>1
      <4>. QED BY <1>1, <1>4, <4>1, <4>2 DEF NULL
    <3>. QED BY <3>1, DataCompress_3Finds
  <2>2. PICK k \in DOMAIN o :
          /\ c3 = o[k] /\ map[o[k]].dt = 0 /\ map[o[k]].next # NULL
          /\ \A j \in DOMAIN o : j < k => map[o[j]].dt # 0 \/ map[o[j]].next = NULL
    BY <2>1, DataCompress_3Finds
  <2>3. k \in 1 .. n /\ c3 = k /\ map[k].dt = 0 /\ map[k].next # NULL
    BY <1>1, <2>2
  <2>4. \A i \in 1 .. k - 1 : map[i].dt = 1
    <3>. TAKE i \in 1 .. k - 1
    <3>1. i \in 1 .. n /\ i < k /\ i # n
      BY <2>3
    <3>2. map[i].dt # 0 \/ map[i].next = NULL
      BY <1>1, <2>2, <3>1
    <3>3. map[i].next # NULL
      BY <1>6, <3>1 DEF NULL
    <3>. QED BY <1>6, <3>1, <3>2, <3>3
  <2>5. Chain(ms, map, k, n) /\ Covered(ms, 0 .. map[k].soff - 1)
    BY <2>3, <2>4, FirstGap
  <2>6. mv = [by |-> 3, obj |-> map[k].next, to |-> k]
    BY <1>0, <1>9, <2>1, <2>3
  <2>7. mv.by = 3 /\ mv.obj = map[k].next /\ mv.to = k
    BY <2>6
  <2>8. 0 <= Cardinality(Before(ms, map[k].soff))
    <3>1. Before(ms, map[k].soff) \in SUBSET DOMAIN ms
      BY DEF Before
    <3>2. Cardinality(Before(ms, map[k].soff)) \in Nat
      BY <3>1, MessagesFinite
    <3>. QED BY <3>2
  <2>9. Step(ms, map, n, mv, size, 0)
    BY <1>2, <2>3, <2>5, <2>7, <2>8 DEF Step
  <2>. QED BY <1>5, <2>7, <2>9 DEF NoMove
<1>. QED
  BY <1>7, <1>8, <1>9

LEMMA SizeOfMap ==
  ASSUME NEW n \in Nat, NEW map \in MapOf(n)
  PROVE  Size(map) = n
<1>1. DOMAIN map = 1 .. n
  BY DEF MapOf
<1>2. n \in Int /\ 1 \in Int
  OBVIOUS
<1>3. Cardinality(1 .. n) = IF 1 > n THEN 0 ELSE n - 1 + 1
  BY ONLY <1>2, FS_Interval
<1>4. Cardinality(1 .. n) = n
  BY <1>3
<1>. QED
  BY ONLY <1>1, <1>4 DEF Size

----------------------------------------------------------------------------
(* The inductive invariant.                                                *)

OpOf(o) ==
  [pc : {"search", "move", "moved", "found", "written", "refused", "lost"},
   id : Ids, size : Sizes, off : Int, map : {o.map}, mv : Moves,
   moves : Nat, beside : BOOLEAN, head : BOOLEAN]

N == Size(op.map)
Searches == op.pc \in {"search", "move", "moved"}

(* The fields of the send in progress, of whatever map.                    *)
OpOK ==
  /\ op \in OpOf(op)
  /\ N \in Nat /\ op.map \in MapOf(N)
  /\ op.id \notin DOMAIN msgs
  /\ cbytes + op.size <= QBytes
  /\ Searches => N > 0
  /\ op.pc \in {"move", "moved"} => MoveIn(op.map, N, op.mv)
  /\ op.pc = "moved" => Moving \in DOMAIN msgs /\ op.mv.to # NULL /\ op.moves > 0

TypeOK ==
  /\ DOMAIN msgs \subseteq Ids /\ msgs \in [DOMAIN msgs -> Headers]
  /\ DOMAIN dat = Offsets
  /\ atrisk \subseteq Ids
  /\ Idle => op = NoOp
  /\ ~Idle => OpOK

(* The send has made a move after which messages are at risk.              *)
Strayed == op.beside \/ (op.head /\ op.moves > 1)

SearchInv ==
  op.pc = "search" /\ ~Strayed =>
    /\ Placed(msgs)
    /\ op.moves = 0 => Fresh(msgs, op.map, N)
    /\ op.moves # 0 => Safe(msgs, op.map) /\ (op.head \/ Fits(op.map, op.size))

MoveInv ==
  op.pc = "move" /\ ~Strayed /\ ~op.head =>
    Step(msgs, op.map, N, op.mv, op.size, op.moves)

MovedInv ==
  op.pc = "moved" /\ ~Strayed =>
    /\ ~op.head
    /\ Step(msgs, op.map, N, op.mv, op.size, op.moves - 1)
    /\ op.mv.by = 2 => op.mv.to \notin {op.mv.obj - 1, op.mv.obj + 1}

FoundInv ==
  op.pc \in {"found", "written"} /\ ~Strayed => Clear(msgs, op.off .. op.off + op.size - 1)

WrittenInv ==
  op.pc = "written" /\ ~Strayed =>
    \A k \in 1 .. op.size : dat[op.off + k - 1] = <<op.id, k>>

Held(id, at) == \A k \in 1 .. msgs[id].mbytes : dat[at + k - 1] = <<id, k>>
Torn == Place([msgs[Moving] EXCEPT !.whence = NewPlace]) \cap Place(msgs[Moving]) # {}

(* Between the two writes of a move the message is in its new place whole, *)
(* and in its old one unless the two overlap.                              *)
Kept(id) ==
  /\ Place(msgs[id]) \subseteq Offsets
  /\ \A j \in DOMAIN msgs \ {id} : Place(msgs[id]) \cap Place(msgs[j]) = {}
  /\ IF op.pc = "moved" /\ id = Moving
     THEN Held(id, NewPlace) /\ (Torn \/ Held(id, msgs[id].whence))
     ELSE Held(id, msgs[id].whence)

KeptInv == \A id \in DOMAIN msgs \ atrisk : Kept(id)

RiskInv == ~Idle => (Strayed => atrisk = Ids)
HeadInv == ~Idle => (op.head /\ ~op.beside => op.moves > 0)

(* EAGAIN for want of room, or a walk that does not end, only on a map     *)
(* that is not as it should be.                                            *)
IInv ==
  /\ TypeOK /\ SearchInv /\ MoveInv /\ MovedInv /\ FoundInv /\ WrittenInv /\ KeptInv
  /\ RiskInv /\ HeadInv /\ RoomIsFound /\ MovesBounded

----------------------------------------------------------------------------
(* What the invariant says of a send, and of a message.                    *)

LEMMA MessagesTyped ==
  ASSUME 0 \notin Sizes, NEW ms, DOMAIN ms \subseteq Ids, ms \in [DOMAIN ms -> Headers]
  PROVE  Messages(ms)
<1>. SUFFICES ASSUME NEW j \in DOMAIN ms
              PROVE  ms[j].whence \in Int /\ ms[j].mbytes \in Nat /\ ms[j].mbytes > 0
  BY DEF Messages
<1>1. ms[j] \in Headers
  OBVIOUS
<1>2. ms[j].whence \in Int /\ ms[j].mbytes \in Sizes
  BY <1>1 DEF Headers
<1>3. ms[j].mbytes \in Nat /\ ms[j].mbytes # 0
  BY <1>2, SpaceAssumption
<1>. QED
  BY <1>2, <1>3

LEMMA SizesPositive ==
  ASSUME 0 \notin Sizes, NEW s \in Sizes
  PROVE  s \in Nat /\ s > 0
<1>1. s \in Nat /\ s # 0
  BY SpaceAssumption
<1>. QED
  BY <1>1

LEMMA OpFields ==
  ASSUME 0 \notin Sizes, TypeOK, ~Idle
  PROVE  /\ OpOK /\ Messages(msgs)
         /\ op.id \in Ids /\ op.size \in Sizes /\ op.size \in Nat /\ op.size > 0
         /\ op.off \in Int /\ op.mv \in Moves /\ op.moves \in Nat
         /\ op.beside \in BOOLEAN /\ op.head \in BOOLEAN
         /\ N \in Nat /\ op.map \in MapOf(N)
         /\ Cardinality(Bytes(msgs)) + op.size <= QBytes
<1>1. OpOK /\ Messages(msgs)
  BY MessagesTyped DEF TypeOK
<1>2. op \in OpOf(op) /\ N \in Nat /\ op.map \in MapOf(N) /\ cbytes + op.size <= QBytes
  BY <1>1 DEF OpOK
<1>3. /\ op.id \in Ids /\ op.size \in Sizes
      /\ op.off \in Int /\ op.mv \in Moves /\ op.moves \in Nat
      /\ op.beside \in BOOLEAN /\ op.head \in BOOLEAN
  BY <1>2 DEF OpOf
<1>4. op.size \in Nat /\ op.size > 0
  BY <1>3, SizesPositive
<1>5. cbytes = Cardinality(Bytes(msgs))
  BY DEF cbytes, Bytes
<1>. QED
  BY <1>1, <1>2, <1>3, <1>4, <1>5

(* A message that has its bytes in a place of its own is whole.            *)
LEMMA KeptWhole ==
  ASSUME NEW id \in DOMAIN msgs, op.pc # "moved", Kept(id)
  PROVE  Whole(id)
<1>1. Held(id, msgs[id].whence) /\ Place(msgs[id]) \subseteq Offsets
  BY DEF Kept
<1>2. BytesOf(msgs[id]) = [k \in 1 .. msgs[id].mbytes |-> <<id, k>>]
  BY <1>1 DEF Held, BytesOf
<1>3. \A j \in DOMAIN msgs \ {id} : Place(msgs[j]) \cap Place(msgs[id]) = {}
  BY DEF Kept
<1>. QED
  BY <1>1, <1>2, <1>3 DEF Whole, Intact

LEMMA NotPlaced ==
  ASSUME \A id \in DOMAIN msgs : Whole(id)
  PROVE  Placed(msgs)
BY DEF Placed, Whole, Intact

----------------------------------------------------------------------------
(* What does not change the messages or the data keeps them.               *)
LEMMA KeptStays ==
  ASSUME KeptInv, UNCHANGED <<msgs, dat, atrisk>>, op.pc # "moved", op'.pc # "moved"
  PROVE  KeptInv'
<1>. SUFFICES ASSUME NEW id \in DOMAIN msgs \ atrisk PROVE Kept(id)'
  BY DEF KeptInv
<1>1. Kept(id)
  BY DEF KeptInv
<1>. QED
  BY <1>1 DEF Kept, Held

LEMMA InitIInv == Init => IInv
<1>. SUFFICES ASSUME Init PROVE IInv
  OBVIOUS
<1>1. DOMAIN msgs = {} /\ op.pc = "idle" /\ op = NoOp /\ DOMAIN dat = Offsets /\ atrisk = {}
  BY DEF Init, NoOp
<1>2. msgs \in [DOMAIN msgs -> Headers]
  BY <1>1 DEF Init
<1>3. TypeOK
  BY <1>1, <1>2 DEF TypeOK, Idle
<1>4. KeptInv
  BY <1>1 DEF KeptInv
<1>. QED
  BY <1>1, <1>3, <1>4
  DEF IInv, SearchInv, MoveInv, MovedInv, FoundInv, WrittenInv, RiskInv, HeadInv,
      RoomIsFound, MovesBounded, Idle

LEMMA StutterIInv == IInv /\ UNCHANGED vars => IInv'
<1>. SUFFICES ASSUME IInv, UNCHANGED vars PROVE IInv'
  OBVIOUS
<1>1. msgs' = msgs /\ dat' = dat /\ op' = op /\ atrisk' = atrisk
  BY DEF vars
<1>2. TypeOK'
  BY <1>1 DEF IInv, TypeOK, OpOK, N, Searches, cbytes, Moving, Idle
<1>3. SearchInv' /\ MoveInv' /\ MovedInv' /\ FoundInv' /\ WrittenInv'
  BY <1>1 DEF IInv, SearchInv, MoveInv, MovedInv, FoundInv, WrittenInv, Strayed, N
<1>4. KeptInv'
  <2>. SUFFICES ASSUME NEW id \in DOMAIN msgs \ atrisk PROVE Kept(id)'
    BY <1>1 DEF KeptInv
  <2>1. Kept(id)
    BY DEF IInv, KeptInv
  <2>. QED BY Zenon, <1>1, <2>1 DEF Kept, Held, Torn, Moving, NewPlace
<1>5. RiskInv' /\ HeadInv' /\ MovesBounded'
  BY <1>1 DEF IInv, RiskInv, HeadInv, MovesBounded, Strayed, Idle
<1>6. RoomIsFound'
  <2>1. \A i \in DOMAIN msgs : Whole(i)' = Whole(i)
    BY <1>1 DEF Whole, Intact, BytesOf
  <2>. QED BY <1>1, <2>1 DEF IInv, RoomIsFound
<1>. QED
  BY <1>2, <1>3, <1>4, <1>5, <1>6 DEF IInv

LEMMA BeginSendIInv ==
  ASSUME 0 \notin Sizes, IInv, NEW id \in Ids, NEW s \in Sizes, BeginSend(id, s)
  PROVE  IInv'
<1>. PICK map : map = MakeDataArray
  OBVIOUS
<1>1. /\ Idle /\ id \notin DOMAIN msgs /\ cbytes + s <= QBytes /\ UNCHANGED <<msgs, dat, atrisk>>
      /\ op' = [pc |-> IF map = <<>> THEN "refused" ELSE "search",
                id |-> id, size |-> s, off |-> 0, map |-> map, mv |-> NoMove,
                moves |-> 0, beside |-> FALSE, head |-> FALSE]
  BY DEF BeginSend
<1>2. /\ op'.pc = IF map = <<>> THEN "refused" ELSE "search"
      /\ op'.id = id /\ op'.size = s /\ op'.off = 0 /\ op'.map = map /\ op'.mv = NoMove
      /\ op'.moves = 0 /\ op'.beside = FALSE /\ op'.head = FALSE
  BY <1>1
<1>3. TypeOK /\ KeptInv
  BY DEF IInv
<1>4. Messages(msgs)
  BY <1>3, MessagesTyped DEF TypeOK
<1>5. IsMap(map) /\ (Placed(msgs) => map # <<>>)
  BY <1>4, MakesMap
<1>6. PICK n \in Nat : /\ n = Size(map) /\ map \in MapOf(n)
                       /\ map # <<>> => n > 0 /\ Fresh(msgs, map, n)
  BY <1>5 DEF IsMap
<1>7. TypeOK'
  <2>1. NoMove \in Moves
    BY DEF NoMove, Moves, NULL
  <2>2. op' \in OpOf(op')
    BY <1>1, <2>1 DEF OpOf
  <2>3. N' = n /\ cbytes' = cbytes
    BY <1>1, <1>2, <1>6 DEF N, cbytes
  <2>4. OpOK'
    BY <1>1, <1>2, <1>6, <2>2, <2>3 DEF OpOK, Searches
  <2>5. ~Idle'
    BY <1>2 DEF Idle
  <2>. QED BY <1>1, <1>3, <2>4, <2>5 DEF TypeOK
<1>8. SearchInv'
  <2>. SUFFICES ASSUME map # <<>> PROVE Placed(msgs) /\ Fresh(msgs, map, n)
    BY <1>1, <1>2, <1>6 DEF SearchInv, N
  <2>1. n > 0 /\ Fresh(msgs, map, n)
    BY <1>6
  <2>. QED BY <1>4, <1>6, <2>1, FreshPlaced
<1>9. KeptInv'
  BY <1>1, <1>2, <1>3, KeptStays DEF Idle
<1>10. RoomIsFound'
  <2>. SUFFICES ASSUME map = <<>> PROVE \E i \in DOMAIN msgs : ~Whole(i)'
    BY <1>1, <1>2 DEF RoomIsFound
  <2>1. \A i \in DOMAIN msgs : Whole(i)' = Whole(i)
    BY <1>1 DEF Whole, Intact, BytesOf
  <2>. QED BY <1>5, <2>1, NotPlaced
<1>11. MovesBounded'
  <2>1. {} \in SUBSET DOMAIN msgs
    OBVIOUS
  <2>2. Cardinality(DOMAIN msgs) \in Nat
    BY <1>4, <2>1, MessagesFinite
  <2>. QED BY <1>1, <1>2, <2>2 DEF MovesBounded
<1>12. RiskInv' /\ HeadInv'
  BY <1>2 DEF RiskInv, HeadInv, Strayed
<1>. QED
  BY <1>2, <1>7, <1>8, <1>9, <1>10, <1>11, <1>12
  DEF IInv, MoveInv, MovedInv, FoundInv, WrittenInv

LEMMA FindSpaceIInv ==
  ASSUME 0 \notin Sizes, IInv, FindSpace
  PROVE  IInv'
<1>. PICK map : map = op.map
  OBVIOUS
<1>. PICK size : size = op.size
  OBVIOUS
<1>. PICK n : n = N
  OBVIOUS
<1>. PICK o : o = Order(map)
  OBVIOUS
<1>. PICK fit : fit = BestFit(map, size)
  OBVIOUS
<1>. PICK mv : mv = NextMove(map, size)
  OBVIOUS
<1>. DEFINE lost == ~Ends(map) \/ (fit = NULL /\ 3 \notin DOMAIN o)
<1>1. /\ op.pc = "search" /\ UNCHANGED <<msgs, dat, atrisk>>
      /\ op' = CASE lost -> [op EXCEPT !.pc = "lost"]
                 [] ~lost /\ fit # NULL -> [op EXCEPT !.pc = "found", !.off = map[fit].soff]
                 [] ~lost /\ fit = NULL /\ mv # NoMove -> [op EXCEPT !.pc = "move", !.mv = mv]
                 [] OTHER -> [op EXCEPT !.pc = "refused"]
  BY DEF FindSpace
<1>. HIDE DEF lost
<1>2. \/ lost /\ op' = [op EXCEPT !.pc = "lost"]
      \/ ~lost /\ fit # NULL /\ op' = [op EXCEPT !.pc = "found", !.off = map[fit].soff]
      \/ ~lost /\ fit = NULL /\ mv # NoMove /\ op' = [op EXCEPT !.pc = "move", !.mv = mv]
      \/ ~lost /\ fit = NULL /\ mv = NoMove /\ op' = [op EXCEPT !.pc = "refused"]
  BY <1>1
<1>3. TypeOK /\ KeptInv /\ ~Idle /\ Searches
  BY <1>1 DEF IInv, Idle, Searches
<1>4. /\ OpOK /\ Messages(msgs) /\ size \in Nat /\ size > 0 /\ op.moves \in Nat
      /\ op.beside \in BOOLEAN /\ op.head \in BOOLEAN
      /\ n \in Nat \ {0} /\ map \in MapOf(n) /\ op \in OpOf(op)
      /\ Cardinality(Bytes(msgs)) + size <= QBytes
  <2>1. OpOK
    BY <1>3 DEF TypeOK
  <2>. QED BY <1>3, <2>1, OpFields DEF OpOK
<1>5. WalkOf(map, o, n) /\ \A k \in DOMAIN o : o[k] \in 1 .. n
  <2>1. WalkOf(map, o, n)
    BY <1>4, OrderIsWalk
  <2>. QED BY <2>1 DEF WalkOf
<1>6. fit # NULL => \E k \in DOMAIN o : fit = o[k] /\ fit \in 1 .. n /\ FitAt(map, size, fit)
  <2>. SUFFICES ASSUME fit # NULL
                PROVE  \E k \in DOMAIN o : fit = o[k] /\ fit \in 1 .. n /\ FitAt(map, size, fit)
    OBVIOUS
  <2>1. PICK k \in DOMAIN o : fit = o[k] /\ FitAt(map, size, o[k])
    BY <1>4, BestFitFinds
  <2>. QED BY <1>5, <2>1
<1>7. mv # NoMove => MoveIn(map, n, mv)
  BY <1>4, NextMoveIn
<1>8. /\ op' \in OpOf(op') /\ op'.pc \in {"lost", "found", "move", "refused"}
      /\ op'.map = map /\ op'.id = op.id /\ op'.size = size /\ op'.moves = op.moves
      /\ op'.beside = op.beside /\ op'.head = op.head
      /\ op'.pc = "found" => op'.off = map[fit].soff /\ fit # NULL
      /\ op'.pc = "move" => op'.mv = mv /\ fit = NULL /\ mv # NoMove
      /\ op'.pc = "lost" => lost
      /\ op'.pc = "refused" => fit = NULL /\ mv = NoMove
  <2>1. fit # NULL => map[fit].soff \in Int
    BY <1>4, <1>6, BlockType
  <2>2. mv # NoMove => mv \in Moves
    BY <1>7 DEF MoveIn
  <2>. QED BY <1>2, <1>4, <2>1, <2>2 DEF OpOf
<1>9. N' = n /\ cbytes' = cbytes /\ Strayed' = Strayed /\ ~Idle'
  BY <1>1, <1>8 DEF N, cbytes, Strayed, Idle
<1>10. TypeOK'
  <2>1. OpOK'
    BY <1>1, <1>4, <1>7, <1>8, <1>9 DEF OpOK, Searches
  <2>. QED BY <1>1, <1>3, <1>9, <2>1 DEF TypeOK
<1>11. KeptInv'
  BY <1>1, <1>3, <1>8, KeptStays
<1>12. RiskInv' /\ HeadInv' /\ MovesBounded'
  <2>1. RiskInv /\ HeadInv /\ MovesBounded
    BY DEF IInv
  <2>2. RiskInv'
    BY <1>1, <1>3, <1>9, <2>1 DEF RiskInv
  <2>3. HeadInv'
    BY <1>3, <1>8, <2>1 DEF HeadInv
  <2>4. MovesBounded'
    BY <1>1, <1>3, <1>8, <2>1 DEF MovesBounded, Idle
  <2>. QED BY <2>2, <2>3, <2>4
<1>. DEFINE firm == ~Strayed /\ op.moves = 0
            later == ~Strayed /\ op.moves # 0
<1>13. ~Strayed => /\ Placed(msgs)
                   /\ op.moves = 0 => Fresh(msgs, map, n)
                   /\ op.moves # 0 => Safe(msgs, map) /\ (op.head \/ Fits(map, size))
  BY <1>1 DEF IInv, SearchInv
<1>14. Fits(map, size) => ~lost /\ fit # NULL
  <2>. SUFFICES ASSUME Fits(map, size) PROVE ~lost /\ fit # NULL
    OBVIOUS
  <2>1. Ends(map) /\ \E k \in DOMAIN o : map[o[k]].dt = 0 /\ Room(map[o[k]]) >= size
    BY DEF Fits
  <2>2. fit # NULL
    BY <1>4, <2>1, BestFitFinds DEF FitAt
  <2>. QED BY <2>1, <2>2 DEF lost
<1>15. ASSUME Fresh(msgs, map, n)
       PROVE  /\ ~lost /\ (fit = NULL => mv # NoMove /\ Step(msgs, map, n, mv, size, 0))
  <2>1. Ends(map)
    BY <1>4, <1>15, FreshEnds
  <2>2. fit = NULL => 3 \in DOMAIN o /\ mv # NoMove /\ Step(msgs, map, n, mv, size, 0)
    BY <1>4, <1>15, FreshMove
  <2>. QED BY <2>1, <2>2 DEF lost
<1>16. RoomIsFound'
  <2>. SUFFICES ASSUME op'.pc \in {"refused", "lost"}, ~op.beside, ~op.head PROVE FALSE
    BY <1>8 DEF RoomIsFound
  <2>1. ~Strayed
    BY DEF Strayed
  <2>2. CASE op.moves = 0
    BY <1>8, <1>13, <1>15, <2>1, <2>2
  <2>3. CASE op.moves # 0
    BY <1>8, <1>13, <1>14, <2>1, <2>3
  <2>. QED BY <2>2, <2>3
<1>17. MoveInv'
  <2>. SUFFICES ASSUME op'.pc = "move", ~Strayed, ~op.head
                PROVE  Step(msgs, map, n, mv, size, op.moves)
    BY <1>1, <1>8, <1>9 DEF MoveInv
  <2>1. fit = NULL
    BY <1>8
  <2>2. op.moves = 0
    BY <1>13, <1>14, <2>1
  <2>. QED BY <1>13, <1>15, <2>1, <2>2
<1>18. FoundInv'
  <2>. SUFFICES ASSUME op'.pc = "found", ~Strayed
                PROVE  Clear(msgs, map[fit].soff .. map[fit].soff + size - 1)
    BY <1>1, <1>8, <1>9 DEF FoundInv
  <2>1. PICK k \in DOMAIN o : fit = o[k] /\ fit \in 1 .. n /\ FitAt(map, size, fit)
    BY <1>6, <1>8
  <2>2. Clear(msgs, Span(map[fit]))
    <3>1. CASE op.moves = 0
      BY <1>4, <1>13, <2>1, <3>1, FreshPlaced DEF FitAt
    <3>2. CASE op.moves # 0
      BY <1>13, <2>1, <3>2 DEF Safe, FitAt
    <3>. QED BY <3>1, <3>2
  <2>. PICK s \in Int : s = map[fit].soff
    BY <1>4, <2>1, BlockType
  <2>. PICK e \in Int : e = map[fit].eoff
    BY <1>4, <2>1, BlockType
  <2>3. e - s + 1 >= size
    BY <2>1 DEF FitAt, Room
  <2>4. (s .. s + size - 1) \subseteq (s .. e)
    BY ONLY <1>4, <2>3, s \in Int, e \in Int
  <2>5. (s .. s + size - 1) \subseteq Span(map[fit])
    BY <2>4 DEF Span
  <2>. QED BY <2>2, <2>5 DEF Clear
<1>19. SearchInv' /\ MovedInv' /\ WrittenInv'
  BY <1>8 DEF SearchInv, MovedInv, WrittenInv
<1>. QED
  BY <1>10, <1>11, <1>12, <1>16, <1>17, <1>18, <1>19 DEF IInv

LEMMA MovesAtStep ==
  ASSUME NEW n \in Nat \ {0}, NEW map \in MapOf(n), NEW ms, Messages(ms), NEW size,
         NEW moves \in Nat, NEW mv, Step(ms, map, n, mv, size, moves)
  PROVE  /\ moves + 1 <= Cardinality(DOMAIN ms)
         /\ mv.by \in {1, 2} => moves = 0 /\ Fresh(ms, map, n)
<1>. PICK obj : obj = mv.obj
  OBVIOUS
<1>. PICK to : to = mv.to
  OBVIOUS
<1>. PICK id : id = map[obj].id
  OBVIOUS
<1>1. mv.by \in {1, 2} => moves = 0 /\ Fresh(ms, map, n)
  BY DEF Step
<1>2. mv.by \in {1, 2, 3}
  BY DEF Step
<1>3. CASE mv.by \in {1, 2}
  <2>1. moves = 0
    BY <1>1, <1>3
  <2>2. id \in DOMAIN ms
    BY StepMoves
  <2>3. {id} \in SUBSET DOMAIN ms
    BY <2>2
  <2>4. Cardinality({id}) <= Cardinality(DOMAIN ms) /\ Cardinality(DOMAIN ms) \in Nat
    BY <2>3, MessagesFinite
  <2>5. Cardinality({id}) = 1
    BY FS_Singleton
  <2>. QED BY <1>1, <2>1, <2>4, <2>5
<1>4. CASE mv.by = 3
  <2>1. Chain(ms, map, to, n) /\ obj = map[to].next /\ obj # NULL
        /\ moves <= Cardinality(Before(ms, map[to].soff))
    BY <1>4 DEF Step
  <2>2. moves + 1 <= Cardinality(DOMAIN ms)
    <3>. PICK at : at = map[to].soff
      OBVIOUS
    <3>1. moves \in Int /\ moves <= Cardinality(Before(ms, at))
      BY <2>1
    <3>. QED BY <2>1, <3>1, ChainCounts
  <2>. QED BY <1>1, <2>2
<1>. QED
  BY <1>2, <1>3, <1>4

LEMMA MoveDataIInv ==
  ASSUME 0 \notin Sizes, IInv, MoveData
  PROVE  IInv'
<1>. PICK map : map = op.map
  OBVIOUS
<1>. PICK n : n = N
  OBVIOUS
<1>. PICK mv : mv = op.mv
  OBVIOUS
<1>. PICK obj : obj = mv.obj
  OBVIOUS
<1>. PICK to : to = mv.to
  OBVIOUS
<1>. PICK id : id = map[obj].id
  OBVIOUS
<1>. PICK at : at = map[to].soff
  OBVIOUS
<1>1. op.pc = "move" /\ UNCHANGED msgs /\ id = Moving /\ at = NewPlace
  BY DEF MoveData, Moving, NewPlace
<1>2. /\ TypeOK /\ KeptInv /\ RiskInv /\ HeadInv /\ MovesBounded /\ MoveInv /\ ~Idle
      /\ RoomIsFound
  BY <1>1 DEF IInv, Idle
<1>3. /\ OpOK /\ Messages(msgs) /\ op.moves \in Nat
      /\ op.beside \in BOOLEAN /\ op.head \in BOOLEAN
      /\ n \in Nat \ {0} /\ map \in MapOf(n) /\ op \in OpOf(op) /\ MoveIn(map, n, mv)
  <2>1. OpOK
    BY <1>2 DEF TypeOK
  <2>2. N > 0 /\ MoveIn(map, n, mv)
    BY <1>1, <2>1 DEF OpOK, Searches
  <2>. QED BY <1>2, <2>1, <2>2, OpFields DEF OpOK
<1>4. ~Strayed /\ ~op.head => Step(msgs, map, n, mv, op.size, op.moves)
  BY <1>1, <1>2 DEF MoveInv
<1>5. op.head => Strayed \/ op.moves > 0
  BY <1>2 DEF HeadInv, Strayed
<1>6. CASE ~(id \in DOMAIN msgs /\ to # NULL)
  <2>1. op' = [op EXCEPT !.pc = "lost"] /\ UNCHANGED <<msgs, dat, atrisk>>
    BY <1>1, <1>6 DEF MoveData
  <2>2. /\ op' \in OpOf(op') /\ op'.pc = "lost" /\ op'.map = map /\ op'.id = op.id
        /\ op'.size = op.size /\ op'.moves = op.moves /\ op'.beside = op.beside
        /\ op'.head = op.head
    BY <1>3, <2>1 DEF OpOf
  <2>3. N' = n /\ cbytes' = cbytes /\ Strayed' = Strayed /\ ~Idle'
    BY <2>1, <2>2 DEF N, cbytes, Strayed, Idle
  <2>4. OpOK'
    BY <1>3, <2>1, <2>2, <2>3 DEF OpOK, Searches
  <2>5. TypeOK'
    BY <1>2, <2>1, <2>3, <2>4 DEF TypeOK
  <2>6. KeptInv'
    BY <1>1, <1>2, <2>1, <2>2, KeptStays
  <2>7. RiskInv' /\ HeadInv' /\ MovesBounded'
    <3>1. RiskInv'
      BY <1>2, <2>1, <2>3 DEF RiskInv
    <3>2. HeadInv'
      BY <1>2, <2>2 DEF HeadInv
    <3>3. MovesBounded'
      BY <1>2, <2>1, <2>2 DEF MovesBounded, Idle
    <3>. QED BY <3>1, <3>2, <3>3
  <2>8. RoomIsFound'
    <3>. SUFFICES ASSUME ~op.beside, ~op.head PROVE FALSE
      BY <2>2 DEF RoomIsFound
    <3>1. Step(msgs, map, n, mv, op.size, op.moves)
      BY <1>4 DEF Strayed
    <3>2. to \in 1 .. n /\ id \in DOMAIN msgs
      BY <1>3, <3>1, StepMoves
    <3>. QED BY <1>6, <3>2 DEF NULL
  <2>. QED
    BY <2>2, <2>5, <2>6, <2>7, <2>8
    DEF IInv, SearchInv, MoveInv, MovedInv, FoundInv, WrittenInv
<1>7. CASE id \in DOMAIN msgs /\ to # NULL
  <2>1. /\ dat' = Written(BytesOf(msgs[id]), at)
        /\ op' = [op EXCEPT !.pc = "moved", !.moves = @ + 1, !.beside = @ \/ MovesBeside]
        /\ atrisk' = IF MovesBeside \/ op.head THEN Ids ELSE atrisk
    BY <1>1, <1>7 DEF MoveData
  <2>2. /\ op' \in OpOf(op') /\ op'.pc = "moved" /\ op'.map = map /\ op'.id = op.id
        /\ op'.size = op.size /\ op'.moves = op.moves + 1 /\ op'.mv = mv
        /\ op'.head = op.head
    <3>. DEFINE side == MovesBeside
    <3>1. (op.beside \/ side) \in BOOLEAN
      OBVIOUS
    <3>2. op' = [op EXCEPT !.pc = "moved", !.moves = @ + 1, !.beside = op.beside \/ side]
      BY <1>3, <2>1 DEF OpOf
    <3>. PICK b \in BOOLEAN : b = (op.beside \/ side)
      OBVIOUS
    <3>3. op' = [op EXCEPT !.pc = "moved", !.moves = @ + 1, !.beside = b]
      BY <3>2
    <3>. HIDE DEF side
    <3>4. op.moves + 1 \in Nat /\ op \in OpOf(op)
      BY <1>3
    <3>. PICK c : c = op.moves + 1
      OBVIOUS
    <3>5. op' = [op EXCEPT !.pc = "moved", !.moves = c, !.beside = b]
      BY <3>3, <3>4 DEF OpOf
    <3>6. op' \in OpOf(op') /\ op'.moves = c
      BY ONLY <3>4, <3>5, b \in BOOLEAN, c = op.moves + 1 DEF OpOf
    <3>. QED BY <3>4, <3>5, <3>6 DEF OpOf
  <2>3. op'.beside <=> op.beside \/ MovesBeside
    BY <1>3, <2>1 DEF OpOf
  <2>4. N' = n /\ cbytes' = cbytes /\ ~Idle' /\ Moving' = id /\ NewPlace' = at
    BY <1>1, <2>2 DEF N, cbytes, Idle, Moving, NewPlace
  <2>5. TypeOK'
    <3>1. OpOK'
      BY <1>1, <1>3, <1>7, <2>2, <2>4 DEF OpOK, Searches
    <3>2. DOMAIN dat' = Offsets
      BY <2>1 DEF Written
    <3>3. atrisk' \subseteq Ids
      BY <1>2, <2>1 DEF TypeOK
    <3>. QED BY <1>1, <1>2, <2>4, <3>1, <3>2, <3>3 DEF TypeOK
  <2>6. HeadInv'
    BY <1>3, <2>2 DEF HeadInv
  <2>7. RoomIsFound' /\ SearchInv' /\ MoveInv' /\ FoundInv' /\ WrittenInv'
    BY <2>2 DEF RoomIsFound, SearchInv, MoveInv, FoundInv, WrittenInv
  <2>8. CASE Strayed \/ op.head \/ MovesBeside
    <3>1. atrisk' = Ids
      BY <1>2, <2>1, <2>8 DEF RiskInv
    <3>2. Strayed'
      BY <1>3, <1>5, <2>2, <2>3, <2>8 DEF Strayed
    <3>3. RiskInv'
      BY <3>1 DEF RiskInv
    <3>4. KeptInv'
      <4>1. DOMAIN msgs' \subseteq Ids
        BY <2>5 DEF TypeOK
      <4>. QED BY <3>1, <4>1 DEF KeptInv
    <3>5. MovedInv'
      BY <3>2 DEF MovedInv
    <3>6. MovesBounded'
      BY <2>2, <2>3, <2>8 DEF MovesBounded, Strayed
    <3>. QED BY <2>5, <2>6, <2>7, <3>3, <3>4, <3>5, <3>6 DEF IInv
  <2>9. CASE ~Strayed /\ ~op.head /\ ~MovesBeside
    <3>1. atrisk' = atrisk /\ ~op.beside
      BY <2>1, <2>9 DEF Strayed
    <3>2. ~op'.beside /\ ~op'.head /\ ~Strayed'
      BY <2>2, <2>3, <2>9, <3>1 DEF Strayed
    <3>3. Step(msgs, map, n, mv, op.size, op.moves)
      BY <1>4, <2>9
    <3>4. op.moves + 1 <= Cardinality(DOMAIN msgs)
          /\ (mv.by \in {1, 2} => op.moves = 0 /\ Fresh(msgs, map, n))
      BY <1>3, <3>3, MovesAtStep
    <3>5. RiskInv' /\ MovesBounded'
      BY <1>1, <2>2, <3>2, <3>4 DEF RiskInv, MovesBounded
    <3>6. /\ obj \in 1 .. n /\ to \in 1 .. n /\ at \in Int
          /\ Clear(msgs, Span(map[to]))
          /\ NewAt(msgs, id, at) \subseteq Span(map[to]) \cup Place(msgs[id])
      BY <1>3, <3>3, StepMoves
    <3>7. mv.by = 2 => to \notin {obj - 1, obj + 1}
      <4>. SUFFICES ASSUME mv.by = 2, to \in {obj - 1, obj + 1} PROVE FALSE
        OBVIOUS
      <4>. PICK o : o = Order(map)
        OBVIOUS
      <4>1. DOMAIN o = 1 .. n /\ \A k \in 1 .. n : o[k] = k
        BY <1>3, <3>4, FreshOrder
      <4>2. \E k \in 2 .. n : {obj, to} = {k - 1, k}
        <5>1. CASE to = obj - 1
          <6>1. obj \in 2 .. n /\ {obj, to} = {obj - 1, obj}
            BY <3>6, <5>1
          <6>. QED BY <6>1
        <5>2. CASE to = obj + 1
          <6>1. to \in 2 .. n /\ {obj, to} = {to - 1, to}
            BY <3>6, <5>2
          <6>. QED BY <6>1
        <5>. QED BY <5>1, <5>2
      <4>3. PICK k \in 2 .. n : {obj, to} = {k - 1, k}
        BY <4>2
      <4>4. k \in DOMAIN o \ {1} /\ o[k - 1] = k - 1 /\ o[k] = k
        BY <1>3, <4>1
      <4>5. {obj, to} = {o[k - 1], o[k]}
        BY <4>3, <4>4
      <4>6. MovesBeside
        BY <4>4, <4>5 DEF MovesBeside
      <4>. QED BY <2>9, <4>6
    <3>8. MovedInv'
      <4>1. op.moves + 1 - 1 = op.moves
        BY <1>3
      <4>2. Step(msgs, map, n, mv, op.size, op'.moves - 1)
        <5>1. op'.moves - 1 = op.moves
          <6>1. op'.moves = op.moves + 1
            BY <2>2
          <6>2. op.moves \in Nat
            BY <1>3
          <6>. PICK x \in Nat : x = op.moves
            BY <6>2
          <6>. PICK y \in Nat : y = op'.moves
            BY <6>1, <6>2
          <6>3. y = x + 1
            BY <6>1
          <6>4. y - 1 = x
            BY <6>3
          <6>. QED BY <6>4
        <5>. QED BY <3>3, <5>1
      <4>. QED BY <1>1, <2>2, <2>4, <3>2, <3>7, <4>2 DEF MovedInv
    <3>9. \A q \in Offsets : dat'[q] = IF q \in NewAt(msgs, id, at)
                                       THEN BytesOf(msgs[id])[q - at + 1] ELSE dat[q]
      <4>1. Len(BytesOf(msgs[id])) = msgs[id].mbytes
        <5>1. msgs[id].mbytes \in Nat
          BY <1>3, <1>7 DEF Messages
        <5>. QED BY <5>1 DEF BytesOf
      <4>. QED BY Zenon, <2>1, <4>1 DEF Written, NewAt
    <3>10. KeptInv'
      <4>. SUFFICES ASSUME NEW i \in DOMAIN msgs \ atrisk PROVE Kept(i)'
        BY <1>1, <3>1 DEF KeptInv
      <4>. PICK w \in Int : w = msgs[i].whence
        BY <1>3 DEF Messages
      <4>. PICK m \in Nat : m = msgs[i].mbytes
        BY <1>3 DEF Messages
      <4>1. Place(msgs[i]) \subseteq Offsets
            /\ (\A j \in DOMAIN msgs \ {i} : Place(msgs[i]) \cap Place(msgs[j]) = {})
            /\ \A k \in 1 .. m : dat[w + k - 1] = <<i, k>>
        BY <1>1, <1>2 DEF KeptInv, Kept, Held
      <4>2. \A k \in 1 .. m : w + k - 1 \in Place(msgs[i])
        BY DEF Place
      <4>3. CASE i # id
        <5>1. Place(msgs[i]) \cap NewAt(msgs, id, at) = {}
          BY <1>7, <3>6, <4>1, <4>3 DEF Clear
        <5>2. \A k \in 1 .. m : dat'[w + k - 1] = <<i, k>>
          BY Zenon, <3>9, <4>1, <4>2, <5>1
        <5>. QED BY <1>1, <2>4, <4>1, <4>3, <5>2 DEF Kept, Held
      <4>4. CASE i = id
        <5>1. NewAt(msgs, id, at) \subseteq Offsets
          BY <3>6, <4>1, <4>4 DEF Clear
        <5>2. ASSUME NEW k \in 1 .. m PROVE dat'[at + k - 1] = <<i, k>>
          <6>1. at + k - 1 \in NewAt(msgs, id, at)
            BY <3>6, <4>4 DEF NewAt
          <6>2. dat'[at + k - 1] = BytesOf(msgs[id])[(at + k - 1) - at + 1]
            BY Zenon, <3>9, <5>1, <6>1
          <6>3. (at + k - 1) - at + 1 = k
            BY <3>6
          <6>4. BytesOf(msgs[id])[k] = dat[w + k - 1]
            BY Zenon, <4>4 DEF BytesOf
          <6>. QED BY Zenon, <4>1, <6>2, <6>3, <6>4
        <5>3. Place([msgs[id] EXCEPT !.whence = at]) = NewAt(msgs, id, at)
          <6>1. msgs[id] \in Headers
            BY <1>2, <1>7 DEF TypeOK
          <6>. QED BY <6>1 DEF Place, NewAt, Headers
        <5>4. Torn' \/ Held(i, w)'
          <6>. SUFFICES ASSUME ~Torn' PROVE Held(i, w)'
            OBVIOUS
          <6>1. NewAt(msgs, id, at) \cap Place(msgs[id]) = {}
            BY <1>1, <2>4, <5>3 DEF Torn
          <6>2. \A k \in 1 .. m : dat'[w + k - 1] = <<i, k>>
            <7>. SUFFICES ASSUME NEW k \in 1 .. m PROVE dat'[w + k - 1] = <<i, k>>
              OBVIOUS
            <7>. PICK q : q = w + k - 1
              OBVIOUS
            <7>1. q \in Offsets /\ q \notin NewAt(msgs, id, at)
              BY Zenon, <4>1, <4>2, <4>4, <6>1
            <7>2. dat'[q] = dat[q]
              BY Zenon, <3>9, <7>1
            <7>. QED BY <4>1, <7>2
          <6>. QED BY <1>1, <6>2 DEF Held
        <5>. QED BY <1>1, <2>2, <2>4, <4>1, <4>4, <5>2, <5>4 DEF Kept, Held
      <4>. QED BY <4>3, <4>4
    <3>. QED BY <2>5, <2>6, <2>7, <3>5, <3>8, <3>10 DEF IInv
  <2>. QED BY <2>8, <2>9
<1>. QED
  BY <1>6, <1>7

LEMMA MovedBytes ==
  ASSUME NEW ms, NEW ms2, NEW id, NEW at, MovedTo(ms, ms2, id, at)
  PROVE  Bytes(ms2) = Bytes(ms)
<1>1. DOMAIN ms2 = DOMAIN ms /\ \A j \in DOMAIN ms : ms2[j].mbytes = ms[j].mbytes
  BY DEF MovedTo
<1>. QED
  BY <1>1 DEF Bytes

(* The map after the second write, of whatever map.                        *)
MapAfter(map, mv, m) ==
  CASE mv.by = 1 -> MovedF(map, mv.obj, m)
    [] mv.by = 2 -> MovedOne(map, mv.obj, mv.to)
    [] mv.by = 3 -> Exchanged(map, mv.to, mv.obj, m)

LEMMA MapAfterIs ==
  ASSUME NEW n \in Nat \ {0}, NEW map \in MapOf(n), NEW mv, MoveIn(map, n, mv), mv.to # NULL,
         NEW m \in Int, NEW mm, mm = MapAfter(map, mv, m)
  PROVE  /\ mm \in MapOf(n)
         /\ mv.by = 1 => mm = MovedF(map, mv.obj, m)
         /\ mv.by = 2 => mm = MovedOne(map, mv.obj, mv.to)
         /\ mv.by = 3 => mm = Exchanged(map, mv.to, mv.obj, m)
<1>. PICK obj : obj = mv.obj
  OBVIOUS
<1>. PICK to : to = mv.to
  OBVIOUS
<1>1. /\ obj \in 1 .. n /\ to \in 1 .. n /\ mv.by \in 1 .. 3
      /\ mv.by = 1 => to = map[obj].prev
  BY DEF MoveIn, NULL
<1>2. /\ mv.by = 1 => mm = MovedF(map, obj, m)
      /\ mv.by = 2 => mm = MovedOne(map, obj, to)
      /\ mv.by = 3 => mm = Exchanged(map, to, obj, m)
  BY DEF MapAfter
<1>3. mm \in MapOf(n)
  <2>1. CASE mv.by = 1
    <3>1. to = map[obj].prev /\ mm = MovedF(map, obj, m)
      BY <1>1, <1>2, <2>1
    <3>. PICK x : x = map[obj].next
      OBVIOUS
    <3>. PICK end : end = map[to].soff + m - 1
      OBVIOUS
    <3>. QED BY <1>1, <3>1, MovedFFields
  <2>2. CASE mv.by = 2
    <3>1. mm = MovedOne(map, obj, to)
      BY <1>2, <2>2
    <3>. PICK v : v = Vacated(map, obj)
      OBVIOUS
    <3>. PICK s : s = Room(map[obj])
      OBVIOUS
    <3>. PICK end : end = v[to].soff + s - 1
      OBVIOUS
    <3>. QED BY <1>1, <3>1, MovedOneFields
  <2>3. CASE mv.by = 3
    <3>1. mm = Exchanged(map, to, obj, m)
      BY <1>2, <2>3
    <3>. PICK y : y = map[obj].next
      OBVIOUS
    <3>. PICK end : end = map[to].soff + m - 1
      OBVIOUS
    <3>. QED BY <1>1, <3>1, ExchangedFields
  <2>. QED BY <1>1, <2>1, <2>2, <2>3
<1>. QED
  BY <1>2, <1>3

(* DataCompress_3 goes on with the message behind the gap.                 *)
Onward(mm, obj) == [by |-> 3, obj |-> mm[obj].next, to |-> obj]

LEMMA OnwardIs ==
  ASSUME NEW n \in Nat \ {0}, NEW mm \in MapOf(n), NEW obj \in 1 .. n
  PROVE  /\ Onward(mm, obj) \in Moves
         /\ mm[obj].next # NULL => MoveIn(mm, n, Onward(mm, obj))
<1>. PICK x : x = mm[obj].next
  OBVIOUS
<1>1. x \in 0 .. n
  BY BlockType
<1>2. [by |-> 3, obj |-> x, to |-> obj] \in Moves
  BY <1>1 DEF Moves
<1>3. x # NULL => MoveIn(mm, n, [by |-> 3, obj |-> x, to |-> obj])
  BY <1>1, <1>2 DEF MoveIn, NULL
<1>. QED
  BY <1>2, <1>3 DEF Onward

LEMMA NoMoveIs == NoMove \in Moves
BY DEF NoMove, Moves, NULL

(* What the move has made of a map that was as it should be.               *)
Done(ms2, mm, n, mv, size, moves) ==
  LET obj == mv.obj IN
  /\ Placed(ms2)
  /\ mv.by # 3 \/ Room(mm[obj]) >= size =>
       Safe(ms2, mm) /\ ((mv.by = 2 /\ obj = 1) \/ Fits(mm, size))
  /\ mv.by = 3 /\ mm[obj].next # NULL => Step(ms2, mm, n, Onward(mm, obj), size, moves + 1)
  /\ mv.by = 3 /\ mm[obj].next = NULL => Room(mm[obj]) >= size

LEMMA StepDone ==
  ASSUME NEW n \in Nat \ {0}, NEW map \in MapOf(n), NEW ms, Messages(ms), NEW ms2, Messages(ms2),
         NEW size \in Nat, Cardinality(Bytes(ms)) + size <= QBytes,
         NEW moves \in Nat, NEW mv, MoveIn(map, n, mv), Step(ms, map, n, mv, size, moves),
         mv.by = 2 => mv.to \notin {mv.obj - 1, mv.obj + 1},
         NEW obj, obj = mv.obj, NEW id, id = map[obj].id, NEW at, at = map[mv.to].soff,
         MovedTo(ms, ms2, id, at), NEW mm, mm = MapAfter(map, mv, ms[id].mbytes)
  PROVE  Done(ms2, mm, n, mv, size, moves)
<1>. PICK to : to = mv.to
  OBVIOUS
<1>1. ms[id].mbytes \in Int /\ id \in DOMAIN ms
  BY DEF Messages, MovedTo
<1>2. mv.to # NULL
  <2>1. to \in 1 .. n
    BY StepMoves
  <2>. QED BY <2>1 DEF NULL
<1>3. /\ mm \in MapOf(n)
      /\ mv.by = 1 => mm = MovedF(map, obj, ms[id].mbytes)
      /\ mv.by = 2 => mm = MovedOne(map, obj, to)
      /\ mv.by = 3 => mm = Exchanged(map, to, obj, ms[id].mbytes)
  BY <1>1, <1>2, MapAfterIs
<1>4. CASE mv.by = 1
  <2>1. /\ Fresh(ms, map, n) /\ to \in 1 .. n - 2 /\ obj = to + 1
        /\ map[to].dt = 0 /\ map[obj].dt = 1 /\ map[obj + 1].dt = 0
        /\ Room(map[to]) + Room(map[obj + 1]) >= size
    BY <1>4 DEF Step
  <2>2. mm = MovedF(map, obj, ms[id].mbytes)
    BY <1>3, <1>4
  <2>3. Placed(ms2) /\ Safe(ms2, mm) /\ Fits(mm, size)
    BY <2>1, <2>2, By1
  <2>. QED BY <1>4, <2>3 DEF Done
<1>5. CASE mv.by = 2
  <2>1. /\ Fresh(ms, map, n)
        /\ to \in 1 .. n /\ obj \in 1 .. n
        /\ map[to].dt = 0 /\ map[obj].dt = 1 /\ Room(map[to]) >= Room(map[obj])
        /\ GapAt(map, obj - 1, n) \/ GapAt(map, obj + 1, n)
        /\ Room(map[obj]) + RoomAt(map, obj - 1, n) + RoomAt(map, obj + 1, n) >= size
    BY <1>5 DEF Step
  <2>2. By2Holds(map, n, ms, obj, to, size)
    BY <1>5, <2>1 DEF By2Holds
  <2>3. mm = MovedOne(map, obj, to)
    BY <1>3, <1>5
  <2>4. Placed(ms2) /\ Safe(ms2, mm)
    BY <2>2, <2>3, By2Safe
  <2>5. obj # 1 => Fits(mm, size)
    BY <2>2, <2>3, By2Fits
  <2>. QED BY <1>5, <2>4, <2>5 DEF Done
<1>6. CASE mv.by = 3
  <2>1. /\ Placed(ms) /\ Chain(ms, map, to, n) /\ obj = map[to].next /\ obj # NULL
        /\ Covered(ms, 0 .. map[to].soff - 1)
        /\ moves <= Cardinality(Before(ms, map[to].soff))
    BY <1>6 DEF Step
  <2>2. mm = Exchanged(map, to, obj, ms[id].mbytes)
    BY <1>3, <1>6
  <2>3. /\ Placed(ms2) /\ mm \in MapOf(n) /\ Chain(ms2, mm, obj, n)
        /\ mm[obj].soff = at + ms[id].mbytes
    <3>1. at = map[to].soff
      OBVIOUS
    <3>2. IsExchanged(mm, map, to, obj, ms[id].mbytes)
      BY <2>2 DEF IsExchanged
    <3>3. ChainMoved(ms, ms2, mm, obj, n, id, at)
      BY Zenon, <2>1, <3>1, <3>2, By3
    <3>. QED BY <3>3 DEF ChainMoved
  <2>4. Covered(ms2, 0 .. mm[obj].soff - 1)
    <3>1. Covered(ms2, 0 .. at + ms[id].mbytes - 1)
      <4>1. Covered(ms, 0 .. at - 1)
        BY <2>1
      <4>. QED BY <2>1, <4>1, ChainCovers
    <3>2. mm[obj].soff - 1 = at + ms[id].mbytes - 1
      <4>1. mm[obj].soff = at + ms[id].mbytes
        BY <2>3
      <4>2. at \in Int
        BY <2>1, ChainGap
      <4>3. ms[id].mbytes \in Int
        BY <1>1
      <4>. QED BY ONLY <4>1, <4>2, <4>3
    <3>. QED BY ONLY <3>1, <3>2
  <2>5. moves + 1 <= Cardinality(Before(ms2, mm[obj].soff))
    <3>1. moves \in Int /\ moves <= Cardinality(Before(ms, at))
      BY <2>1
    <3>2. \A m2 : MovedTo(ms, m2, id, at) =>
            moves + 1 <= Cardinality(Before(m2, at + ms[id].mbytes))
      BY <2>1, <3>1, ChainCounts
    <3>. QED BY <2>3, <3>2
  <2>6. Room(mm[obj]) >= size => Safe(ms2, mm) /\ Fits(mm, size)
    BY <2>3, ChainSafe
  <2>7. ASSUME mm[obj].next # NULL
        PROVE  Step(ms2, mm, n, Onward(mm, obj), size, moves + 1)
    BY Zenon, <2>3, <2>4, <2>5, <2>7 DEF Step, Onward
  <2>8. ASSUME mm[obj].next = NULL PROVE Room(mm[obj]) >= size
    <3>1. QBytes <= Cardinality(Bytes(ms2)) + Room(mm[obj])
      BY <2>3, <2>4, <2>8, ChainEnd
    <3>2. Bytes(ms2) = Bytes(ms)
      BY MovedBytes
    <3>3. Cardinality(Bytes(ms)) \in Nat
      BY BytesFinite
    <3>4. Room(mm[obj]) \in Int
      <4>1. obj \in 1 .. n
        BY <2>3, ChainGap
      <4>2. mm[obj].soff \in Int /\ mm[obj].eoff \in Int
        BY <2>3, <4>1, BlockType
      <4>. QED BY <4>2 DEF Room
    <3>. QED BY <3>1, <3>2, <3>3, <3>4, QBytesType
  <2>. QED BY <1>6, <2>3, <2>6, <2>7, <2>8 DEF Done
<1>7. mv.by \in {1, 2, 3}
  BY DEF Step
<1>. QED
  BY <1>4, <1>5, <1>6, <1>7

LEMMA MoveHeadIInv ==
  ASSUME 0 \notin Sizes, IInv, MoveHead
  PROVE  IInv'
<1>. PICK map : map = op.map
  OBVIOUS
<1>. PICK n : n = N
  OBVIOUS
<1>. PICK mv : mv = op.mv
  OBVIOUS
<1>. PICK obj : obj = mv.obj
  OBVIOUS
<1>. PICK to : to = mv.to
  OBVIOUS
<1>. PICK id : id = map[obj].id
  OBVIOUS
<1>. PICK at : at = map[to].soff
  OBVIOUS
<1>. PICK m : m = msgs[id].mbytes
  OBVIOUS
<1>0. PICK mm : mm = MapAfter(map, mv, m)
  OBVIOUS
<1>. PICK mv2 : mv2 = Onward(mm, obj)
  OBVIOUS
<1>. DEFINE enough == mv.by # 3 \/ Room(mm[obj]) >= op.size
            head == op.head \/ (mv.by = 2 /\ obj = 1)
<1>1. op.pc = "moved" /\ id = Moving /\ at = NewPlace
  BY Zenon DEF MoveHead, Moving, NewPlace
<1>2. /\ TypeOK /\ KeptInv /\ RiskInv /\ HeadInv /\ MovesBounded /\ MovedInv /\ ~Idle
  BY <1>1 DEF IInv, Idle
<1>3. /\ OpOK /\ Messages(msgs) /\ op.moves \in Nat /\ op.moves > 0
      /\ op.size \in Nat
      /\ op.beside \in BOOLEAN /\ op.head \in BOOLEAN
      /\ n \in Nat \ {0} /\ map \in MapOf(n) /\ op \in OpOf(op) /\ MoveIn(map, n, mv)
      /\ id \in DOMAIN msgs /\ to # NULL
      /\ Cardinality(Bytes(msgs)) + op.size <= QBytes
  <2>1. OpOK
    BY <1>2 DEF TypeOK
  <2>2. N > 0 /\ MoveIn(map, n, mv) /\ id \in DOMAIN msgs /\ to # NULL /\ op.moves > 0
    BY <1>1, <2>1 DEF OpOK, Searches
  <2>. QED BY <1>2, <2>1, <2>2, OpFields DEF OpOK
<1>4. m \in Nat /\ msgs \in [DOMAIN msgs -> Headers] /\ DOMAIN msgs \subseteq Ids
  BY <1>2, <1>3 DEF Messages, TypeOK
<1>5. /\ msgs' = [msgs EXCEPT ![id].whence = at] /\ UNCHANGED <<dat, atrisk>>
      /\ \/ enough /\ op' = [op EXCEPT !.map = mm, !.mv = NoMove, !.head = head, !.pc = "search"]
         \/ /\ ~enough /\ mm[obj].next # NULL
            /\ op' = [op EXCEPT !.map = mm, !.mv = mv2, !.head = head, !.pc = "move"]
         \/ /\ ~enough /\ mm[obj].next = NULL
            /\ op' = [op EXCEPT !.map = mm, !.mv = NoMove, !.head = head, !.pc = "refused"]
  <2>. DEFINE next == [op EXCEPT !.map = mm, !.mv = NoMove,
                                 !.head = @ \/ (op.mv.by = 2 /\ obj = 1)]
  <2>1. /\ msgs' = [msgs EXCEPT ![id].whence = at] /\ UNCHANGED <<dat, atrisk>>
        /\ op' = CASE enough -> [next EXCEPT !.pc = "search"]
                   [] ~enough /\ mm[obj].next # NULL -> [next EXCEPT !.pc = "move", !.mv = mv2]
                   [] OTHER -> [next EXCEPT !.pc = "refused"]
    BY <1>0, <1>1, Zenon DEF MoveHead, MapAfter, Onward
  <2>2. next = [op EXCEPT !.map = mm, !.mv = NoMove, !.head = head]
    BY <1>3 DEF OpOf
  <2>. HIDE DEF next, enough
  <2>. PICK nx : nx = next
    OBVIOUS
  <2>. PICK h : h = head
    OBVIOUS
  <2>. HIDE DEF head
  <2>3. /\ [nx EXCEPT !.pc = "search"] = [op EXCEPT !.map = mm, !.mv = NoMove, !.head = h, !.pc = "search"]
        /\ [nx EXCEPT !.pc = "refused"] = [op EXCEPT !.map = mm, !.mv = NoMove, !.head = h, !.pc = "refused"]
        /\ [nx EXCEPT !.pc = "move", !.mv = mv2] = [op EXCEPT !.map = mm, !.mv = mv2, !.head = h, !.pc = "move"]
    <3>1. nx = [op EXCEPT !.map = mm, !.mv = NoMove, !.head = h] /\ op \in OpOf(op)
      BY <1>3, <2>2
    <3>. QED BY ONLY <3>1 DEF OpOf
  <2>. QED BY <2>1, <2>3
<1>. HIDE DEF enough
<1>6. at \in Int /\ to \in 1 .. n /\ obj \in 1 .. n
  <2>1. to \in 1 .. n /\ obj \in 1 .. n
    BY <1>3 DEF MoveIn, NULL
  <2>. QED BY <1>3, <2>1, BlockType
<1>7. MovedTo(msgs, msgs', id, at) /\ msgs' \in [DOMAIN msgs' -> Headers] /\ Messages(msgs')
  <2>1. msgs[id] \in Headers
    BY <1>3, <1>4
  <2>. PICK b : b = [whence |-> at, mbytes |-> m]
    OBVIOUS
  <2>2. [msgs[id] EXCEPT !.whence = at] = b /\ b \in Headers
    <3>1. m \in Sizes
      BY <2>1 DEF Headers
    <3>2. b \in Headers
      BY ONLY <1>6, <3>1, b = [whence |-> at, mbytes |-> m] DEF Headers
    <3>3. [msgs[id] EXCEPT !.whence = at] = b
      BY ONLY <2>1, b = [whence |-> at, mbytes |-> m], m = msgs[id].mbytes DEF Headers
    <3>. QED BY Zenon, <3>2, <3>3
  <2>3. msgs' = [msgs EXCEPT ![id] = b]
    BY Zenon, <1>5, <2>2
  <2>4. /\ DOMAIN msgs' = DOMAIN msgs /\ msgs'[id] = b
        /\ \A j \in DOMAIN msgs \ {id} : msgs'[j] = msgs[j]
        /\ msgs' \in [DOMAIN msgs' -> Headers]
    BY Zenon, <1>3, <1>4, <2>2, <2>3
  <2>5. MovedTo(msgs, msgs', id, at)
    <3>1. b.whence = at /\ b.mbytes = m /\ m = msgs[id].mbytes
      OBVIOUS
    <3>. QED BY ONLY <1>3, <2>4, <3>1 DEF MovedTo
  <2>6. Messages(msgs')
    BY <1>4, <2>4, MessagesTyped
  <2>. QED BY <2>4, <2>5, <2>6
<1>8. DOMAIN msgs' = DOMAIN msgs /\ Bytes(msgs') = Bytes(msgs) /\ cbytes' = cbytes
  <2>1. Bytes(msgs') = Bytes(msgs)
    BY <1>7, MovedBytes
  <2>2. cbytes = Cardinality(Bytes(msgs)) /\ cbytes' = Cardinality(Bytes(msgs'))
    BY DEF cbytes, Bytes
  <2>. QED BY <1>7, <2>1, <2>2 DEF MovedTo
<1>9. mm \in MapOf(n)
  <2>1. m \in Int /\ mv.to # NULL
    BY <1>3, <1>4
  <2>. QED BY <1>0, <1>3, <2>1, MapAfterIs
<1>10. mm[obj].next \in 0 .. n
  BY <1>6, <1>9, BlockType
<1>11. /\ op' \in OpOf(op') /\ op'.pc \in {"search", "move", "refused"}
       /\ op'.map = mm /\ op'.id = op.id /\ op'.size = op.size /\ op'.moves = op.moves
       /\ op'.beside = op.beside
       /\ op'.pc = "search" => enough
       /\ op'.pc = "move" => ~enough /\ mm[obj].next # NULL /\ op'.mv = mv2
       /\ op'.pc = "refused" => ~enough /\ mm[obj].next = NULL
  <2>1. head \in BOOLEAN
    BY <1>3
  <2>2. NoMove \in Moves
    BY NoMoveIs
  <2>3. mv2 \in Moves
    BY <1>3, <1>6, <1>9, OnwardIs
  <2>. PICK h \in BOOLEAN : h = head
    BY <2>1
  <2>. HIDE DEF enough, head
  <2>4. op \in OpOf(op)
    BY <1>3
  <2>5. \/ enough /\ op' = [op EXCEPT !.map = mm, !.mv = NoMove, !.head = h, !.pc = "search"]
        \/ /\ ~enough /\ mm[obj].next # NULL
           /\ op' = [op EXCEPT !.map = mm, !.mv = mv2, !.head = h, !.pc = "move"]
        \/ /\ ~enough /\ mm[obj].next = NULL
           /\ op' = [op EXCEPT !.map = mm, !.mv = NoMove, !.head = h, !.pc = "refused"]
    BY <1>5
  <2>. QED BY ONLY Zenon, <2>2, <2>3, <2>4, <2>5, h \in BOOLEAN DEF OpOf
<1>12. op'.head <=> op.head \/ (mv.by = 2 /\ obj = 1)
  <2>1. op \in OpOf(op)
    BY <1>3
  <2>2. op'.head = head
    <3>. HIDE DEF enough, head
    <3>. PICK h : h = head
      OBVIOUS
    <3>. QED BY <1>5, <2>1 DEF OpOf
  <2>. QED BY <1>3, <2>2
<1>. HIDE DEF head
<1>13. N' = n /\ ~Idle'
  <2>1. N' = n
    BY <1>3, <1>9, <1>11, SizeOfMap DEF N
  <2>. QED BY <1>11, <2>1 DEF Idle
<1>14. TypeOK'
  <2>1. op'.pc = "move" => MoveIn(mm, n, mv2)
    BY <1>3, <1>6, <1>9, <1>11, OnwardIs
  <2>2. op.id \notin DOMAIN msgs' /\ cbytes' + op.size <= QBytes
    BY <1>3, <1>8 DEF OpOK
  <2>3. OpOK'
    <3>1. op' \in OpOf(op') /\ N' \in Nat /\ op'.map \in MapOf(N') /\ N' > 0
      BY <1>3, <1>9, <1>11, <1>13
    <3>2. op'.id \notin DOMAIN msgs' /\ cbytes' + op'.size <= QBytes
      BY <1>11, <2>2
    <3>3. op'.pc = "move" => MoveIn(op'.map, N', op'.mv)
      BY <1>11, <1>13, <2>1
    <3>4. op'.pc # "moved"
      BY <1>11
    <3>. QED BY <3>1, <3>2, <3>3, <3>4 DEF OpOK, Searches
  <2>. QED BY Zenon, <1>2, <1>4, <1>5, <1>7, <1>8, <1>13, <2>3 DEF TypeOK
<1>15. FoundInv' /\ WrittenInv' /\ MovedInv'
  BY <1>11 DEF FoundInv, WrittenInv, MovedInv
<1>16. HeadInv'
  BY <1>3, <1>11 DEF HeadInv
<1>17. MovesBounded'
  <2>. SUFFICES ASSUME ~op'.beside, ~op'.head PROVE op'.moves <= Cardinality(DOMAIN msgs')
    BY DEF MovesBounded
  <2>1. ~op.beside /\ ~op.head
    BY <1>11, <1>12
  <2>2. op.moves <= Cardinality(DOMAIN msgs)
    BY <1>2, <2>1 DEF MovesBounded, Idle
  <2>. QED BY <1>8, <1>11, <2>2
<1>18. CASE Strayed
  <2>1. atrisk' = Ids
    BY <1>2, <1>5, <1>18 DEF RiskInv
  <2>2. Strayed' /\ (op'.beside \/ op'.head)
    <3>1. op.beside => op'.beside
      BY <1>11
    <3>2. op.head => op'.head
      BY <1>12
    <3>3. op'.moves = op.moves
      BY <1>11
    <3>. QED BY ONLY <1>18, <3>1, <3>2, <3>3 DEF Strayed
  <2>3. RiskInv'
    BY <2>1 DEF RiskInv
  <2>4. KeptInv'
    <3>1. DOMAIN msgs' \subseteq Ids
      BY <1>4, <1>8
    <3>. QED BY <2>1, <3>1 DEF KeptInv
  <2>5. RoomIsFound' /\ SearchInv' /\ MoveInv'
    BY <2>2 DEF RoomIsFound, SearchInv, MoveInv
  <2>. QED BY <1>14, <1>15, <1>16, <1>17, <2>3, <2>4, <2>5 DEF IInv
<1>19. CASE ~Strayed
  <2>1. /\ ~op.head
        /\ Step(msgs, map, n, mv, op.size, op.moves - 1)
        /\ mv.by = 2 => to \notin {obj - 1, obj + 1}
    BY <1>1, <1>2, <1>19 DEF MovedInv
  <2>. PICK c \in Nat : c = op.moves - 1
    BY <1>3
  <2>. PICK size : size = op.size
    OBVIOUS
  <2>2. c + 1 = op.moves
    BY <1>3
  <2>3. /\ Placed(msgs')
        /\ mv.by # 3 \/ Room(mm[obj]) >= size =>
             Safe(msgs', mm) /\ ((mv.by = 2 /\ obj = 1) \/ Fits(mm, size))
        /\ mv.by = 3 /\ mm[obj].next # NULL =>
             Step(msgs', mm, n, mv2, size, c + 1)
        /\ mv.by = 3 /\ mm[obj].next = NULL => Room(mm[obj]) >= size
    <3>1. Step(msgs, map, n, mv, size, c)
      BY <2>1
    <3>2. mv.by = 2 => mv.to \notin {mv.obj - 1, mv.obj + 1}
      BY <2>1
    <3>3. at = map[mv.to].soff /\ mm = MapAfter(map, mv, msgs[id].mbytes)
      BY <1>0
    <3>4. size \in Nat /\ Cardinality(Bytes(msgs)) + size <= QBytes
      BY <1>3
    <3>5. Messages(msgs) /\ Messages(msgs') /\ MovedTo(msgs, msgs', id, at)
      BY <1>3, <1>7
    <3>6. Done(msgs', mm, n, mv, size, c)
      BY <1>3, <3>1, <3>2, <3>3, <3>4, <3>5, StepDone
    <3>. QED BY <3>6 DEF Done
  <2>4. mv.by \in {1, 2} => op.moves = 1
    <3>1. mv.by \in {1, 2} => c = 0
      <4>1. Step(msgs, map, n, mv, op.size, c)
        BY <2>1
      <4>. QED BY ONLY <4>1 DEF Step
    <3>2. 0 + 1 = 1
      OBVIOUS
    <3>. QED BY ONLY <2>2, <3>1, <3>2
  <2>5. op.beside => Strayed
    BY DEF Strayed
  <2>6. ~Strayed'
    <3>1. ~op'.beside
      BY <1>11, <1>19, <2>5
    <3>2. op'.head => op'.moves = 1
      BY <1>11, <1>12, <2>1, <2>4
    <3>. QED BY <3>1, <3>2 DEF Strayed
  <2>7. RiskInv'
    BY <2>6 DEF RiskInv
  <2>8. SearchInv'
    <3>. SUFFICES ASSUME op'.pc = "search"
                  PROVE  Placed(msgs') /\ Safe(msgs', mm) /\ (op'.head \/ Fits(mm, size))
      BY <1>3, <1>11 DEF SearchInv
    <3>1. mv.by # 3 \/ Room(mm[obj]) >= size
      BY <1>11 DEF enough
    <3>2. Safe(msgs', mm) /\ ((mv.by = 2 /\ obj = 1) \/ Fits(mm, size))
      BY <2>3, <3>1
    <3>. QED BY <1>12, <2>3, <3>2
  <2>9. MoveInv'
    <3>. SUFFICES ASSUME op'.pc = "move"
                  PROVE  Step(msgs', mm, n, mv2, size, op.moves)
      BY <1>11, <1>13 DEF MoveInv
    <3>1. mv.by = 3 /\ mm[obj].next # NULL
      BY <1>11 DEF enough
    <3>2. Step(msgs', mm, n, mv2, size, c + 1)
      BY <2>3, <3>1
    <3>. QED BY <2>2, <3>2
  <2>10. RoomIsFound'
    <3>. SUFFICES ASSUME op'.pc = "refused" PROVE FALSE
      BY <1>11 DEF RoomIsFound
    <3>1. mv.by = 3 /\ mm[obj].next = NULL /\ ~(Room(mm[obj]) >= op.size)
      BY <1>11 DEF enough
    <3>. QED BY <2>3, <3>1
  <2>11. KeptInv'
    <3>. SUFFICES ASSUME NEW i \in DOMAIN msgs \ atrisk PROVE Kept(i)'
      BY Zenon, <1>5, <1>8 DEF KeptInv
    <3>1. Kept(i)
      BY <1>2 DEF KeptInv
    <3>2. /\ Place(msgs'[i]) \subseteq Offsets
          /\ \A j \in DOMAIN msgs' \ {i} : Place(msgs'[i]) \cap Place(msgs'[j]) = {}
      BY <1>8, <2>3 DEF Placed
    <3>3. msgs'[i].mbytes = msgs[i].mbytes
      BY <1>7 DEF MovedTo
    <3>4. Held(i, msgs[i].whence)'
      <4>1. CASE i = id
        <5>1. Held(i, at)
          BY <1>1, <3>1, <4>1 DEF Kept
        <5>2. msgs'[i].whence = at
          BY <1>7, <4>1 DEF MovedTo
        <5>. QED BY Zenon, <1>5, <3>3, <5>1, <5>2 DEF Held
      <4>2. CASE i # id
        <5>1. Held(i, msgs[i].whence)
          BY <1>1, <3>1, <4>2 DEF Kept
        <5>2. msgs'[i].whence = msgs[i].whence
          BY <1>7, <4>2 DEF MovedTo
        <5>. QED BY Zenon, <1>5, <3>3, <5>1, <5>2 DEF Held
      <4>. QED BY <4>1, <4>2
    <3>5. op'.pc # "moved"
      BY <1>11
    <3>. QED BY <3>2, <3>4, <3>5 DEF Kept
  <2>. QED BY <1>14, <1>15, <1>16, <1>17, <2>7, <2>8, <2>9, <2>10, <2>11 DEF IInv
<1>. QED
  BY <1>18, <1>19

(* With no send in progress only the messages and the data count.          *)
LEMMA IdleIInv ==
  ASSUME IInv, op' = NoOp, DOMAIN msgs' \subseteq Ids, msgs' \in [DOMAIN msgs' -> Headers],
         DOMAIN dat' = Offsets, atrisk' \subseteq Ids, KeptInv'
  PROVE  IInv'
<1>1. op'.pc = "idle"
  BY DEF NoOp
<1>2. TypeOK'
  BY <1>1 DEF TypeOK, Idle
<1>. QED
  BY <1>1, <1>2
  DEF IInv, SearchInv, MoveInv, MovedInv, FoundInv, WrittenInv, RiskInv, HeadInv,
      RoomIsFound, MovesBounded, Idle

LEMMA WriteDataIInv ==
  ASSUME 0 \notin Sizes, IInv, WriteData
  PROVE  IInv'
<1>1. /\ op.pc = "found" /\ op' = [op EXCEPT !.pc = "written"] /\ UNCHANGED <<msgs, atrisk>>
      /\ dat' = Written([k \in 1 .. op.size |-> <<op.id, k>>], op.off)
  BY DEF WriteData
<1>2. TypeOK /\ KeptInv /\ FoundInv /\ RiskInv /\ HeadInv /\ MovesBounded /\ ~Idle
  BY <1>1 DEF IInv, Idle
<1>3. /\ OpOK /\ op.size \in Nat /\ op.off \in Int /\ Messages(msgs) /\ op \in OpOf(op)
  BY <1>2, OpFields DEF OpOK
<1>4. /\ op' \in OpOf(op') /\ op'.pc = "written" /\ op'.map = op.map /\ op'.id = op.id
      /\ op'.size = op.size /\ op'.off = op.off /\ op'.moves = op.moves
      /\ op'.beside = op.beside /\ op'.head = op.head
  BY <1>1, <1>3 DEF OpOf
<1>5. N' = N /\ cbytes' = cbytes /\ Strayed' = Strayed /\ ~Idle'
  BY <1>1, <1>4 DEF N, cbytes, Strayed, Idle
<1>. PICK new : new = op.off .. op.off + op.size - 1
  OBVIOUS
<1>6. \A q \in Offsets : dat'[q] = IF q \in new THEN <<op.id, q - op.off + 1>> ELSE dat[q]
  <2>. PICK bytes : bytes = [k \in 1 .. op.size |-> <<op.id, k>>]
    OBVIOUS
  <2>1. Len(bytes) = op.size
    BY <1>3
  <2>4. dat' = Written(bytes, op.off)
    BY <1>1
  <2>5. op.off .. op.off + Len(bytes) - 1 = new
    BY <2>1
  <2>2. dat' = [q \in Offsets |-> IF q \in new THEN bytes[q - op.off + 1] ELSE dat[q]]
    BY ONLY <2>4, <2>5 DEF Written
  <2>3. ASSUME NEW q \in Offsets, q \in new PROVE bytes[q - op.off + 1] = <<op.id, q - op.off + 1>>
    <3>1. q - op.off + 1 \in 1 .. op.size
      BY <1>3, <2>3
    <3>. QED BY <3>1
  <2>. QED BY <2>2, <2>3
<1>7. TypeOK'
  <2>1. DOMAIN dat' = Offsets
    BY <1>1 DEF Written
  <2>2. OpOK'
    BY <1>1, <1>3, <1>4, <1>5 DEF OpOK, Searches
  <2>. QED BY <1>1, <1>2, <1>5, <2>1, <2>2 DEF TypeOK
<1>8. SearchInv' /\ MoveInv' /\ MovedInv' /\ RoomIsFound'
  BY <1>4 DEF SearchInv, MoveInv, MovedInv, RoomIsFound
<1>9. FoundInv'
  BY <1>1, <1>2, <1>4, <1>5 DEF FoundInv
<1>10. RiskInv' /\ HeadInv' /\ MovesBounded'
  <2>1. RiskInv' /\ HeadInv'
    BY <1>1, <1>2, <1>4, <1>5 DEF RiskInv, HeadInv
  <2>2. MovesBounded'
    BY <1>1, <1>2, <1>4 DEF MovesBounded, Idle
  <2>. QED BY <2>1, <2>2
<1>11. CASE Strayed
  <2>1. atrisk' = Ids
    BY <1>1, <1>2, <1>11 DEF RiskInv
  <2>2. KeptInv'
    BY <1>7, <2>1 DEF KeptInv, TypeOK
  <2>3. WrittenInv'
    BY <1>5, <1>11 DEF WrittenInv
  <2>. QED BY <1>7, <1>8, <1>9, <1>10, <2>2, <2>3 DEF IInv
<1>12. CASE ~Strayed
  <2>1. Clear(msgs, new)
    BY <1>1, <1>2, <1>12 DEF FoundInv
  <2>2. WrittenInv'
    <3>. SUFFICES ASSUME NEW k \in 1 .. op.size PROVE dat'[op.off + k - 1] = <<op.id, k>>
      BY <1>4 DEF WrittenInv
    <3>. PICK q : q = op.off + k - 1
      OBVIOUS
    <3>1. q \in new /\ q - op.off + 1 = k
      BY <1>3
    <3>2. q \in Offsets
      BY <2>1, <3>1 DEF Clear
    <3>. QED BY <1>6, <3>1, <3>2
  <2>3. KeptInv'
    <3>. SUFFICES ASSUME NEW i \in DOMAIN msgs \ atrisk PROVE Kept(i)'
      BY <1>1 DEF KeptInv
    <3>1. Kept(i) /\ op.pc # "moved" /\ op'.pc # "moved"
      BY <1>1, <1>2, <1>4 DEF KeptInv
    <3>. PICK w \in Int : w = msgs[i].whence
      BY <1>3 DEF Messages
    <3>. PICK m \in Nat : m = msgs[i].mbytes
      BY <1>3 DEF Messages
    <3>2. Place(msgs[i]) \subseteq Offsets /\ Place(msgs[i]) \cap new = {}
          /\ \A k \in 1 .. m : dat[w + k - 1] = <<i, k>>
      BY <2>1, <3>1 DEF Kept, Held, Clear
    <3>3. ASSUME NEW k \in 1 .. m PROVE dat'[w + k - 1] = <<i, k>>
      <4>. PICK q : q = w + k - 1
        OBVIOUS
      <4>1. q \in Place(msgs[i])
        BY DEF Place
      <4>2. q \in Offsets /\ q \notin new
        BY <3>2, <4>1
      <4>. QED BY <1>6, <3>2, <4>2
    <3>. QED BY <1>1, <3>1, <3>3 DEF Kept, Held
  <2>. QED BY <1>7, <1>8, <1>9, <1>10, <2>2, <2>3 DEF IInv
<1>. QED
  BY <1>11, <1>12

LEMMA WriteHeadIInv ==
  ASSUME 0 \notin Sizes, IInv, WriteHead
  PROVE  IInv'
<1>1. /\ op.pc = "written" /\ op' = NoOp /\ UNCHANGED <<dat, atrisk>>
      /\ msgs' = [i \in DOMAIN msgs \cup {op.id} |->
                    IF i = op.id THEN [whence |-> op.off, mbytes |-> op.size] ELSE msgs[i]]
  BY DEF WriteHead
<1>2. TypeOK /\ KeptInv /\ FoundInv /\ WrittenInv /\ RiskInv /\ ~Idle
  BY <1>1 DEF IInv, Idle
<1>3. /\ op.id \in Ids /\ op.size \in Sizes /\ op.off \in Int /\ op.id \notin DOMAIN msgs
  BY <1>2, OpFields DEF OpOK
<1>4. /\ DOMAIN msgs' = DOMAIN msgs \cup {op.id}
      /\ msgs'[op.id] = [whence |-> op.off, mbytes |-> op.size]
      /\ \A i \in DOMAIN msgs : msgs'[i] = msgs[i]
  BY <1>1, <1>3
<1>5. DOMAIN msgs' \subseteq Ids /\ msgs' \in [DOMAIN msgs' -> Headers]
  <2>. PICK b : b = [whence |-> op.off, mbytes |-> op.size]
    OBVIOUS
  <2>1. b \in Headers
    BY <1>3 DEF Headers
  <2>2. \A i \in DOMAIN msgs : msgs[i] \in Headers
    BY <1>2 DEF TypeOK
  <2>. QED BY <1>1, <1>2, <1>3, <2>1, <2>2 DEF TypeOK
<1>6. KeptInv'
  <2>1. op'.pc # "moved"
    BY <1>1 DEF NoOp
  <2>2. CASE Strayed
    <3>1. atrisk' = Ids
      BY <1>1, <1>2, <2>2 DEF RiskInv
    <3>. QED BY <1>5, <3>1 DEF KeptInv
  <2>3. CASE ~Strayed
    <3>1. /\ Clear(msgs, op.off .. op.off + op.size - 1)
          /\ \A k \in 1 .. op.size : dat[op.off + k - 1] = <<op.id, k>>
      BY <1>1, <1>2, <2>3 DEF FoundInv, WrittenInv
    <3>. PICK new : new = op.off .. op.off + op.size - 1
      OBVIOUS
    <3>2. Place(msgs'[op.id]) = new /\ \A i \in DOMAIN msgs : Place(msgs'[i]) = Place(msgs[i])
      BY <1>4 DEF Place
    <3>3. new \subseteq Offsets /\ \A i \in DOMAIN msgs : Place(msgs[i]) \cap new = {}
      BY <3>1 DEF Clear
    <3>. SUFFICES ASSUME NEW i \in DOMAIN msgs' \ atrisk PROVE Kept(i)'
      BY <1>1 DEF KeptInv
    <3>4. CASE i = op.id
      <4>1. Held(i, msgs[i].whence)'
        BY <1>1, <1>4, <3>1, <3>4 DEF Held
      <4>2. \A j \in DOMAIN msgs' \ {i} : Place(msgs'[i]) \cap Place(msgs'[j]) = {}
        BY <1>4, <3>2, <3>3, <3>4
      <4>. QED BY <2>1, <3>2, <3>3, <3>4, <4>1, <4>2 DEF Kept
    <3>5. CASE i # op.id
      <4>1. Kept(i) /\ op.pc # "moved" /\ i \in DOMAIN msgs
        BY <1>1, <1>2, <1>4, <3>5 DEF KeptInv
      <4>2. Held(i, msgs[i].whence)'
        BY <1>1, <1>4, <4>1 DEF Held, Kept
      <4>3. \A j \in DOMAIN msgs' \ {i} : Place(msgs'[i]) \cap Place(msgs'[j]) = {}
        BY <1>4, <3>2, <3>3, <3>5, <4>1 DEF Kept
      <4>. QED BY <2>1, <3>2, <4>1, <4>2, <4>3 DEF Kept
    <3>. QED BY <3>4, <3>5
  <2>. QED BY <2>2, <2>3
<1>7. DOMAIN dat' = Offsets /\ atrisk' \subseteq Ids
  BY <1>1, <1>2 DEF TypeOK
<1>. QED
  BY <1>1, <1>5, <1>6, <1>7, IdleIInv

LEMMA RefusedIInv == IInv /\ Refused => IInv'
<1>. SUFFICES ASSUME IInv, Refused PROVE IInv'
  OBVIOUS
<1>1. op.pc = "refused" /\ op' = NoOp /\ UNCHANGED <<msgs, dat, atrisk>>
  BY DEF Refused
<1>2. op'.pc # "moved"
  BY <1>1 DEF NoOp
<1>3. KeptInv'
  BY <1>1, <1>2, KeptStays DEF IInv
<1>4. /\ DOMAIN msgs' \subseteq Ids /\ msgs' \in [DOMAIN msgs' -> Headers]
      /\ DOMAIN dat' = Offsets /\ atrisk' \subseteq Ids
  BY <1>1 DEF IInv, TypeOK
<1>. QED
  BY <1>1, <1>3, <1>4, IdleIInv

(* The m bytes from offset at on are those of message i.                   *)
Holds(da, i, at, m) == \A k \in 1 .. m : da[at + k - 1] = <<i, k>>

(* The bytes of another message are not disowned.                          *)
LEMMA DisownedKeeps ==
  ASSUME NEW id, NEW i, i # id, NEW at \in Int, NEW m \in Nat,
         (at .. at + m - 1) \subseteq Offsets, Holds(dat, i, at, m)
  PROVE  Holds(Disowned(id), i, at, m)
<1>. SUFFICES ASSUME NEW k \in 1 .. m PROVE Disowned(id)[at + k - 1] = <<i, k>>
  BY DEF Holds
<1>. PICK q : q = at + k - 1
  OBVIOUS
<1>1. q \in Offsets /\ dat[q] = <<i, k>>
  BY DEF Holds
<1>2. dat[q][1] # id
  BY <1>1
<1>. QED
  BY <1>1, <1>2 DEF Disowned

LEMMA KillIInv ==
  ASSUME 0 \notin Sizes, IInv, Kill
  PROVE  IInv'
<1>1. /\ op.pc \in {"moved", "written"} /\ op' = NoOp /\ UNCHANGED msgs
      /\ dat' = IF op.pc = "written" THEN Disowned(op.id) ELSE dat
      /\ atrisk' = atrisk \cup (IF op.pc = "moved" /\ Torn THEN {Moving} ELSE {})
  BY SpaceAssumption DEF Kill, Torn
<1>2. TypeOK /\ KeptInv /\ ~Idle
  BY <1>1 DEF IInv, Idle
<1>3. OpOK /\ Messages(msgs)
  BY <1>2, OpFields
<1>4. op'.pc # "moved"
  BY <1>1 DEF NoOp
<1>5. KeptInv'
  <2>. SUFFICES ASSUME NEW i \in DOMAIN msgs, i \notin atrisk' PROVE Kept(i)'
    BY <1>1 DEF KeptInv
  <2>1. i \notin atrisk /\ Kept(i)
    BY <1>1, <1>2 DEF KeptInv
  <2>2. Held(i, msgs[i].whence)
    <3>1. CASE op.pc = "moved" /\ i = Moving
      <4>1. ~Torn
        BY <1>1, <3>1
      <4>. QED BY <2>1, <3>1, <4>1 DEF Kept
    <3>2. CASE ~(op.pc = "moved" /\ i = Moving)
      BY <2>1, <3>2 DEF Kept
    <3>. QED BY <3>1, <3>2
  <2>3. Held(i, msgs[i].whence)'
    <3>1. CASE op.pc = "moved"
      BY <1>1, <2>2, <3>1 DEF Held
    <3>2. CASE op.pc = "written"
      <4>1. i # op.id
        BY <1>3 DEF OpOK
      <4>. PICK w \in Int : w = msgs[i].whence
        BY <1>3 DEF Messages
      <4>. PICK m \in Nat : m = msgs[i].mbytes
        BY <1>3 DEF Messages
      <4>2. (w .. w + m - 1) \subseteq Offsets /\ Holds(dat, i, w, m)
        BY <2>1, <2>2 DEF Kept, Held, Place, Holds
      <4>3. Holds(Disowned(op.id), i, w, m)
        BY ONLY <4>1, <4>2, DisownedKeeps, w \in Int, m \in Nat
      <4>. QED BY <1>1, <3>2, <4>3 DEF Held, Holds
    <3>. QED BY <1>1, <3>1, <3>2
  <2>. QED BY <1>1, <1>4, <2>1, <2>3 DEF Kept
<1>6. DOMAIN dat' = Offsets
  BY <1>1, <1>2 DEF TypeOK, Disowned
<1>7. atrisk' \subseteq Ids
  BY <1>1, <1>2, <1>3 DEF TypeOK, OpOK
<1>8. DOMAIN msgs' \subseteq Ids /\ msgs' \in [DOMAIN msgs' -> Headers]
  BY <1>1, <1>2 DEF TypeOK
<1>. QED
  BY <1>1, <1>5, <1>6, <1>7, <1>8, IdleIInv

LEMMA ReceiveIInv ==
  ASSUME 0 \notin Sizes, IInv, NEW id \in DOMAIN msgs, Receive(id)
  PROVE  IInv'
<1>1. /\ Idle /\ op' = op /\ dat' = Disowned(id) /\ atrisk' = atrisk \ {id}
      /\ msgs' = [i \in DOMAIN msgs \ {id} |-> msgs[i]]
  BY DEF Receive, Restrict
<1>2. TypeOK /\ KeptInv
  BY DEF IInv
<1>3. op' = NoOp /\ op.pc # "moved" /\ op'.pc # "moved"
  BY <1>1, <1>2 DEF TypeOK, Idle, NoOp
<1>4. Messages(msgs)
  BY <1>2, MessagesTyped DEF TypeOK
<1>5. /\ DOMAIN msgs' = DOMAIN msgs \ {id} /\ \A i \in DOMAIN msgs' : msgs'[i] = msgs[i]
      /\ DOMAIN msgs' \subseteq Ids /\ msgs' \in [DOMAIN msgs' -> Headers]
  BY <1>1, <1>2 DEF TypeOK
<1>6. KeptInv'
  <2>. SUFFICES ASSUME NEW i \in DOMAIN msgs', i \notin atrisk' PROVE Kept(i)'
    BY DEF KeptInv
  <2>1. i \in DOMAIN msgs /\ i # id /\ i \notin atrisk /\ Kept(i)
    BY <1>1, <1>2, <1>5 DEF KeptInv
  <2>. PICK w \in Int : w = msgs[i].whence
    BY <1>4, <2>1 DEF Messages
  <2>. PICK m \in Nat : m = msgs[i].mbytes
    BY <1>4, <2>1 DEF Messages
  <2>2. (w .. w + m - 1) \subseteq Offsets /\ Holds(dat, i, w, m)
    BY <1>3, <2>1 DEF Kept, Held, Place, Holds
  <2>3. Holds(Disowned(id), i, w, m)
    BY ONLY <2>1, <2>2, DisownedKeeps, w \in Int, m \in Nat
  <2>4. Held(i, msgs[i].whence)'
    BY <1>1, <1>5, <2>1, <2>3 DEF Held, Holds
  <2>5. /\ Place(msgs'[i]) \subseteq Offsets
        /\ \A j \in DOMAIN msgs' \ {i} : Place(msgs'[i]) \cap Place(msgs'[j]) = {}
    BY <1>5, <2>1 DEF Kept
  <2>. QED BY <1>3, <2>4, <2>5 DEF Kept
<1>7. DOMAIN dat' = Offsets /\ atrisk' \subseteq Ids
  BY <1>1, <1>2 DEF TypeOK, Disowned
<1>. QED
  BY <1>3, <1>5, <1>6, <1>7, IdleIInv

----------------------------------------------------------------------------
----------------------------------------------------------------------------
(* The theorems.  A message of no bytes is left out: at the start of the   *)
(* file it makes MakeDataArray give up, and no send finds room any more.   *)

(* Each write of d_msgsnd_main, MoveFData, MoveOneData and DataCompress_3, *)
(* each receive and each kill keeps the inductive invariant.               *)
THEOREM SpaceInvariant ==
  ASSUME 0 \notin Sizes
  PROVE  Spec => []IInv
<1>1. Init => IInv
  BY InitIInv
<1>2. IInv /\ [Next]_vars => IInv'
  <2>. SUFFICES ASSUME IInv, [Next]_vars PROVE IInv'
    OBVIOUS
  <2>1. CASE UNCHANGED vars
    BY <2>1, StutterIInv
  <2>2. ASSUME NEW id \in Ids, NEW s \in Sizes, BeginSend(id, s) PROVE IInv'
    BY <2>2, BeginSendIInv
  <2>3. CASE FindSpace
    BY <2>3, FindSpaceIInv
  <2>4. CASE MoveData
    BY <2>4, MoveDataIInv
  <2>5. CASE MoveHead
    BY <2>5, MoveHeadIInv
  <2>6. CASE WriteData
    BY <2>6, WriteDataIInv
  <2>7. CASE WriteHead
    BY <2>7, WriteHeadIInv
  <2>8. CASE Refused
    BY <2>8, RefusedIInv
  <2>9. CASE Kill
    BY <2>9, KillIInv
  <2>10. ASSUME NEW id \in DOMAIN msgs, Receive(id) PROVE IInv'
    BY <2>10, ReceiveIInv
  <2>. QED
    BY <2>1, <2>2, <2>3, <2>4, <2>5, <2>6, <2>7, <2>8, <2>9, <2>10 DEF Next
<1>. QED
  BY <1>1, <1>2, PTL DEF Spec

(* Whenever FLOCK is free each message on the queue has the bytes msgsnd   *)
(* was given for it, and shares none of its place: FindSpace never gives a *)
(* message a place that is taken, and no move writes over another message, *)
(* but for those atrisk names.                                             *)
THEOREM MessagesAreKept ==
  ASSUME 0 \notin Sizes
  PROVE  Spec => []MessagesKept
<1>1. IInv => MessagesKept
  <2>. SUFFICES ASSUME IInv, Idle, NEW id \in DOMAIN msgs, id \notin atrisk PROVE Whole(id)
    BY DEF MessagesKept
  <2>1. Kept(id) /\ op.pc # "moved"
    BY DEF IInv, KeptInv, Idle
  <2>. QED BY <2>1, KeptWhole
<1>. QED
  BY <1>1, SpaceInvariant, PTL

(* When d_msg_cbytes leaves room for the message, FindSpace finds a gap,   *)
(* by moves if need be: it neither returns EAGAIN for want of one piece    *)
(* nor loses its way on the links of the map.                              *)
THEOREM RoomIsAlwaysFound ==
  ASSUME 0 \notin Sizes
  PROVE  Spec => []RoomIsFound
<1>1. IInv => RoomIsFound
  BY DEF IInv
<1>. QED
  BY <1>1, SpaceInvariant, PTL

(* The loop of SaveData, FindSpace and the compressions makes no more      *)
(* moves than there are messages on the queue, so that a sender does not   *)
(* hold FLOCK, its signals blocked, for ever.                              *)
THEOREM MovesAreBounded ==
  ASSUME 0 \notin Sizes
  PROVE  Spec => []MovesBounded
<1>1. IInv => MovesBounded
  BY DEF IInv
<1>. QED
  BY <1>1, SpaceInvariant, PTL

============================================================================
