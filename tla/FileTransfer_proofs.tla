------------------------- MODULE FileTransfer_proofs ------------------------
(***************************************************************************)
(* For any files, lengths, packet sizes, faults and changes: a file        *)
(* arrives whole or not at all, and headers and bytes are told apart.      *)
(***************************************************************************)
EXTENDS FileTransfer, WellFoundedInduction, TLAPS

Units ==
  [n : Names, at : Nat]
    \cup [n : Names, at : {0}, part : 1 .. HdLen, len : Nat, pk : PkSizes]

(* The units of the headers and files that agree with each other: all that *)
(* is sent while ~skew.                                                    *)
HdUnit(n, k, pk) == [n |-> n, at |-> 0, part |-> k, len |-> stat[n], pk |-> pk]
ByteUnit(n, a) == [n |-> n, at |-> a]

(* SendFile has looked at the file's length.                               *)
Begun(n) ==
  \E j \in 1 .. Len(Queue) :
    Queue[j] = n /\ (j < snd.i \/ (j = snd.i /\ snd.pc # "idle"))

Sent(n) == n \in Names /\ Begun(n) /\ stat[n] \in Nat \ {0} /\ stat[n] < LenRange

IsUnit(u) ==
  \E n \in Names :
    /\ Sent(n)
    /\ \/ \E k \in 1 .. HdLen, pk \in PkSizes : u = HdUnit(n, k, pk)
       \/ \E a \in 1 .. stat[n] : u = ByteUnit(n, a)

(* Where the stream begins.                                                *)
Origin == [at |-> -1]

(* What is complete with u.                                                *)
Ends(u) == u = Origin \/ (u.at # 0 /\ u.at = stat[u.n])

Follows(u, v) ==
  \/ u.at = 0 /\ u.part < HdLen /\ v = HdUnit(u.n, u.part + 1, u.pk)
  \/ u.at = 0 /\ u.part = HdLen /\ v = ByteUnit(u.n, 1)
  \/ u # Origin /\ u.at # 0 /\ u.at < stat[u.n] /\ v = ByteUnit(u.n, u.at + 1)
  \/ Ends(u) /\ \E n \in Names, pk \in PkSizes : v = HdUnit(n, 1, pk)

InOrder(m, p) ==
  /\ p[0] = Origin \/ IsUnit(p[0])
  /\ \A k \in 1 .. m : IsUnit(p[k])
  /\ \A k \in 0 .. m - 1 : Follows(p[k], p[k + 1])

(* From the receiver to the sender: what the call of Recvn has, what is    *)
(* under way, what the call of Sendn still has.                            *)
Out == IF snd.pc = "sendn" THEN snd.out ELSE <<>>
Carries(m, p) ==
  /\ m = Len(rcv.buf) + Len(wire) + Len(Out)
  /\ \A k \in 1 .. Len(rcv.buf) : p[k] = rcv.buf[k]
  /\ \A k \in 1 .. Len(wire) : p[Len(rcv.buf) + k] = wire[k]
  /\ \A k \in 1 .. Len(Out) : p[Len(rcv.buf) + Len(wire) + k] = Out[k]

(* The receiver has had everything up to u.                                *)
Had(u) ==
  /\ rcv.pc = "header" => Ends(u)
  /\ rcv.pc = "data" =>
       \E n \in Names, l \in Nat :
         /\ Sent(n) /\ rcv.len = stat[n] /\ rcv.pk \in PkSizes /\ l <= stat[n]
         /\ dst[rcv.name] = Bytes(n, 0, l)
         /\ ByName => rcv.name = n
         /\ u = IF l = 0 THEN HdUnit(n, HdLen, rcv.pk) ELSE ByteUnit(n, l)

(* The sender has given everything up to u to Sendn.                       *)
Given(u) ==
  /\ snd.pc = "idle" => Ends(u)
  /\ snd.pc \in {"sendn", "read"} =>
       u = IF snd.nsend = 0 THEN HdUnit(Sending, HdLen, snd.pk)
           ELSE ByteUnit(Sending, snd.nsend)

SenderOK ==
  /\ snd.i \in Nat \ {0}
  /\ snd.pc \in {"idle", "sendn", "read", "closed"}
  /\ snd.pc \in {"sendn", "read"} =>
       /\ snd.i <= Len(Queue) /\ Sent(Sending) /\ snd.len = stat[Sending]
       /\ snd.pk \in PkSizes /\ snd.nsend \in 0 .. snd.len
  /\ snd.pc = "sendn" => snd.out \in Seq(Units)

(* p is the stream, from the last unit the receiver is done with.          *)
Stream(m, p) == InOrder(m, p) /\ Carries(m, p) /\ Had(p[0]) /\ Given(p[m])

StreamOK ==
  /\ wire \in Seq(Units)
  /\ rcv.pc \in {"header", "data"} =>
       /\ up.rcv /\ rcv.buf \in Seq(Units) /\ Len(rcv.buf) <= Want
       /\ \E m \in Nat : \E p : Stream(m, p)

FilesOK ==
  \A n \in DOMAIN dst \ Old :
    \E f \in Names :
      /\ Sent(f) /\ (ByName => f = n)
      /\ \E l \in 0 .. stat[f] :
           dst[n] = Bytes(f, 0, l) /\ (l = stat[f] \/ Receiving(n))

OldKept ==
  /\ Old \subseteq DOMAIN dst /\ \A n \in Old : dst[n] = OldFile
  /\ rcv.pc \in {"data", "killed"} => rcv.name \in DOMAIN dst \ Old

(* The fields of the two ends' calls.                                      *)
Shapes ==
  /\ rcv.pc = "header" => rcv = [pc |-> "header", call |-> rcv.call, buf |-> rcv.buf]
  /\ rcv.pc \in {"data", "killed"} =>
       rcv = [pc |-> rcv.pc, call |-> rcv.call, buf |-> rcv.buf, name |-> rcv.name,
              len |-> rcv.len, pk |-> rcv.pk]
  /\ snd.pc \in {"sendn", "read"} =>
       snd = [pc |-> snd.pc, i |-> snd.i, len |-> snd.len, pk |-> snd.pk,
              nsend |-> snd.nsend, out |-> snd.out]
  /\ snd.i \in Nat \ {0} /\ snd.pc \in {"idle", "sendn", "read", "closed"}
  /\ snd.pc \in {"sendn", "read"} => snd.i <= Len(Queue)
  /\ rcv.pc = "killed" => ~up.rcv
  /\ src \in [Names -> Nat] /\ stat \in [Names -> Nat]

Agreed == SenderOK /\ StreamOK /\ FilesOK

IInv == Shapes /\ OldKept /\ (~skew => Agreed /\ rcv.pc # "astray")

----------------------------------------------------------------------------
(* What holds whether stream and headers agree or not.                     *)
LEMMA QueueFacts ==
  /\ Len(Queue) \in Nat \ {0} /\ HdLen \in Nat \ {0} /\ LenRange \in Nat \ {0}
  /\ \A j \in 1 .. Len(Queue) : Queue[j] \in Names
  /\ \A i, j \in 1 .. Len(Queue) : Queue[i] = Queue[j] => i = j
  /\ PkSizes \subseteq Nat \ {0}
<1>1. Queue \in Seq(Names) /\ Queue # <<>> /\ IsInjective(Queue)
  BY TransferAssumption
<1>2. DOMAIN Queue = 1 .. Len(Queue) /\ Len(Queue) \in Nat \ {0}
  BY <1>1
<1>. QED
  BY <1>1, <1>2, TransferAssumption DEF IsInjective

LEMMA InitShapes == Init => Shapes /\ OldKept
<1>. SUFFICES ASSUME Init PROVE Shapes /\ OldKept
  OBVIOUS
<1>1. Lengths \in [Names -> Nat]
  BY TransferAssumption
<1>. QED
  BY <1>1 DEF Init, Shapes, OldKept

LEMMA ShapesStep == Shapes /\ OldKept /\ [Next]_vars => Shapes' /\ OldKept'
<1>. SUFFICES ASSUME Shapes, OldKept, [Next]_vars PROVE Shapes' /\ OldKept'
  OBVIOUS
<1>1. CASE Start
  <2>1. Sending \in Names /\ src[Sending] \in Nat
    BY <1>1, QueueFacts DEF Start, Sending, Shapes
  <2>2. stat' \in [Names -> Nat]
    BY <1>1, <2>1 DEF Start, Shapes
  <2>3. snd.i + 1 \in Nat \ {0}
    BY DEF Shapes
  <2>. QED
    BY <1>1, <2>2, <2>3 DEF Start, Returned, Shapes, OldKept
<1>2. CASE Sendn
  BY <1>2 DEF Sendn, Shapes, OldKept
<1>3. CASE Read
  <2>3. snd.i + 1 \in Nat \ {0}
    BY DEF Shapes
  <2>. QED
    BY <1>3, <2>3 DEF Read, Returned, Shapes, OldKept
<1>4. CASE Close
  BY <1>4 DEF Close, Shapes, OldKept
<1>5. CASE Recvn
  BY <1>5 DEF Recvn, Shapes, OldKept
<1>6. CASE Open
  BY <1>6 DEF Open, Failed, Shapes, OldKept
<1>7. CASE NoMore
  BY <1>7 DEF NoMore, Failed, Restrict, Shapes, OldKept
<1>8. CASE Write
  BY <1>8 DEF Write, Shapes, OldKept
<1>9. CASE Complete
  BY <1>9 DEF Complete, NextCall, Shapes, OldKept
<1>10. CASE Again
  BY <1>10 DEF Again, NextCall, Shapes, OldKept
<1>11. CASE Leave
  BY <1>11 DEF Leave, Failed, Shapes, OldKept
<1>12. CASE WriteFails
  BY <1>12 DEF WriteFails, Failed, Restrict, Shapes, OldKept
<1>13. CASE \E n \in Names : Change(n)
  <2>1. PICK n \in Names : Change(n)
    BY <1>13
  <2>2. src' \in [Names -> Nat]
    BY <2>1, TransferAssumption DEF Change, Shapes
  <2>. QED
    BY <2>1, <2>2 DEF Change, Shapes, OldKept
<1>14. CASE KillSender
  BY <1>14 DEF KillSender, Shapes, OldKept
<1>15. CASE KillReceiver
  BY <1>15 DEF KillReceiver, Failed, Shapes, OldKept
<1>16. CASE Break
  BY <1>16 DEF Break, Shapes, OldKept
<1>17. CASE UNCHANGED vars
  BY <1>17 DEF vars, Shapes, OldKept
<1>. QED
  BY <1>1, <1>2, <1>3, <1>4, <1>5, <1>6, <1>7, <1>8, <1>9, <1>10, <1>11, <1>12,
     <1>13, <1>14, <1>15, <1>16, <1>17 DEF Next, SendFile, RecvFile

----------------------------------------------------------------------------
(* Induction, with a set in the place of a predicate: the library proves   *)
(* that < on the naturals is well-founded, and that a well-founded         *)
(* relation has a minimum in every set.                                    *)
Below == {ss \in Nat \X Nat : ss[1] < ss[2]}

LEMMA BelowIsWellFounded == IsWellFoundedOn(Below, Nat)
BY NatLessThanWellFounded DEF OpToRel, Below

LEMMA SetInduction ==
  ASSUME NEW S, 0 \in S, \A n \in Nat : n \in S => n + 1 \in S
  PROVE  \A n \in Nat : n \in S
<1>. DEFINE T == Nat \ S
<1>. SUFFICES ASSUME T # {} PROVE FALSE
  OBVIOUS
<1>0. T \subseteq Nat
  OBVIOUS
<1>1. \E n \in T : \A m \in T : ~(<<m, n>> \in Below)
  <2>. HIDE DEF T
  <2>. QED
    BY ONLY T \subseteq Nat, T # {}, BelowIsWellFounded, WFMin
<1>2. PICK n \in T : \A m \in T : ~(m < n)
  BY <1>1 DEF Below
<1>3. n - 1 \in Nat /\ n - 1 \notin T
  BY <1>2
<1>. QED
  BY <1>3

----------------------------------------------------------------------------
(* The stream.                                                             *)

(* A unit says which file it is of and where it stands.                    *)
LEMMA UnitFacts ==
  ASSUME Shapes, NEW u, IsUnit(u)
  PROVE  /\ u \in Units /\ u # Origin /\ u.n \in Names /\ Sent(u.n)
         /\ u.at = 0 => u.part \in 1 .. HdLen /\ u.pk \in PkSizes /\ u = HdUnit(u.n, u.part, u.pk)
         /\ u.at # 0 => u.at \in 1 .. stat[u.n] /\ u = ByteUnit(u.n, u.at)
<1>1. PICK n \in Names :
        /\ Sent(n)
        /\ \/ \E k \in 1 .. HdLen, pk \in PkSizes : u = HdUnit(n, k, pk)
           \/ \E a \in 1 .. stat[n] : u = ByteUnit(n, a)
  BY DEF IsUnit
<1>2. stat[n] \in Nat
  BY DEF Shapes
<1>3. CASE \E k \in 1 .. HdLen, pk \in PkSizes : u = HdUnit(n, k, pk)
  <2>1. PICK k \in 1 .. HdLen, pk \in PkSizes : u = HdUnit(n, k, pk)
    BY <1>3
  <2>2. /\ u = [n |-> n, at |-> 0, part |-> k, len |-> stat[n], pk |-> pk]
        /\ u.n = n /\ u.at = 0 /\ u.part = k /\ u.pk = pk
    BY <2>1 DEF HdUnit
  <2>3. u \in Units
    BY <1>2, <2>2 DEF Units
  <2>4. u # Origin
    BY <2>2 DEF Origin
  <2>. QED
    BY <1>1, <2>1, <2>2, <2>3, <2>4
<1>4. CASE \E a \in 1 .. stat[n] : u = ByteUnit(n, a)
  <2>1. PICK a \in 1 .. stat[n] : u = ByteUnit(n, a)
    BY <1>4
  <2>2. u = [n |-> n, at |-> a] /\ u.n = n /\ u.at = a /\ a \in Nat /\ a # 0
    BY <1>2, <2>1 DEF ByteUnit
  <2>3. u \in Units
    BY <2>2 DEF Units
  <2>4. u # Origin
    BY <2>2 DEF Origin
  <2>. QED
    BY <1>1, <2>1, <2>2, <2>3, <2>4
<1>. QED
  BY <1>1, <1>3, <1>4

(* After the end of a file comes a header, unit by unit.                   *)
LEMMA HeaderRun ==
  ASSUME Shapes, NEW m \in Nat, NEW p, InOrder(m, p), Ends(p[0]), m # 0
  PROVE  \E n \in Names, pk \in PkSizes :
           Sent(n) /\ \A k \in 1 .. m : k <= HdLen => p[k] = HdUnit(n, k, pk)
<1>1. IsUnit(p[1]) /\ Follows(p[0], p[1])
  <2>1. 1 \in 1 .. m /\ 0 \in 0 .. m - 1
    OBVIOUS
  <2>2. Follows(p[0], p[0 + 1])
    BY <2>1 DEF InOrder
  <2>. QED
    BY <2>1, <2>2 DEF InOrder
<1>2. PICK n \in Names, pk \in PkSizes : p[1] = HdUnit(n, 1, pk)
  <2>1. CASE p[0] = Origin
    <3>1. p[0].at = -1
      BY <2>1 DEF Origin
    <3>. QED
      BY <1>1, <2>1, <3>1 DEF Follows
  <2>2. CASE p[0] # Origin
    <3>1. p[0].at # 0 /\ p[0].at = stat[p[0].n] /\ IsUnit(p[0])
      BY <2>2 DEF Ends, InOrder
    <3>2. p[0].at \in Nat
      BY <3>1, UnitFacts DEF Shapes
    <3>. QED
      BY <1>1, <3>1, <3>2 DEF Follows
  <2>. QED
    BY <2>1, <2>2
<1>3. Sent(n)
  <2>1. p[1].n = n
    BY <1>2 DEF HdUnit
  <2>. QED
    BY <1>1, <2>1, UnitFacts
<1>. DEFINE S == {k \in Nat : k + 1 <= m /\ k + 1 <= HdLen => p[k + 1] = HdUnit(n, k + 1, pk)}
<1>4. 0 \in S
  BY <1>2
<1>5. ASSUME NEW k \in Nat, k \in S PROVE k + 1 \in S
  <2>. SUFFICES ASSUME (k + 1) + 1 <= m, (k + 1) + 1 <= HdLen
                PROVE  p[(k + 1) + 1] = HdUnit(n, (k + 1) + 1, pk)
    BY <1>5
  <2>1. k + 1 <= m /\ k + 1 < HdLen /\ k + 1 \in 0 .. m - 1 /\ k + 1 # HdLen
    BY QueueFacts
  <2>2. p[k + 1] = HdUnit(n, k + 1, pk)
    BY <1>5, <2>1, QueueFacts
  <2>3. Follows(p[k + 1], p[(k + 1) + 1])
    BY <2>1 DEF InOrder
  <2>4. p[k + 1].at = 0 /\ p[k + 1].part = k + 1 /\ p[k + 1].n = n /\ p[k + 1].pk = pk
        /\ p[k + 1] # Origin
    BY <2>2 DEF HdUnit, Origin
  <2>. QED
    BY <2>1, <2>3, <2>4 DEF Follows, Ends
<1>6. \A k \in Nat : k \in S
  <2>. HIDE DEF S
  <2>. QED
    BY <1>4, <1>5, SetInduction
<1>7. ASSUME NEW k \in 1 .. m, k <= HdLen PROVE p[k] = HdUnit(n, k, pk)
  <2>1. k - 1 \in Nat /\ (k - 1) + 1 = k
    OBVIOUS
  <2>2. k - 1 \in S
    BY <1>6, <2>1
  <2>. QED
    BY <1>7, <2>1, <2>2
<1>. QED
  BY <1>3, <1>7

(* Within a file come its bytes, one by one.                               *)
LEMMA BytesRun ==
  ASSUME Shapes, NEW m \in Nat, NEW p, InOrder(m, p), NEW n \in Names, NEW l \in Nat,
         NEW pk, p[0] = IF l = 0 THEN HdUnit(n, HdLen, pk) ELSE ByteUnit(n, l)
  PROVE  \A k \in 1 .. m : l + k <= stat[n] => p[k] = ByteUnit(n, l + k)
<1>. DEFINE S == {k \in Nat : k # 0 /\ k <= m /\ l + k <= stat[n] => p[k] = ByteUnit(n, l + k)}
<1>1. 0 \in S
  OBVIOUS
<1>2. ASSUME NEW k \in Nat, k \in S PROVE k + 1 \in S
  <2>. SUFFICES ASSUME k + 1 <= m, l + (k + 1) <= stat[n]
                PROVE  p[k + 1] = ByteUnit(n, l + (k + 1))
    BY <1>2
  <2>1. k \in 0 .. m - 1 /\ stat[n] \in Nat
    BY DEF Shapes
  <2>2. Follows(p[k], p[k + 1])
    BY <2>1 DEF InOrder
  <2>3. CASE k = 0 /\ l = 0
    <3>1. p[k].at = 0 /\ p[k].part = HdLen /\ p[k].n = n /\ p[k] # Origin
      BY <2>3 DEF HdUnit, Origin
    <3>2. HdLen \in Nat /\ ~(HdLen < HdLen)
      BY QueueFacts
    <3>3. p[k + 1] = ByteUnit(n, 1)
      BY <2>2, <3>1, <3>2 DEF Follows, Ends
    <3>. QED
      BY <2>3, <3>3
  <2>4. CASE ~(k = 0 /\ l = 0)
    <3>1. p[k] = ByteUnit(n, l + k)
      <4>1. CASE k = 0
        BY <2>4, <4>1
      <4>2. CASE k # 0
        <5>1. k <= m /\ l + k <= stat[n]
          BY <2>1
        <5>. QED
          BY <1>2, <4>2, <5>1
      <4>. QED
        BY <4>1, <4>2
    <3>2. p[k].at = l + k /\ p[k].n = n /\ l + k # 0 /\ l + k < stat[n] /\ p[k] # Origin
      <4>1. l + k # 0 /\ l + k < stat[n] /\ l + k # -1
        BY <2>1, <2>4
      <4>. QED
        BY <3>1, <4>1 DEF ByteUnit, Origin
    <3>3. p[k + 1] = ByteUnit(n, (l + k) + 1)
      <4>1. l + k # stat[n]
        BY <2>1, <3>2
      <4>. QED
        BY <2>2, <3>2, <4>1 DEF Follows, Ends
    <3>. QED
      BY <3>3
  <2>. QED
    BY <2>3, <2>4
<1>3. \A k \in Nat : k \in S
  <2>. HIDE DEF S
  <2>. QED
    BY <1>1, <1>2, SetInduction
<1>. QED
  BY <1>3

(* What was sent stays as it was.                                          *)
Stable == \A n \in Names : Sent(n) => Sent(n)' /\ stat'[n] = stat[n]

LEMMA UnitKept == ASSUME Stable, NEW u, IsUnit(u) PROVE IsUnit(u)'
BY DEF Stable, IsUnit, HdUnit, ByteUnit

LEMMA EndsKept ==
  ASSUME Stable, Shapes, NEW u, u = Origin \/ IsUnit(u), Ends(u)
  PROVE  Ends(u)'
<1>1. CASE u = Origin
  BY <1>1 DEF Ends, Origin
<1>2. CASE u # Origin
  <2>1. stat'[u.n] = stat[u.n]
    BY <1>2, UnitFacts DEF Stable
  <2>. QED
    BY <2>1 DEF Ends, Origin
<1>. QED
  BY <1>1, <1>2

LEMMA FollowsKept ==
  ASSUME Stable, Shapes, NEW u, NEW v, u = Origin \/ IsUnit(u), IsUnit(v), Follows(u, v)
  PROVE  Follows(u, v)'
<1>1. Sent(v.n) /\ stat'[v.n] = stat[v.n]
  BY UnitFacts DEF Stable
<1>2. CASE u.at = 0 /\ u.part < HdLen /\ v = HdUnit(u.n, u.part + 1, u.pk)
  <2>1. v.n = u.n
    BY <1>2 DEF HdUnit
  <2>. QED
    BY <1>1, <1>2, <2>1 DEF Follows, HdUnit
<1>3. CASE u.at = 0 /\ u.part = HdLen /\ v = ByteUnit(u.n, 1)
  BY <1>3 DEF Follows, ByteUnit
<1>4. CASE u # Origin /\ u.at # 0 /\ u.at < stat[u.n] /\ v = ByteUnit(u.n, u.at + 1)
  <2>1. v.n = u.n
    BY <1>4 DEF ByteUnit
  <2>. QED
    BY <1>1, <1>4, <2>1 DEF Follows, ByteUnit, Origin
<1>5. CASE Ends(u) /\ \E n \in Names, pk \in PkSizes : v = HdUnit(n, 1, pk)
  <2>1. PICK n \in Names, pk \in PkSizes : v = HdUnit(n, 1, pk)
    BY <1>5
  <2>2. v.n = n
    BY <2>1 DEF HdUnit
  <2>3. HdUnit(n, 1, pk)' = HdUnit(n, 1, pk)
    BY <1>1, <2>2 DEF HdUnit
  <2>4. Ends(u)'
    BY <1>5, EndsKept
  <2>. QED
    BY <2>1, <2>3, <2>4 DEF Follows
<1>. QED
  BY <1>2, <1>3, <1>4, <1>5 DEF Follows

LEMMA OrderKept ==
  ASSUME Stable, Shapes, NEW m \in Nat, NEW p, InOrder(m, p)
  PROVE  InOrder(m, p)'
<1>1. (p[0] = Origin \/ IsUnit(p[0]))' /\ \A k \in 1 .. m : IsUnit(p[k])'
  BY UnitKept DEF InOrder, Origin
<1>2. ASSUME NEW k \in 0 .. m - 1 PROVE Follows(p[k], p[k + 1])'
  <2>1. (p[k] = Origin \/ IsUnit(p[k])) /\ IsUnit(p[k + 1]) /\ Follows(p[k], p[k + 1])
    <3>1. k = 0 \/ k \in 1 .. m
      OBVIOUS
    <3>2. k + 1 \in 1 .. m
      OBVIOUS
    <3>. QED
      BY <3>1, <3>2 DEF InOrder
  <2>. QED
    BY <2>1, FollowsKept
<1>. QED
  BY <1>1, <1>2 DEF InOrder

(* A part of a stream, and a stream with more at its end.                  *)
LEMMA OrderFrom ==
  ASSUME NEW m \in Nat, NEW p, InOrder(m, p), NEW j \in 0 .. m
  PROVE  InOrder(m - j, [k \in 0 .. m - j |-> p[j + k]])
<1>. DEFINE q == [k \in 0 .. m - j |-> p[j + k]]
<1>1. m - j \in Nat /\ \A k \in 0 .. m - j : q[k] = p[j + k]
  OBVIOUS
<1>2. q[0] = Origin \/ IsUnit(q[0])
  <2>1. q[0] = p[j]
    BY <1>1
  <2>2. j = 0 \/ j \in 1 .. m
    OBVIOUS
  <2>. QED
    BY <2>1, <2>2 DEF InOrder
<1>3. ASSUME NEW k \in 1 .. m - j PROVE IsUnit(q[k])
  <2>1. j + k \in 1 .. m /\ q[k] = p[j + k]
    BY <1>1
  <2>. QED
    BY <2>1 DEF InOrder
<1>4. ASSUME NEW k \in 0 .. (m - j) - 1 PROVE Follows(q[k], q[k + 1])
  <2>1. j + k \in 0 .. m - 1 /\ q[k] = p[j + k] /\ q[k + 1] = p[(j + k) + 1]
    BY <1>1
  <2>. QED
    BY <2>1 DEF InOrder
<1>. QED
  <2>. HIDE DEF q
  <2>1. InOrder(m - j, q)
    BY <1>2, <1>3, <1>4 DEF InOrder
  <2>. QED
    BY <2>1 DEF q

LEMMA OrderUpTo ==
  ASSUME NEW m \in Nat, NEW p, InOrder(m, p), NEW j \in 0 .. m
  PROVE  InOrder(j, p)
<1>1. \A k \in 1 .. j : k \in 1 .. m
  OBVIOUS
<1>2. \A k \in 0 .. j - 1 : k \in 0 .. m - 1
  OBVIOUS
<1>. QED
  BY <1>1, <1>2 DEF InOrder

LEMMA OrderAppended ==
  ASSUME NEW m \in Nat, NEW p, InOrder(m, p)', NEW c \in Nat, NEW q, InOrder(c, q)',
         q[0] = p[m], NEW r, r = [k \in 0 .. m + c |-> IF k <= m THEN p[k] ELSE q[k - m]]
  PROVE  InOrder(m + c, r)'
<1>1. \A k \in 0 .. m + c : r[k] = IF k <= m THEN p[k] ELSE q[k - m]
  OBVIOUS
<1>2. (r[0] = Origin \/ IsUnit(r[0]))'
  <2>1. r[0] = p[0]
    BY <1>1
  <2>. QED
    BY <2>1 DEF InOrder
<1>3. ASSUME NEW k \in 1 .. m + c PROVE IsUnit(r[k])'
  <2>1. CASE k <= m
    <3>1. k \in 1 .. m /\ r[k] = p[k]
      BY <1>1, <2>1
    <3>. QED
      BY <3>1 DEF InOrder
  <2>2. CASE ~(k <= m)
    <3>1. k - m \in 1 .. c /\ r[k] = q[k - m]
      BY <1>1, <2>2
    <3>. QED
      BY <3>1 DEF InOrder
  <2>. QED
    BY <2>1, <2>2
<1>4. ASSUME NEW k \in 0 .. (m + c) - 1 PROVE Follows(r[k], r[k + 1])'
  <2>1. CASE k + 1 <= m
    <3>1. k \in 0 .. m - 1 /\ r[k] = p[k] /\ r[k + 1] = p[k + 1]
      BY <1>1, <2>1
    <3>. QED
      BY <3>1 DEF InOrder
  <2>2. CASE ~(k + 1 <= m)
    <3>1. k - m \in 0 .. c - 1 /\ r[k] = q[k - m] /\ r[k + 1] = q[(k - m) + 1]
      <4>1. k - m \in 0 .. c - 1 /\ (k + 1) - m = (k - m) + 1
        BY <2>2
      <4>2. r[k + 1] = q[(k + 1) - m]
        BY <1>1, <2>2
      <4>3. r[k] = q[k - m]
        <5>1. CASE k = m
          BY <1>1, <5>1
        <5>2. CASE k # m
          BY <1>1, <2>2, <5>2
        <5>. QED
          BY <5>1, <5>2
      <4>. QED
        BY <4>1, <4>2, <4>3
    <3>. QED
      BY <3>1 DEF InOrder
  <2>. QED
    BY <2>1, <2>2
<1>. QED
  BY <1>2, <1>3, <1>4 DEF InOrder

(* The sender goes on from file to file, and looks at each once.           *)
LEMMA GoesOn ==
  ASSUME Shapes, \A n \in Names : Sent(n) => stat'[n] = stat[n],
         \/ snd'.i = snd.i /\ (snd.pc # "idle" => snd'.pc # "idle")
         \/ snd'.i = snd.i + 1
  PROVE  Stable
<1>. SUFFICES ASSUME NEW n \in Names, Sent(n) PROVE Sent(n)'
  BY DEF Stable
<1>1. PICK j \in 1 .. Len(Queue) :
        Queue[j] = n /\ (j < snd.i \/ (j = snd.i /\ snd.pc # "idle"))
  BY DEF Sent, Begun
<1>2. j < snd'.i \/ (j = snd'.i /\ snd'.pc # "idle")
  <2>1. j \in Int /\ snd.i \in Int
    BY QueueFacts DEF Shapes
  <2>. QED
    BY <1>1, <2>1
<1>3. Begun(n)'
  BY <1>1, <1>2 DEF Begun
<1>. QED
  BY <1>3 DEF Sent

LEMMA HadKept ==
  ASSUME Shapes, Stable, NEW u, u = Origin \/ IsUnit(u), Had(u), dst' = dst,
         rcv'.pc = rcv.pc,
         rcv.pc = "data" => rcv'.len = rcv.len /\ rcv'.pk = rcv.pk /\ rcv'.name = rcv.name
  PROVE  Had(u)'
<1>1. rcv.pc = "header" => Ends(u)'
  BY EndsKept DEF Had
<1>2. ASSUME rcv.pc = "data"
      PROVE  (\E n \in Names, l \in Nat :
                /\ Sent(n) /\ rcv.len = stat[n] /\ rcv.pk \in PkSizes /\ l <= stat[n]
                /\ dst[rcv.name] = Bytes(n, 0, l)
                /\ ByName => rcv.name = n
                /\ u = IF l = 0 THEN HdUnit(n, HdLen, rcv.pk) ELSE ByteUnit(n, l))'
  <2>1. PICK n \in Names, l \in Nat :
         /\ Sent(n) /\ rcv.len = stat[n] /\ rcv.pk \in PkSizes /\ l <= stat[n]
         /\ dst[rcv.name] = Bytes(n, 0, l)
         /\ ByName => rcv.name = n
         /\ u = IF l = 0 THEN HdUnit(n, HdLen, rcv.pk) ELSE ByteUnit(n, l)
    BY <1>2 DEF Had
  <2>2. Sent(n)' /\ stat'[n] = stat[n]
    BY <2>1 DEF Stable
  <2>3. rcv'.len = rcv.len /\ rcv'.pk = rcv.pk /\ rcv'.name = rcv.name
    BY <1>2
  <2>4. dst'[rcv'.name] = Bytes(n, 0, l)
    BY <2>1, <2>3
  <2>5. u = IF l = 0 THEN HdUnit(n, HdLen, rcv.pk)' ELSE ByteUnit(n, l)
    BY <2>1, <2>2, <2>3 DEF HdUnit
  <2>. QED
    BY <2>1, <2>2, <2>3, <2>4, <2>5 DEF ByteUnit, Bytes
<1>. QED
  BY <1>1, <1>2 DEF Had

LEMMA FilesKept ==
  ASSUME Stable, FilesOK, dst' = dst, \A n : Receiving(n) => Receiving(n)'
  PROVE  FilesOK'
<1>. SUFFICES ASSUME NEW n \in DOMAIN dst \ Old
              PROVE  (\E f \in Names :
                        /\ Sent(f) /\ (ByName => f = n)
                        /\ \E l \in 0 .. stat[f] :
                             dst[n] = Bytes(f, 0, l) /\ (l = stat[f] \/ Receiving(n)))'
  BY DEF FilesOK
<1>1. PICK f \in Names :
        /\ Sent(f) /\ (ByName => f = n)
        /\ \E l \in 0 .. stat[f] :
             dst[n] = Bytes(f, 0, l) /\ (l = stat[f] \/ Receiving(n))
  BY DEF FilesOK
<1>2. Sent(f)' /\ stat'[f] = stat[f]
  BY <1>1 DEF Stable
<1>. QED
  BY <1>1, <1>2 DEF Bytes

----------------------------------------------------------------------------
(* What each action does to them.                                          *)

LEMMA InitAgreed == Init => Agreed
<1>. SUFFICES ASSUME Init PROVE Agreed
  OBVIOUS
<1>1. SenderOK /\ FilesOK
  BY DEF Init, SenderOK, FilesOK
<1>2. StreamOK
  <2>1. up.rcv /\ rcv.buf = <<>> /\ wire = <<>> /\ Out = <<>> /\ rcv.pc = "header"
        /\ snd.pc = "idle"
    BY DEF Init, Out
  <2>2. <<>> \in Seq(Units) /\ Len(<<>>) = 0
    OBVIOUS
  <2>3. Want \in Nat
    BY <2>1, QueueFacts DEF Want
  <2>. DEFINE p == [k \in 0 .. 0 |-> Origin]
  <2>4. p[0] = Origin
    OBVIOUS
  <2>5. Stream(0, p)
    <3>. HIDE DEF p
    <3>1. InOrder(0, p)
      BY <2>4 DEF InOrder
    <3>2. Carries(0, p)
      BY <2>1, <2>2 DEF Carries
    <3>3. Had(p[0]) /\ Given(p[0])
      BY <2>1, <2>4 DEF Had, Given, Ends
    <3>. QED
      BY <3>1, <3>2, <3>3 DEF Stream
  <2>. QED
    BY <2>1, <2>2, <2>3, <2>5 DEF StreamOK
<1>. QED
  BY <1>1, <1>2 DEF Agreed

LEMMA TableIsSeq ==
  ASSUME NEW S, NEW c \in Nat, NEW q \in [1 .. c -> S]
  PROVE  q \in Seq(S) /\ Len(q) = c
OBVIOUS

LEMMA PrefixOf ==
  ASSUME NEW S, NEW q \in Seq(S), NEW c \in 0 .. Len(q)
  PROVE  /\ SubSeq(q, 1, c) \in Seq(S) /\ Len(SubSeq(q, 1, c)) = c
         /\ \A k \in 1 .. c : SubSeq(q, 1, c)[k] = q[k]
OBVIOUS

LEMMA RestOf ==
  ASSUME NEW S, NEW q \in Seq(S), NEW c \in 0 .. Len(q)
  PROVE  /\ SubSeq(q, c + 1, Len(q)) \in Seq(S) /\ Len(SubSeq(q, c + 1, Len(q))) = Len(q) - c
         /\ \A k \in 1 .. Len(q) - c : SubSeq(q, c + 1, Len(q))[k] = q[c + k]
<1>1. Len(q) \in Nat
  OBVIOUS
<1>2. Len(SubSeq(q, c + 1, Len(q))) = Len(q) - c
  BY <1>1
<1>3. SubSeq(q, c + 1, Len(q)) \in Seq(S)
  BY <1>1
<1>4. ASSUME NEW k \in 1 .. Len(q) - c PROVE SubSeq(q, c + 1, Len(q))[k] = q[c + k]
  <2>1. k \in 1 .. (Len(q) - (c + 1)) + 1 /\ ((c + 1) + k) - 1 = c + k
    BY <1>1
  <2>. QED
    BY <1>1, <2>1
<1>. QED
  BY <1>2, <1>3, <1>4

LEMMA Joined ==
  ASSUME NEW S, NEW q \in Seq(S), NEW r \in Seq(S)
  PROVE  /\ q \o r \in Seq(S) /\ Len(q \o r) = Len(q) + Len(r)
         /\ \A k \in 1 .. Len(q) : (q \o r)[k] = q[k]
         /\ \A k \in 1 .. Len(r) : (q \o r)[Len(q) + k] = r[k]
OBVIOUS

(* A step of the receiver leaves what is true of the sender.               *)
LEMMA SenderKept ==
  ASSUME Shapes, SenderOK, snd' = snd, stat' = stat
  PROVE  Stable /\ SenderOK' /\ \A u : Given(u) => Given(u)'
<1>1. Stable
  BY GoesOn
<1>2. Sending' = Sending
  BY DEF Sending
<1>3. SenderOK'
  <2>1. ASSUME snd.pc \in {"sendn", "read"} PROVE Sent(Sending)'
    <3>1. Sent(Sending) /\ Sending \in Names
      BY <2>1 DEF SenderOK, Sent
    <3>2. PICK n \in Names : n = Sending
      BY <3>1
    <3>3. Sent(n)'
      BY <1>1, <3>1, <3>2 DEF Stable
    <3>4. n = Sending'
      BY <1>2, <3>2
    <3>. QED
      BY <3>3, <3>4
  <2>. QED
    BY <1>2, <2>1 DEF SenderOK
<1>4. ASSUME NEW u, Given(u) PROVE Given(u)'
  <2>1. snd.pc \in {"sendn", "read"} =>
          HdUnit(Sending, HdLen, snd.pk)' = HdUnit(Sending, HdLen, snd.pk)
    BY <1>2 DEF HdUnit
  <2>2. Ends(u)' = Ends(u)
    BY DEF Ends
  <2>. QED
    BY <1>2, <1>4, <2>1, <2>2 DEF Given, ByteUnit
<1>. QED
  BY <1>1, <1>3, <1>4

(* Nothing that matters to the stream happens.                             *)
LEMMA NothingAgrees ==
  Shapes /\ Agreed /\ UNCHANGED <<snd, wire, up, rcv, dst, stat>> => Agreed'
<1>. SUFFICES ASSUME Shapes, Agreed, UNCHANGED <<snd, wire, up, rcv, dst, stat>>
              PROVE  Agreed'
  OBVIOUS
<1>1. Stable /\ SenderOK' /\ \A u : Given(u) => Given(u)'
  BY SenderKept DEF Agreed
<1>2. FilesOK'
  BY <1>1, FilesKept DEF Agreed, Receiving
<1>3. StreamOK'
  <2>. SUFFICES ASSUME rcv.pc \in {"header", "data"}
                PROVE  StreamOK'
    BY DEF StreamOK, Agreed
  <2>1. PICK m \in Nat : \E p : Stream(m, p)
    BY DEF Agreed, StreamOK
  <2>2. PICK p : Stream(m, p)
    BY <2>1
  <2>3. (p[0] = Origin \/ IsUnit(p[0])) /\ Had(p[0]) /\ Given(p[m]) /\ InOrder(m, p)
        /\ Carries(m, p)
    BY <2>2 DEF Stream, InOrder
  <2>4. InOrder(m, p)' /\ Had(p[0])'
    BY <1>1, <2>3, OrderKept, HadKept
  <2>5. Given(p[m])'
    BY <1>1, <2>3
  <2>6. Carries(m, p)'
    BY <2>3 DEF Carries, Out
  <2>7. Stream(m, p)'
    BY <2>4, <2>5, <2>6 DEF Stream
  <2>8. Want' = Want
    BY DEF Want, Remaining
  <2>. QED
    BY <2>7, <2>8 DEF StreamOK, Agreed
<1>. QED
  BY <1>1, <1>2, <1>3 DEF Agreed

(* The sender is gone, and some of what is under way may be lost.          *)
LEMMA ClosingAgrees ==
  ASSUME Shapes, Agreed, snd' = [pc |-> "closed", i |-> snd.i],
         up'.rcv = up.rcv, UNCHANGED <<rcv, dst, stat>>,
         NEW c \in 0 .. Len(wire), wire' = SubSeq(wire, 1, c) \/ (c = Len(wire) /\ wire' = wire)
  PROVE  Agreed'
<1>1. Stable
  <2>1. snd'.i = snd.i /\ snd'.pc # "idle"
    OBVIOUS
  <2>. QED
    BY <2>1, GoesOn
<1>2. SenderOK'
  BY DEF SenderOK, Agreed
<1>3. FilesOK'
  BY <1>1, FilesKept DEF Agreed, Receiving
<1>4. StreamOK'
  <2>a. wire' \in Seq(Units)
    BY PrefixOf DEF StreamOK, Agreed
  <2>. SUFFICES ASSUME rcv.pc \in {"header", "data"}
                PROVE  StreamOK'
    BY <2>a DEF StreamOK
  <2>0. wire \in Seq(Units) /\ rcv.buf \in Seq(Units) /\ Out \in Seq(Units)
    BY DEF Agreed, StreamOK, SenderOK, Out
  <2>1. PICK m \in Nat : \E p : Stream(m, p)
    BY DEF Agreed, StreamOK
  <2>2. PICK p : Stream(m, p)
    BY <2>1
  <2>3. (p[0] = Origin \/ IsUnit(p[0])) /\ Had(p[0]) /\ Given(p[m]) /\ InOrder(m, p)
        /\ Carries(m, p)
    BY <2>2 DEF Stream, InOrder
  <2>4. wire' \in Seq(Units) /\ Len(wire') = c /\ \A k \in 1 .. c : wire'[k] = wire[k]
    BY ONLY <2>0, PrefixOf, c \in 0 .. Len(wire),
            wire' = SubSeq(wire, 1, c) \/ (c = Len(wire) /\ wire' = wire)
  <2>5. Len(rcv.buf) \in Nat /\ Len(wire) \in Nat /\ Len(Out) \in Nat
    BY <2>0
  <2>6. PICK j \in 0 .. m : j = Len(rcv.buf) + c
    BY <2>3, <2>5 DEF Carries
  <2>7. InOrder(j, p)
    BY <2>3, OrderUpTo
  <2>8. InOrder(j, p)' /\ Had(p[0])'
    BY <1>1, <2>3, <2>7, OrderKept, HadKept
  <2>9. Given(p[j])'
    BY DEF Given
  <2>10. Carries(j, p)'
    <3>1. Out' = <<>> /\ Len(Out') = 0
      BY DEF Out
    <3>2. ASSUME NEW k \in 1 .. c PROVE p[Len(rcv.buf) + k] = wire'[k]
      <4>1. k \in 1 .. Len(wire)
        BY <2>5
      <4>. QED
        BY <2>3, <2>4, <4>1 DEF Carries
    <3>. QED
      BY <2>3, <2>4, <2>5, <2>6, <3>1, <3>2 DEF Carries
  <2>11. Stream(j, p)'
    BY <2>8, <2>9, <2>10 DEF Stream
  <2>12. Want' = Want
    BY DEF Want, Remaining
  <2>. QED
    BY <2>4, <2>11, <2>12 DEF StreamOK, Agreed
<1>. QED
  BY <1>1, <1>2, <1>3, <1>4 DEF Agreed

(* The receiver takes no more from the stream.                             *)
LEMMA LeavingAgrees ==
  ASSUME Shapes, Agreed, UNCHANGED <<snd, wire, stat>>, rcv'.pc \notin {"header", "data"},
         \A n \in DOMAIN dst' : n \in DOMAIN dst /\ dst'[n] = dst[n],
         \A n \in DOMAIN dst' : Receiving(n) => Receiving(n)'
  PROVE  Agreed'
<1>1. Stable /\ SenderOK'
  BY SenderKept DEF Agreed
<1>2. StreamOK'
  BY DEF StreamOK, Agreed
<1>3. FilesOK'
  <2>. SUFFICES ASSUME NEW n \in DOMAIN dst' \ Old
                PROVE  (\E f \in Names :
                          /\ Sent(f) /\ (ByName => f = n)
                          /\ \E l \in 0 .. stat[f] :
                               dst[n] = Bytes(f, 0, l) /\ (l = stat[f] \/ Receiving(n)))'
    BY DEF FilesOK
  <2>1. PICK f \in Names :
          /\ Sent(f) /\ (ByName => f = n)
          /\ \E l \in 0 .. stat[f] :
               dst[n] = Bytes(f, 0, l) /\ (l = stat[f] \/ Receiving(n))
    BY DEF FilesOK, Agreed
  <2>2. Sent(f)' /\ stat'[f] = stat[f]
    BY <1>1, <2>1 DEF Stable
  <2>. QED
    BY <2>1, <2>2 DEF Bytes
<1>. QED
  BY <1>1, <1>2, <1>3 DEF Agreed

(* Min, of two.                                                            *)
LEMMA MinOfTwo ==
  ASSUME NEW x \in Int, NEW y \in Int
  PROVE  Min({x, y}) = IF x <= y THEN x ELSE y
BY DEF Min

(* Sendn: from what it still has to what is under way.                     *)
LEMMA SendnAgrees == Shapes /\ Agreed /\ Sendn => Agreed'
<1>. SUFFICES ASSUME Shapes, Agreed, Sendn PROVE Agreed'
  OBVIOUS
<1>1. /\ snd.pc = "sendn" /\ snd.out \in Seq(Units) /\ Out = snd.out
      /\ UNCHANGED <<up, rcv, dst, stat>> /\ SenderOK /\ snd.i \in Nat
  BY DEF Sendn, Agreed, SenderOK, Out
<1>2. PICK c : c = IF up.rcv THEN Min({Len(snd.out), Room - Len(wire)}) ELSE Len(snd.out)
  OBVIOUS
<1>3. /\ wire' = IF up.rcv THEN wire \o SubSeq(snd.out, 1, c) ELSE wire
      /\ snd' = IF c = Len(snd.out) THEN [snd EXCEPT !.pc = "read", !.out = <<>>]
                ELSE [snd EXCEPT !.out = SubSeq(@, c + 1, Len(@))]
      /\ up.rcv => Len(wire) < Room
  BY <1>2 DEF Sendn
<1>4. snd = [pc |-> snd.pc, i |-> snd.i, len |-> snd.len, pk |-> snd.pk,
             nsend |-> snd.nsend, out |-> snd.out]
  BY <1>1 DEF Shapes
<1>5. /\ snd'.i = snd.i /\ snd'.len = snd.len /\ snd'.pk = snd.pk /\ snd'.nsend = snd.nsend
      /\ IF c = Len(snd.out) THEN snd'.pc = "read"
         ELSE snd'.pc = "sendn" /\ snd'.out = SubSeq(snd.out, c + 1, Len(snd.out))
  BY <1>1, <1>3, <1>4
<1>6. Stable
  BY <1>1, <1>5, GoesOn
<1>7. Sending' = Sending /\ Sent(Sending) /\ Sent(Sending)' /\ stat'[Sending] = stat[Sending]
  <2>1. Sending' = Sending /\ Sent(Sending)
    BY <1>1, <1>5 DEF Sending, SenderOK
  <2>2. PICK n \in Names : n = Sending
    BY <2>1 DEF Sent
  <2>3. Sent(n)' /\ n = Sending'
    BY <1>6, <2>1, <2>2 DEF Stable
  <2>. QED
    BY <1>1, <2>1, <2>3
<1>8. /\ wire \in Seq(Units) /\ Len(wire) \in Nat /\ Len(snd.out) \in Nat
      /\ c \in 0 .. Len(snd.out)
  <2>1. wire \in Seq(Units) /\ Len(wire) \in Nat /\ Len(snd.out) \in Nat
    BY <1>1 DEF StreamOK, Agreed
  <2>2. CASE up.rcv
    <3>1. PICK rest \in Nat : rest = Room - Len(wire)
      BY <1>3, <2>1, <2>2, TransferAssumption
    <3>2. c = Min({Len(snd.out), rest})
      BY <1>2, <2>2, <3>1
    <3>3. c = IF Len(snd.out) <= rest THEN Len(snd.out) ELSE rest
      BY <2>1, <3>1, <3>2, MinOfTwo
    <3>. QED
      BY <2>1, <3>3
  <2>3. CASE ~up.rcv
    BY <1>2, <2>1, <2>3
  <2>. QED
    BY <2>1, <2>2, <2>3
<1>9. /\ SubSeq(snd.out, 1, c) \in Seq(Units) /\ Len(SubSeq(snd.out, 1, c)) = c
      /\ \A k \in 1 .. c : SubSeq(snd.out, 1, c)[k] = snd.out[k]
  BY ONLY <1>1, <1>8, PrefixOf
<1>10. /\ Out' \in Seq(Units) /\ Len(Out') = Len(snd.out) - c
       /\ \A k \in 1 .. Len(snd.out) - c : Out'[k] = snd.out[c + k]
  <2>1. CASE c = Len(snd.out)
    <3>1. Out' = <<>>
      BY <1>5, <2>1 DEF Out
    <3>. QED
      BY <1>8, <2>1, <3>1
  <2>2. CASE c # Len(snd.out)
    <3>1. Out' = SubSeq(snd.out, c + 1, Len(snd.out))
      BY <1>5, <2>2 DEF Out
    <3>. QED
      BY ONLY <1>1, <1>8, <3>1, RestOf
  <2>. QED
    BY <2>1, <2>2
<1>11. SenderOK'
  BY <1>1, <1>5, <1>7, <1>10 DEF SenderOK, Out
<1>12. wire' \in Seq(Units)
  BY <1>3, <1>8, <1>9
<1>13. FilesOK'
  BY <1>1, <1>6, FilesKept DEF Agreed, Receiving
<1>14. ASSUME rcv.pc \in {"header", "data"} PROVE StreamOK'
  <2>1. up.rcv /\ rcv.buf \in Seq(Units) /\ Len(rcv.buf) \in Nat
    BY <1>14 DEF StreamOK, Agreed
  <2>2. PICK m \in Nat : \E p : Stream(m, p)
    BY <1>14 DEF Agreed, StreamOK
  <2>3. PICK p : Stream(m, p)
    BY <2>2
  <2>4. (p[0] = Origin \/ IsUnit(p[0])) /\ Had(p[0]) /\ Given(p[m]) /\ InOrder(m, p)
        /\ Carries(m, p)
    BY <2>3 DEF Stream, InOrder
  <2>5. InOrder(m, p)' /\ Had(p[0])'
    BY <1>1, <1>6, <2>4, OrderKept, HadKept
  <2>6. Given(p[m])'
    <3>1. p[m] = IF snd.nsend = 0 THEN HdUnit(Sending, HdLen, snd.pk)
                 ELSE ByteUnit(Sending, snd.nsend)
      BY <1>1, <2>4 DEF Given
    <3>2. HdUnit(Sending, HdLen, snd.pk)' = HdUnit(Sending, HdLen, snd.pk)
      BY <1>5, <1>7 DEF HdUnit
    <3>. QED
      BY <1>5, <1>7, <3>1, <3>2 DEF Given, ByteUnit
  <2>7. Carries(m, p)'
    <3>1. /\ wire' = wire \o SubSeq(snd.out, 1, c) /\ Len(wire') = Len(wire) + c
          /\ \A k \in 1 .. Len(wire) : wire'[k] = wire[k]
          /\ \A k \in 1 .. c : wire'[Len(wire) + k] = snd.out[k]
      <4>1. wire' = wire \o SubSeq(snd.out, 1, c)
        BY <1>3, <2>1
      <4>. QED
        BY ONLY <1>8, <1>9, <4>1, Joined
    <3>a. PICK b \in Nat, w \in Nat, o \in Nat :
            b = Len(rcv.buf) /\ w = Len(wire) /\ o = Len(snd.out)
      BY <1>8, <2>1
    <3>b. c \in 0 .. o
      BY <1>8, <3>a
    <3>2. m = Len(rcv.buf') + Len(wire') + Len(Out')
      <4>1. m = b + w + o
        BY <1>1, <2>4, <3>a DEF Carries
      <4>2. Len(rcv.buf') = b /\ Len(wire') = w + c /\ Len(Out') = o - c
        BY <1>1, <1>10, <3>1, <3>a
      <4>3. b + w + o = b + (w + c) + (o - c)
        BY <3>b
      <4>. QED
        BY <4>1, <4>2, <4>3
    <3>3. ASSUME NEW k \in 1 .. Len(wire') PROVE p[Len(rcv.buf) + k] = wire'[k]
      <4>1. CASE k <= Len(wire)
        BY <1>8, <2>4, <3>1, <4>1 DEF Carries
      <4>2. CASE ~(k <= Len(wire))
        <5>1. PICK j \in 1 .. c : k = Len(wire) + j
          <6>1. k - Len(wire) \in 1 .. c /\ k = Len(wire) + (k - Len(wire))
            BY <1>8, <3>1, <4>2
          <6>. QED
            BY <6>1
        <5>2. j \in 1 .. Len(snd.out)
          BY <1>8
        <5>3. p[(Len(rcv.buf) + Len(wire)) + j] = snd.out[j]
          BY <1>1, <2>4, <5>2 DEF Carries
        <5>4. b + k = (b + w) + j
          <6>1. k = w + j /\ j \in Nat
            BY <3>a, <3>b, <5>1
          <6>. QED
            BY <6>1
        <5>. QED
          BY <3>1, <3>a, <5>1, <5>3, <5>4
      <4>. QED
        BY <4>1, <4>2
    <3>4. ASSUME NEW k \in 1 .. Len(Out') PROVE p[Len(rcv.buf) + Len(wire') + k] = Out'[k]
      <4>1. k \in 1 .. Len(snd.out) - c /\ c + k \in 1 .. Len(snd.out)
        BY <1>8, <1>10
      <4>2. p[(Len(rcv.buf) + Len(wire)) + (c + k)] = snd.out[c + k]
        BY <1>1, <2>4, <4>1 DEF Carries
      <4>3. b + (w + c) + k = (b + w) + (c + k)
        BY <3>b, <4>1
      <4>. QED
        BY <1>10, <3>1, <3>a, <4>1, <4>2, <4>3
    <3>5. \A k \in 1 .. Len(rcv.buf) : p[k] = rcv.buf[k]
      BY <2>4 DEF Carries
    <3>. QED
      BY <1>1, <3>2, <3>3, <3>4, <3>5 DEF Carries
  <2>8. Stream(m, p)'
    BY <2>5, <2>6, <2>7 DEF Stream
  <2>9. Want' = Want
    BY <1>1 DEF Want, Remaining
  <2>. QED
    BY <1>1, <1>12, <2>8, <2>9 DEF StreamOK, Agreed
<1>. QED
  BY <1>1, <1>11, <1>12, <1>13, <1>14 DEF StreamOK, Agreed

(* What the sender gives to Sendn next comes behind what it has given.     *)
Continues(u) ==
  \E c \in Nat : \E q :
    /\ q[0] = u /\ InOrder(c, q)' /\ Given(q[c])'
    /\ c = Len(Out') /\ \A k \in 1 .. c : q[k] = Out'[k]

LEMMA GivingAgrees ==
  ASSUME Shapes, Agreed, Stable, SenderOK', Out = <<>>, Out' \in Seq(Units),
         UNCHANGED <<wire, up, rcv, dst>>,
         \A u : (u = Origin \/ IsUnit(u)) /\ Given(u) => Continues(u)
  PROVE  Agreed'
<1>1. FilesOK'
  BY FilesKept DEF Agreed, Receiving
<1>2. wire' \in Seq(Units)
  BY DEF Agreed, StreamOK
<1>3. ASSUME rcv.pc \in {"header", "data"} PROVE StreamOK'
  <2>1. PICK m \in Nat : \E p : Stream(m, p)
    BY <1>3 DEF Agreed, StreamOK
  <2>2. PICK p : Stream(m, p)
    BY <2>1
  <2>3. (p[0] = Origin \/ IsUnit(p[0])) /\ Had(p[0]) /\ Given(p[m]) /\ InOrder(m, p)
        /\ Carries(m, p)
    BY <2>2 DEF Stream, InOrder
  <2>4. InOrder(m, p)' /\ Had(p[0])'
    BY <2>3, OrderKept, HadKept
  <2>5. p[m] = Origin \/ IsUnit(p[m])
    <3>1. m = 0 \/ m \in 1 .. m
      OBVIOUS
    <3>. QED
      BY <2>3, <3>1 DEF InOrder
  <2>6. PICK c \in Nat : \E q :
          /\ q[0] = p[m] /\ InOrder(c, q)' /\ Given(q[c])'
          /\ c = Len(Out') /\ \A k \in 1 .. c : q[k] = Out'[k]
    BY <2>3, <2>5 DEF Continues
  <2>7. PICK q :
          /\ q[0] = p[m] /\ InOrder(c, q)' /\ Given(q[c])'
          /\ c = Len(Out') /\ \A k \in 1 .. c : q[k] = Out'[k]
    BY <2>6
  <2>8. PICK r : r = [k \in 0 .. m + c |-> IF k <= m THEN p[k] ELSE q[k - m]]
    OBVIOUS
  <2>9. /\ \A k \in 0 .. m : r[k] = p[k]
        /\ \A k \in 1 .. c : r[m + k] = q[k]
        /\ r[m + c] = q[c]
    <3>1. \A k \in 0 .. m + c : r[k] = IF k <= m THEN p[k] ELSE q[k - m]
      BY <2>8
    <3>2. ASSUME NEW k \in 0 .. m PROVE r[k] = p[k]
      BY <3>1
    <3>3. ASSUME NEW k \in 1 .. c PROVE r[m + k] = q[k]
      <4>1. m + k \in 0 .. m + c /\ ~(m + k <= m) /\ (m + k) - m = k
        OBVIOUS
      <4>. QED
        BY <3>1, <4>1
    <3>4. CASE c = 0
      BY <2>7, <3>2, <3>3, <3>4
    <3>5. CASE c # 0
      BY <3>2, <3>3, <3>5
    <3>. QED
      BY <3>2, <3>3, <3>4, <3>5
  <2>10. InOrder(m + c, r)'
    BY <2>4, <2>7, <2>8, OrderAppended
  <2>11. Had(r[0])' /\ Given(r[m + c])'
    BY <2>4, <2>7, <2>9
  <2>12. Carries(m + c, r)'
    <3>0. rcv.buf \in Seq(Units) /\ wire \in Seq(Units)
      BY <1>3 DEF Agreed, StreamOK
    <3>1. PICK b \in Nat, w \in Nat : b = Len(rcv.buf) /\ w = Len(wire)
      BY <3>0
    <3>2. m = b + w
      BY <2>3, <3>1 DEF Carries
    <3>3. m + c = Len(rcv.buf') + Len(wire') + Len(Out')
      BY <2>7, <3>1, <3>2
    <3>4. ASSUME NEW k \in 1 .. b PROVE r[k] = rcv.buf[k]
      <4>1. k \in 0 .. m
        BY <3>2
      <4>. QED
        BY <2>3, <2>9, <3>1, <4>1 DEF Carries
    <3>5. ASSUME NEW k \in 1 .. w PROVE r[b + k] = wire[k]
      <4>1. b + k \in 0 .. m
        BY <3>2
      <4>. QED
        BY <2>3, <2>9, <3>1, <4>1 DEF Carries
    <3>6. ASSUME NEW k \in 1 .. c PROVE r[b + w + k] = Out'[k]
      BY <2>7, <2>9, <3>2
    <3>. QED
      BY <2>7, <3>1, <3>3, <3>4, <3>5, <3>6 DEF Carries
  <2>13. (\E j \in Nat : \E z : Stream(j, z))'
    <3>1. Stream(m + c, r)'
      BY <2>10, <2>11, <2>12 DEF Stream
    <3>. QED
      BY <3>1
  <2>14. Len(rcv.buf) <= Want'
    <3>1. Want' = Want
      BY DEF Want, Remaining
    <3>. QED
      BY <1>3, <3>1 DEF Agreed, StreamOK
  <2>. QED
    BY <1>2, <1>3, <2>13, <2>14 DEF StreamOK, Agreed
<1>. QED
  BY <1>1, <1>2, <1>3 DEF StreamOK, Agreed

(* A header comes behind the end of a file, the first part of it first.    *)
LEMMA StartAgrees == Shapes /\ Agreed /\ ~skew /\ Start /\ ~skew' => Agreed'
<1>. SUFFICES ASSUME Shapes, Agreed, ~skew, Start, ~skew' PROVE Agreed'
  OBVIOUS
<1>1. PICK n \in Names : n = Sending /\ src[n] \in Nat
  <2>1. snd.i \in 1 .. Len(Queue)
    BY QueueFacts DEF Start, Shapes
  <2>. QED
    BY <2>1, QueueFacts DEF Sending, Shapes
<1>2. PICK len \in Nat : len = src[n] /\ len < LenRange
  <2>1. ~(src[Sending] >= LenRange)
    BY Zenon DEF Start
  <2>. QED
    BY <1>1, <2>1, QueueFacts
<1>3. PICK pk \in PkSizes :
        snd' = IF len = 0 THEN Returned
               ELSE [pc |-> "sendn", i |-> snd.i, len |-> len, pk |-> pk, nsend |-> 0,
                     out |-> Hd(n, len, pk)]
  <2>1. len % LenRange = len
    BY <1>2, QueueFacts, Z3
  <2>2. PICK pk \in PkSizes :
          snd' = IF src[Sending] = 0 THEN Returned
                 ELSE [pc |-> "sendn", i |-> snd.i, len |-> src[Sending], pk |-> pk, nsend |-> 0,
                       out |-> Hd(Sending, src[Sending] % LenRange, pk)]
    BY DEF Start
  <2>. QED
    BY <1>1, <1>2, <2>1, <2>2
<1>4. /\ stat' = [stat EXCEPT ![n] = len] /\ stat'[n] = len
      /\ UNCHANGED <<wire, up, rcv, dst>> /\ snd.pc = "idle" /\ Out = <<>>
      /\ snd.i \in Nat \ {0} /\ snd.i <= Len(Queue) /\ Queue[snd.i] = n
  <2>1. stat' = [stat EXCEPT ![n] = len] /\ stat \in [Names -> Nat]
    BY <1>1, <1>2 DEF Start, Shapes
  <2>. QED
    BY <1>1, <2>1 DEF Start, Shapes, Out, Sending
<1>5. ~Begun(n)
  <2>. SUFFICES ASSUME NEW j \in 1 .. Len(Queue), Queue[j] = n, j < snd.i PROVE FALSE
    BY <1>4 DEF Begun
  <2>1. snd.i \in 1 .. Len(Queue)
    BY <1>4, QueueFacts
  <2>2. j = snd.i
    BY <1>4, <2>1, QueueFacts
  <2>. QED
    BY <1>4, <2>2
<1>6. Stable
  <2>1. \A o \in Names : Sent(o) => stat'[o] = stat[o]
    BY <1>4, <1>5 DEF Sent, Shapes
  <2>2. snd'.i = snd.i \/ snd'.i = snd.i + 1
    BY <1>3 DEF Returned
  <2>. QED
    BY <1>4, <2>1, <2>2, GoesOn
<1>7. CASE len = 0
  <2>1. snd'.pc = "idle" /\ snd'.i = snd.i + 1 /\ Out' = <<>>
    BY <1>3, <1>7 DEF Returned, Out
  <2>2. SenderOK'
    BY <1>4, <2>1 DEF SenderOK
  <2>3. ASSUME NEW u, u = Origin \/ IsUnit(u), Given(u) PROVE Continues(u)
    <3>1. Ends(u)' /\ (u = Origin \/ IsUnit(u))'
      BY <1>4, <1>6, <2>3, EndsKept, UnitKept DEF Given, Origin
    <3>2. PICK q : q = [k \in 0 .. 0 |-> u]
      OBVIOUS
    <3>3. q[0] = u
      BY <3>2
    <3>4. InOrder(0, q)'
      BY <3>1, <3>3 DEF InOrder
    <3>5. Given(q[0])'
      BY <2>1, <3>1, <3>3 DEF Given
    <3>6. 0 \in Nat /\ Len(Out') = 0
      BY <2>1
    <3>. QED
      BY <3>3, <3>4, <3>5, <3>6 DEF Continues
  <2>4. Out' \in Seq(Units)
    BY <2>1
  <2>. QED
    BY <1>4, <1>6, <2>2, <2>3, <2>4, GivingAgrees
<1>8. CASE len # 0
  <2>1. /\ snd'.pc = "sendn" /\ snd'.i = snd.i /\ snd'.len = len /\ snd'.pk = pk
        /\ snd'.nsend = 0 /\ snd'.out = Hd(n, len, pk) /\ Out' = snd'.out
    BY <1>3, <1>8 DEF Out
  <2>2. Sending' = n
    BY <1>4, <2>1 DEF Sending
  <2>3. Sent(n)'
    <3>1. Begun(n)'
      BY <1>4, <2>1, QueueFacts DEF Begun
    <3>. QED
      BY <1>2, <1>4, <1>8, <3>1 DEF Sent
  <2>4. Out' \in Seq(Units) /\ Len(Out') = HdLen
        /\ \A k \in 1 .. HdLen : Out'[k] = HdUnit(n, k, pk)'
    <3>1. Out' = [k \in 1 .. HdLen |->
                    [n |-> n, at |-> 0, part |-> k, len |-> len, pk |-> pk]]
      BY <2>1 DEF Hd
    <3>2. ASSUME NEW k \in 1 .. HdLen
          PROVE  [n |-> n, at |-> 0, part |-> k, len |-> len, pk |-> pk] \in Units
      BY DEF Units
    <3>3. HdLen \in Nat
      BY QueueFacts
    <3>4. Out' \in Seq(Units) /\ Len(Out') = HdLen
      BY <3>1, <3>2, <3>3
    <3>5. ASSUME NEW k \in 1 .. HdLen PROVE Out'[k] = HdUnit(n, k, pk)'
      BY <1>4, <3>1 DEF HdUnit
    <3>. QED
      BY <3>4, <3>5
  <2>5. SenderOK'
    <3>1. stat'[n] = len /\ 0 \in 0 .. len
      BY <1>4
    <3>2. snd'.out \in Seq(Units)
      BY <2>1, <2>4
    <3>. QED
      BY <1>4, <2>1, <2>2, <2>3, <3>1, <3>2 DEF SenderOK
  <2>6. ASSUME NEW u, u = Origin \/ IsUnit(u), Given(u) PROVE Continues(u)
    <3>0. HdLen \in Nat \ {0}
      BY QueueFacts
    <3>1. Ends(u)' /\ (u = Origin \/ IsUnit(u))'
      BY <1>4, <1>6, <2>6, EndsKept, UnitKept DEF Given, Origin
    <3>2. PICK q : q = [k \in 0 .. HdLen |-> IF k = 0 THEN u ELSE Out'[k]]
      OBVIOUS
    <3>3. q[0] = u /\ \A k \in 1 .. HdLen : q[k] = Out'[k] /\ q[k] = HdUnit(n, k, pk)'
      BY <2>4, <3>0, <3>2
    <3>4. InOrder(HdLen, q)'
      <4>1. ASSUME NEW k \in 1 .. HdLen PROVE IsUnit(q[k])'
        BY <2>3, <3>3 DEF IsUnit
      <4>2. ASSUME NEW k \in 0 .. HdLen - 1 PROVE Follows(q[k], q[k + 1])'
        <5>0. k + 1 \in 1 .. HdLen
          BY <3>0
        <5>1. q[k + 1] = HdUnit(n, k + 1, pk)'
          BY <3>3, <5>0
        <5>2. CASE k = 0
          <6>1. q[k + 1] = HdUnit(n, 1, pk)'
            BY <5>1, <5>2
          <6>. QED
            BY <3>1, <3>3, <5>2, <6>1 DEF Follows
        <5>3. CASE k # 0
          <6>0. k \in 1 .. HdLen /\ k < HdLen
            BY <3>0, <5>3
          <6>1. q[k] = HdUnit(n, k, pk)'
            BY <3>3, <6>0
          <6>2. q[k].at = 0 /\ q[k].part = k /\ q[k].n = n /\ q[k].pk = pk
            BY <6>1 DEF HdUnit
          <6>. QED
            BY <5>1, <6>0, <6>2 DEF Follows
        <5>. QED
          BY <5>2, <5>3
      <4>. QED
        BY <3>1, <3>3, <4>1, <4>2 DEF InOrder
    <3>5. Given(q[HdLen])'
      <4>1. q[HdLen] = HdUnit(n, HdLen, pk)'
        BY <3>0, <3>3
      <4>2. HdUnit(n, HdLen, pk)' = HdUnit(Sending, HdLen, snd.pk)'
        BY <2>1, <2>2 DEF HdUnit
      <4>. QED
        BY <2>1, <4>1, <4>2 DEF Given
    <3>. QED
      BY <2>4, <3>0, <3>3, <3>4, <3>5 DEF Continues
  <2>. QED
    BY <1>4, <1>6, <2>4, <2>5, <2>6, GivingAgrees
<1>. QED
  BY <1>7, <1>8

(* The bytes of a file come behind its header, each behind the one before. *)
LEMMA ReadAgrees == Shapes /\ Agreed /\ ~skew /\ Read /\ ~skew' => Agreed'
<1>. SUFFICES ASSUME Shapes, Agreed, ~skew, Read, ~skew' PROVE Agreed'
  OBVIOUS
<1>1. /\ snd.pc = "read" /\ UNCHANGED <<wire, up, rcv, dst, stat>> /\ Out = <<>>
      /\ snd.i \in Nat \ {0} /\ snd.i <= Len(Queue) /\ Sent(Sending)
      /\ snd.pk \in PkSizes /\ snd.nsend \in 0 .. snd.len
      /\ snd = [pc |-> snd.pc, i |-> snd.i, len |-> snd.len, pk |-> snd.pk,
                nsend |-> snd.nsend, out |-> snd.out]
  BY DEF Read, Agreed, SenderOK, Out, Shapes
<1>2. PICK n \in Names : n = Sending
  BY <1>1 DEF Sent
<1>3. PICK len \in Nat : len = snd.len /\ stat[n] = len /\ len # 0 /\ len < LenRange
  BY <1>1, <1>2 DEF Agreed, SenderOK, Sent
<1>4. PICK at \in Nat : at = snd.nsend /\ at <= len
  BY <1>1, <1>3
<1>5. PICK got : got = Min({snd.pk, src[n] - snd.nsend})
  OBVIOUS
<1>6. got \in Int
  <2>1. snd.pk \in Int /\ src[n] - at \in Int
    BY <1>1, <1>2, <1>4, QueueFacts DEF Shapes
  <2>2. PICK rest \in Int : rest = src[n] - at
    BY <2>1
  <2>3. got = Min({snd.pk, rest})
    BY <1>4, <1>5, <2>2
  <2>. QED
    BY <2>1, <2>3, MinOfTwo
<1>7. /\ snd' = IF at >= len \/ got <= 0 THEN Returned
                ELSE [snd EXCEPT !.pc = "sendn", !.nsend = @ + got,
                                 !.out = Bytes(n, at, at + got)]
      /\ IF at >= len \/ got <= 0 THEN at = len ELSE at + got <= len
  <2>1. /\ snd' = IF at >= len \/ got <= 0 THEN Returned
                  ELSE [snd EXCEPT !.pc = "sendn", !.nsend = @ + got,
                                   !.out = Bytes(n, at, at + got)]
        /\ skew' = (skew \/ IF at >= len \/ got <= 0 THEN at # len ELSE at + got > len)
    BY <1>2, <1>3, <1>4, <1>5 DEF Read
  <2>2. ~(IF at >= len \/ got <= 0 THEN at # len ELSE at + got > len)
    BY <2>1, Zenon
  <2>3. IF at >= len \/ got <= 0 THEN at = len ELSE at + got <= len
    BY <1>6, <2>2
  <2>. QED
    BY <2>1, <2>3
<1>8. Stable
  <2>1. (snd'.i = snd.i /\ snd'.pc # "idle") \/ snd'.i = snd.i + 1
    BY <1>1, <1>7 DEF Returned
  <2>. QED
    BY <1>1, <2>1, GoesOn
<1>9. \A u : Given(u) => u = IF at = 0 THEN HdUnit(n, HdLen, snd.pk) ELSE ByteUnit(n, at)
  BY <1>1, <1>2, <1>4 DEF Given
<1>10. CASE at >= len \/ got <= 0
  <2>1. snd'.pc = "idle" /\ snd'.i = snd.i + 1 /\ Out' = <<>> /\ at = len
    BY <1>7, <1>10 DEF Returned, Out
  <2>2. SenderOK'
    BY <1>1, <2>1 DEF SenderOK
  <2>3. ASSUME NEW u, u = Origin \/ IsUnit(u), Given(u) PROVE Continues(u)
    <3>1. u = ByteUnit(n, at)
      BY <1>3, <1>9, <2>1, <2>3
    <3>2. Ends(u)
      BY <1>3, <2>1, <3>1 DEF Ends, ByteUnit
    <3>3. Ends(u)' /\ (u = Origin \/ IsUnit(u))'
      BY <1>8, <2>3, <3>2, EndsKept, UnitKept DEF Origin
    <3>4. PICK q : q = [k \in 0 .. 0 |-> u]
      OBVIOUS
    <3>5. q[0] = u
      BY <3>4
    <3>6. InOrder(0, q)'
      BY <3>3, <3>5 DEF InOrder
    <3>7. Given(q[0])'
      BY <2>1, <3>3, <3>5 DEF Given
    <3>8. 0 \in Nat /\ Len(Out') = 0
      BY <2>1
    <3>. QED
      BY <3>5, <3>6, <3>7, <3>8 DEF Continues
  <2>4. Out' \in Seq(Units)
    BY <2>1
  <2>. QED
    BY <1>1, <1>8, <2>2, <2>3, <2>4, GivingAgrees
<1>11. CASE ~(at >= len \/ got <= 0)
  <2>0. got \in Nat \ {0} /\ at + got <= len
    BY <1>6, <1>7, <1>11
  <2>1. /\ snd'.pc = "sendn" /\ snd'.i = snd.i /\ snd'.len = snd.len /\ snd'.pk = snd.pk
        /\ snd'.nsend = at + got /\ snd'.out = Bytes(n, at, at + got) /\ Out' = snd'.out
    <3>1. snd' = [snd EXCEPT !.pc = "sendn", !.nsend = @ + got,
                             !.out = Bytes(n, at, at + got)]
      BY <1>7, <1>11
    <3>. QED
      BY <1>1, <1>4, <3>1 DEF Out
  <2>2. Sending' = n /\ Sent(n)' /\ stat'[n] = len
    BY <1>1, <1>2, <1>3, <1>8, <2>1 DEF Sending, Stable
  <2>3. Out' \in Seq(Units) /\ Len(Out') = got
        /\ \A k \in 1 .. got : Out'[k] = ByteUnit(n, at + k)
    <3>1. (at + got) - at = got
      BY <2>0
    <3>2. Out' = [k \in 1 .. got |-> [n |-> n, at |-> at + k]]
      BY <2>1, <3>1 DEF Bytes
    <3>3. ASSUME NEW k \in 1 .. got PROVE [n |-> n, at |-> at + k] \in Units
      BY DEF Units
    <3>4. Out' \in Seq(Units) /\ Len(Out') = got
      <4>1. Out' \in [1 .. got -> Units]
        BY <3>2, <3>3
      <4>. QED
        BY <2>0, <4>1, TableIsSeq
    <3>5. ASSUME NEW k \in 1 .. got PROVE Out'[k] = ByteUnit(n, at + k)
      BY <3>2 DEF ByteUnit
    <3>. QED
      BY <3>4, <3>5
  <2>4. SenderOK'
    <3>1. snd'.nsend \in 0 .. snd'.len
      BY <1>3, <2>0, <2>1
    <3>2. snd'.out \in Seq(Units)
      BY <2>1, <2>3
    <3>3. snd'.len = stat'[n]
      BY <1>3, <2>1, <2>2
    <3>. QED
      BY <1>1, <2>1, <2>2, <3>1, <3>2, <3>3 DEF SenderOK
  <2>5. ASSUME NEW u, u = Origin \/ IsUnit(u), Given(u) PROVE Continues(u)
    <3>1. /\ u = IF at = 0 THEN HdUnit(n, HdLen, snd.pk) ELSE ByteUnit(n, at)
          /\ (u = Origin \/ IsUnit(u))'
      BY <1>8, <1>9, <2>5, UnitKept DEF Origin
    <3>2. PICK q : q = [k \in 0 .. got |-> IF k = 0 THEN u ELSE Out'[k]]
      OBVIOUS
    <3>3. q[0] = u /\ \A k \in 1 .. got : q[k] = Out'[k] /\ q[k] = ByteUnit(n, at + k)
      BY <2>0, <2>3, <3>2
    <3>4. InOrder(got, q)'
      <4>1. ASSUME NEW k \in 1 .. got PROVE IsUnit(q[k])'
        <5>1. at + k \in 1 .. stat'[n]
          BY <2>0, <2>2
        <5>2. q[k] = ByteUnit(n, at + k)'
          BY <3>3 DEF ByteUnit
        <5>. QED
          BY <2>2, <5>1, <5>2 DEF IsUnit
      <4>2. ASSUME NEW k \in 0 .. got - 1 PROVE Follows(q[k], q[k + 1])'
        <5>0. k + 1 \in 1 .. got
          BY <2>0
        <5>1. q[k + 1] = ByteUnit(n, at + (k + 1))
          BY <3>3, <5>0
        <5>2. CASE k = 0 /\ at = 0
          <6>1. q[k] = HdUnit(n, HdLen, snd.pk) /\ q[k + 1] = ByteUnit(n, 1)
            BY <3>1, <3>3, <5>1, <5>2
          <6>2. q[k].at = 0 /\ q[k].part = HdLen /\ q[k].n = n
            BY <6>1 DEF HdUnit
          <6>. QED
            BY <6>1, <6>2 DEF Follows, ByteUnit
        <5>3. CASE ~(k = 0 /\ at = 0)
          <6>1. q[k] = ByteUnit(n, at + k)
            <7>1. CASE k = 0
              BY <1>4, <3>1, <3>3, <5>3, <7>1
            <7>2. CASE k # 0
              <8>1. k \in 1 .. got
                BY <2>0, <7>2
              <8>. QED
                BY <3>3, <8>1
            <7>. QED
              BY <7>1, <7>2
          <6>2. at + k \in Nat /\ at + k # 0 /\ at + k < len /\ at + (k + 1) = (at + k) + 1
            BY <2>0, <5>3
          <6>3. q[k].at = at + k /\ q[k].n = n /\ q[k] # Origin
            BY <6>1, <6>2 DEF ByteUnit, Origin
          <6>. QED
            BY <2>2, <5>1, <6>2, <6>3 DEF Follows, ByteUnit, Origin
        <5>. QED
          BY <5>2, <5>3
      <4>. QED
        BY <3>1, <3>3, <4>1, <4>2 DEF InOrder
    <3>5. Given(q[got])'
      <4>1. q[got] = ByteUnit(n, at + got)
        BY <2>0, <3>3
      <4>. QED
        BY <2>0, <2>1, <2>2, <4>1 DEF Given, ByteUnit
    <3>6. got = Len(Out') /\ \A k \in 1 .. got : q[k] = Out'[k]
      BY <2>3, <3>3
    <3>. QED
      BY <2>0, <3>3, <3>4, <3>5, <3>6 DEF Continues
  <2>. QED
    BY <1>1, <1>8, <2>3, <2>4, <2>5, GivingAgrees
<1>. QED
  BY <1>10, <1>11

(* What the call of Recvn in progress is for.                              *)
LEMMA WantFacts ==
  ASSUME Shapes, NEW u, Had(u), rcv.pc \in {"header", "data"}
  PROVE  /\ Want \in Nat
         /\ rcv.pc = "data" => Remaining \in Nat /\ Want <= Remaining
<1>1. CASE rcv.pc = "header"
  BY <1>1, QueueFacts DEF Want
<1>2. CASE rcv.pc = "data"
  <2>1. PICK n \in Names, l \in Nat :
         /\ Sent(n) /\ rcv.len = stat[n] /\ rcv.pk \in PkSizes /\ l <= stat[n]
         /\ dst[rcv.name] = Bytes(n, 0, l)
    BY <1>2 DEF Had
  <2>2. Len(dst[rcv.name]) = l
    BY <2>1 DEF Bytes
  <2>3. stat[n] \in Nat
    BY <2>1 DEF Shapes
  <2>4. PICK r \in Nat : r = Remaining
    BY <2>1, <2>2, <2>3 DEF Remaining
  <2>5. rcv.pk \in Nat
    BY <2>1, QueueFacts
  <2>6. Want = Min({r, rcv.pk})
    BY <1>2, <2>4 DEF Want
  <2>7. Want = IF r <= rcv.pk THEN r ELSE rcv.pk
    BY <2>5, <2>6, MinOfTwo
  <2>. QED
    BY <2>4, <2>5, <2>7
<1>. QED
  BY <1>1, <1>2

LEMMA WantIsThere ==
  Shapes /\ rcv.pc \in {"header", "data"} /\ (\E u : Had(u)) => Want \in Nat
BY WantFacts

(* Recvn: from what is under way to what it has.                           *)
LEMMA RecvnAgrees == Shapes /\ Agreed /\ Recvn => Agreed'
<1>. SUFFICES ASSUME Shapes, Agreed, Recvn PROVE Agreed'
  OBVIOUS
<1>1. /\ rcv.pc \in {"header", "data"} /\ UNCHANGED <<snd, up, dst, stat>> /\ up.rcv
      /\ rcv.buf \in Seq(Units) /\ wire \in Seq(Units)
      /\ Len(rcv.buf) < Want /\ wire # <<>>
  BY DEF Recvn, Agreed, StreamOK
<1>2. Stable /\ SenderOK' /\ \A u : Given(u) => Given(u)'
  BY <1>1, SenderKept DEF Agreed
<1>3. PICK m \in Nat : \E p : Stream(m, p)
  BY <1>1 DEF Agreed, StreamOK
<1>4. PICK p : Stream(m, p)
  BY <1>3
<1>5. (p[0] = Origin \/ IsUnit(p[0])) /\ Had(p[0]) /\ Given(p[m]) /\ InOrder(m, p)
      /\ Carries(m, p)
  BY <1>4 DEF Stream, InOrder
<1>6. PICK b \in Nat, w \in Nat, o \in Nat, z \in Nat :
        b = Len(rcv.buf) /\ w = Len(wire) /\ o = Len(Out) /\ z = Want
  <2>1. Out \in Seq(Units)
    BY DEF Agreed, SenderOK, Out
  <2>2. Want \in Nat
    BY <1>1, <1>5, WantFacts
  <2>. QED
    BY <1>1, <2>1, <2>2
<1>7. PICK c : /\ c = Min({z - b, w})
               /\ rcv' = [rcv EXCEPT !.buf = @ \o SubSeq(wire, 1, c)]
               /\ wire' = SubSeq(wire, c + 1, Len(wire))
  BY <1>6 DEF Recvn
<1>8. c \in 0 .. w /\ b + c <= z
  <2>1. PICK rest \in Nat : rest = z - b
    <3>1. b < z
      BY <1>1, <1>6
    <3>2. z - b \in Nat
      BY <3>1
    <3>. QED
      BY <3>2
  <2>2. c = IF rest <= w THEN rest ELSE w
    BY <1>7, <2>1, MinOfTwo
  <2>. QED
    BY <2>1, <2>2
<1>9. /\ rcv'.pc = rcv.pc /\ rcv'.buf = rcv.buf \o SubSeq(wire, 1, c)
      /\ rcv.pc = "data" => rcv'.len = rcv.len /\ rcv'.pk = rcv.pk /\ rcv'.name = rcv.name
  <2>1. CASE rcv.pc = "header"
    <3>1. rcv = [pc |-> "header", call |-> rcv.call, buf |-> rcv.buf]
      BY <2>1 DEF Shapes
    <3>. QED
      BY <1>7, <2>1, <3>1
  <2>2. CASE rcv.pc = "data"
    <3>1. rcv = [pc |-> rcv.pc, call |-> rcv.call, buf |-> rcv.buf, name |-> rcv.name,
                 len |-> rcv.len, pk |-> rcv.pk]
      BY <2>2 DEF Shapes
    <3>. QED
      BY <1>7, <3>1
  <2>. QED
    BY <1>1, <2>1, <2>2
<1>10. /\ SubSeq(wire, 1, c) \in Seq(Units) /\ Len(SubSeq(wire, 1, c)) = c
       /\ \A k \in 1 .. c : SubSeq(wire, 1, c)[k] = wire[k]
  BY ONLY <1>1, <1>6, <1>8, PrefixOf
<1>11. /\ rcv'.buf \in Seq(Units) /\ Len(rcv'.buf) = b + c
       /\ \A k \in 1 .. b : rcv'.buf[k] = rcv.buf[k]
       /\ \A k \in 1 .. c : rcv'.buf[b + k] = wire[k]
  BY ONLY <1>1, <1>6, <1>9, <1>10, Joined
<1>12. /\ wire' \in Seq(Units) /\ Len(wire') = w - c
       /\ \A k \in 1 .. w - c : wire'[k] = wire[c + k]
  <2>1. wire \in Seq(Units) /\ c \in 0 .. Len(wire) /\ w = Len(wire)
        /\ wire' = SubSeq(wire, c + 1, Len(wire))
    BY <1>1, <1>6, <1>7, <1>8
  <2>. QED
    BY ONLY <2>1, RestOf
<1>13. FilesOK'
  BY <1>1, <1>2, <1>9, FilesKept DEF Agreed, Receiving
<1>14. InOrder(m, p)' /\ Had(p[0])' /\ Given(p[m])'
  BY <1>1, <1>2, <1>5, <1>9, OrderKept, HadKept
<1>15. Carries(m, p)'
  <2>0. m = b + w + o
    BY <1>5, <1>6 DEF Carries
  <2>1. Out' = Out
    BY <1>1 DEF Out
  <2>2. m = Len(rcv'.buf) + Len(wire') + Len(Out')
    <3>1. b + w + o = (b + c) + (w - c) + o
      BY <1>8
    <3>. QED
      BY <1>6, <1>11, <1>12, <2>0, <2>1, <3>1
  <2>3. ASSUME NEW k \in 1 .. b + c PROVE p[k] = rcv'.buf[k]
    <3>1. CASE k <= b
      BY <1>5, <1>6, <1>11, <3>1 DEF Carries
    <3>2. CASE ~(k <= b)
      <4>1. PICK j \in 1 .. c : k = b + j
        <5>1. k - b \in 1 .. c /\ k = b + (k - b)
          BY <1>8, <3>2
        <5>. QED
          BY <5>1
      <4>2. j \in 1 .. w
        BY <1>8
      <4>. QED
        BY <1>5, <1>6, <1>11, <4>1, <4>2 DEF Carries
    <3>. QED
      BY <3>1, <3>2
  <2>4. ASSUME NEW k \in 1 .. w - c PROVE p[(b + c) + k] = wire'[k]
    <3>1. c + k \in 1 .. w /\ (b + c) + k = b + (c + k)
      BY <1>8
    <3>2. p[b + (c + k)] = wire[c + k]
      BY <1>5, <1>6, <3>1 DEF Carries
    <3>. QED
      BY <1>12, <3>1, <3>2
  <2>5. ASSUME NEW k \in 1 .. o PROVE p[(b + c) + (w - c) + k] = Out[k]
    <3>1. (b + c) + (w - c) + k = b + w + k
      BY <1>8
    <3>2. p[b + w + k] = Out[k]
      BY <1>5, <1>6 DEF Carries
    <3>. QED
      BY <3>1, <3>2
  <2>. QED
    BY <1>6, <1>11, <1>12, <2>1, <2>2, <2>3, <2>4, <2>5 DEF Carries
<1>16. Stream(m, p)'
  BY <1>14, <1>15 DEF Stream
<1>17. Want' = Want
  BY <1>1, <1>9 DEF Want, Remaining
<1>18. Len(rcv'.buf) <= Want'
  BY <1>6, <1>8, <1>11, <1>17
<1>. QED
  BY <1>1, <1>2, <1>9, <1>11, <1>12, <1>13, <1>16, <1>18 DEF StreamOK, Agreed

(* The receiver is done with what Recvn has.                               *)
LEMMA TakingAgrees ==
  ASSUME Shapes, Agreed, UNCHANGED <<snd, wire, up, stat>>, FilesOK',
         rcv.pc \in {"header", "data"}, rcv'.pc \in {"header", "data"}, rcv'.buf = <<>>,
         Want' \in Nat, NEW m \in Nat, NEW p, Stream(m, p),
         NEW b \in Nat, b = Len(rcv.buf), Had(p[b])'
  PROVE  Agreed'
<1>1. Stable /\ SenderOK' /\ \A u : Given(u) => Given(u)'
  BY SenderKept DEF Agreed
<1>2. /\ rcv.buf \in Seq(Units) /\ wire \in Seq(Units) /\ up.rcv /\ Out \in Seq(Units)
      /\ Given(p[m]) /\ InOrder(m, p) /\ Carries(m, p)
  BY DEF Agreed, StreamOK, SenderOK, Out, Stream
<1>3. PICK w \in Nat, o \in Nat : w = Len(wire) /\ o = Len(Out)
  BY <1>2
<1>4. m = b + w + o
  BY <1>2, <1>3 DEF Carries
<1>5. PICK c \in Nat : c = m - b
  BY <1>4
<1>6. b \in 0 .. m /\ c = w + o
  BY ONLY <1>4, <1>5, b \in Nat, w \in Nat, o \in Nat
<1>7. PICK q : q = [k \in 0 .. m - b |-> p[b + k]]
  OBVIOUS
<1>8. \A k \in 0 .. c : q[k] = p[b + k]
  BY <1>5, <1>7
<1>9. InOrder(c, q)
  <2>1. InOrder(m - b, [k \in 0 .. m - b |-> p[b + k]])
    BY <1>2, <1>6, OrderFrom
  <2>. QED
    BY <1>5, <1>7, <2>1
<1>10. InOrder(c, q)'
  BY <1>1, <1>9, OrderKept
<1>11. Had(q[0])' /\ Given(q[c])'
  <2>1. q[0] = p[b] /\ q[c] = p[m]
    <3>1. 0 \in 0 .. c /\ c \in 0 .. c /\ b + c = m /\ b + 0 = b
      BY <1>5
    <3>. QED
      BY <1>8, <3>1
  <2>. QED
    BY <1>1, <1>2, <1>3, <2>1
<1>12. Carries(c, q)'
  <2>1. Out' = Out /\ Len(rcv'.buf) = 0
    BY DEF Out
  <2>2. ASSUME NEW k \in 1 .. w PROVE q[0 + k] = wire[k]
    <3>1. k \in 0 .. c /\ 0 + k = k
      BY <1>6
    <3>2. p[b + k] = wire[k]
      BY <1>2, <1>3 DEF Carries
    <3>. QED
      BY <1>8, <3>1, <3>2
  <2>3. ASSUME NEW k \in 1 .. o PROVE q[0 + w + k] = Out[k]
    <3>1. w + k \in 0 .. c /\ 0 + w + k = w + k /\ b + (w + k) = b + w + k
      BY ONLY <1>6, b \in Nat, w \in Nat, o \in Nat, k \in 1 .. o
    <3>2. p[b + w + k] = Out[k]
      BY <1>2, <1>3 DEF Carries
    <3>. QED
      BY <1>8, <3>1, <3>2
  <2>4. c = 0 + w + o
    BY <1>6
  <2>. QED
    BY <1>3, <2>1, <2>2, <2>3, <2>4 DEF Carries
<1>13. Stream(c, q)'
  BY <1>10, <1>11, <1>12 DEF Stream
<1>14. rcv'.buf \in Seq(Units) /\ Len(rcv'.buf) <= Want'
  OBVIOUS
<1>. QED
  BY <1>1, <1>2, <1>13, <1>14 DEF StreamOK, Agreed

(* A header is taken for one, and the file of its name begun.              *)
LEMMA OpenAgrees == Shapes /\ OldKept /\ Agreed /\ Open => Agreed' /\ rcv'.pc # "astray"
<1>. SUFFICES ASSUME Shapes, OldKept, Agreed, Open PROVE Agreed' /\ rcv'.pc # "astray"
  OBVIOUS
<1>1. /\ rcv.pc = "header" /\ Len(rcv.buf) = HdLen /\ UNCHANGED <<snd, wire, up, stat>>
      /\ rcv.buf \in Seq(Units) /\ HdLen \in Nat \ {0}
  BY QueueFacts DEF Open, Full, Want, Agreed, StreamOK
<1>2. PICK m \in Nat : \E p : Stream(m, p)
  BY <1>1 DEF Agreed, StreamOK
<1>3. PICK p : Stream(m, p)
  BY <1>2
<1>4. InOrder(m, p) /\ Ends(p[0]) /\ m # 0
      /\ \A k \in 1 .. HdLen : p[k] = rcv.buf[k] /\ k \in 1 .. m
  <2>1. InOrder(m, p) /\ Carries(m, p) /\ Had(p[0])
    BY <1>3 DEF Stream
  <2>2. Out \in Seq(Units) /\ wire \in Seq(Units)
    BY DEF Agreed, StreamOK, SenderOK, Out
  <2>3. PICK w \in Nat, o \in Nat : w = Len(wire) /\ o = Len(Out)
    BY <2>2
  <2>4. m = HdLen + w + o
    BY <1>1, <2>1, <2>3 DEF Carries
  <2>5. m # 0 /\ \A k \in 1 .. HdLen : k \in 1 .. m
    BY <1>1, <2>4
  <2>6. \A k \in 1 .. HdLen : p[k] = rcv.buf[k]
    BY <1>1, <2>1 DEF Carries
  <2>. QED
    BY <1>1, <2>1, <2>5, <2>6 DEF Had
<1>5. PICK n \in Names, pk \in PkSizes :
        Sent(n) /\ \A k \in 1 .. m : k <= HdLen => p[k] = HdUnit(n, k, pk)
  BY <1>4, HeaderRun
<1>6. \A k \in 1 .. HdLen : rcv.buf[k] = HdUnit(n, k, pk)
  BY <1>1, <1>4, <1>5
<1>7. PICK hd : /\ hd = rcv.buf[1] /\ hd.n = n /\ hd.at = 0 /\ hd.len = stat[n] /\ hd.pk = pk
  <2>1. rcv.buf[1] = HdUnit(n, 1, pk)
    BY <1>1, <1>6
  <2>. QED
    BY <2>1 DEF HdUnit
<1>8. IsHd(rcv.buf)
  <2>1. Hd(n, stat[n], pk) = [k \in 1 .. HdLen |-> HdUnit(n, k, pk)]
    BY DEF Hd, HdUnit
  <2>2. rcv.buf = [k \in 1 .. HdLen |-> HdUnit(n, k, pk)]
    <3>1. DOMAIN rcv.buf = 1 .. HdLen /\ rcv.buf = [k \in DOMAIN rcv.buf |-> rcv.buf[k]]
      BY <1>1
    <3>. QED
      BY <1>6, <3>1
  <2>. QED
    BY <1>7, <2>1, <2>2 DEF IsHd
<1>9. PICK name : name = Path(hd) /\ (ByName => name = n)
  BY <1>7 DEF Path
<1>10. /\ rcv' = IF name \in DOMAIN dst THEN Failed("failed")
                 ELSE [pc |-> "data", call |-> rcv.call, buf |-> <<>>, name |-> name,
                       len |-> hd.len, pk |-> hd.pk]
       /\ dst' = IF name \in DOMAIN dst THEN dst
                 ELSE [x \in DOMAIN dst \cup {name} |-> IF x = name THEN <<>> ELSE dst[x]]
  BY <1>7, <1>8, <1>9 DEF Open
<1>11. CASE name \in DOMAIN dst
  <2>1. dst' = dst /\ rcv'.pc = "failed"
    BY <1>10, <1>11 DEF Failed
  <2>2. \A x : ~Receiving(x)
    BY <1>1 DEF Receiving
  <2>3. Agreed'
    BY <1>1, <2>1, <2>2, LeavingAgrees
  <2>. QED
    BY <2>1, <2>3
<1>12. CASE name \notin DOMAIN dst
  <2>1. /\ rcv'.pc = "data" /\ rcv'.buf = <<>> /\ rcv'.name = name
        /\ rcv'.len = stat[n] /\ rcv'.pk = pk
        /\ dst'[name] = <<>> /\ DOMAIN dst' = DOMAIN dst \cup {name}
        /\ \A x \in DOMAIN dst : dst'[x] = dst[x]
    BY <1>7, <1>10, <1>12
  <2>2. Stable
    BY <1>1, SenderKept DEF Agreed
  <2>3. Sent(n)' /\ stat'[n] = stat[n] /\ stat[n] \in Nat
    BY <1>5, <2>2 DEF Stable, Sent
  <2>4. Bytes(n, 0, 0) = <<>>
    <3>1. 1 .. 0 - 0 = {}
      OBVIOUS
    <3>. QED
      BY <3>1 DEF Bytes
  <2>5. Had(p[HdLen])'
    <3>1. p[HdLen] = HdUnit(n, HdLen, pk)
      BY <1>1, <1>4, <1>6
    <3>2. HdUnit(n, HdLen, rcv.pk)' = HdUnit(n, HdLen, pk)
      BY <1>1, <2>1 DEF HdUnit
    <3>3. dst'[rcv'.name] = Bytes(n, 0, 0)
      BY <2>1, <2>4
    <3>4. p[HdLen] = (IF 0 = 0 THEN HdUnit(n, HdLen, rcv.pk) ELSE ByteUnit(n, 0))'
      BY <3>1, <3>2
    <3>. QED
      BY <1>9, <2>1, <2>3, <3>3, <3>4 DEF Had, Bytes
  <2>6. FilesOK'
    <3>. SUFFICES ASSUME NEW x \in DOMAIN dst' \ Old
                  PROVE  (\E f \in Names :
                            /\ Sent(f) /\ (ByName => f = x)
                            /\ \E l \in 0 .. stat[f] :
                                 dst[x] = Bytes(f, 0, l) /\ (l = stat[f] \/ Receiving(x)))'
      BY DEF FilesOK
    <3>1. CASE x = name
      <4>1. Receiving(x)' /\ dst'[x] = Bytes(n, 0, 0)' /\ 0 \in 0 .. stat'[n]
        BY <2>1, <2>3, <2>4, <3>1 DEF Receiving, Bytes
      <4>. QED
        BY <1>9, <2>3, <3>1, <4>1
    <3>2. CASE x # name
      <4>1. x \in DOMAIN dst \ Old /\ dst'[x] = dst[x] /\ ~Receiving(x)
        BY <1>1, <2>1, <3>2 DEF Receiving
      <4>2. PICK f \in Names :
              /\ Sent(f) /\ (ByName => f = x)
              /\ \E l \in 0 .. stat[f] :
                   dst[x] = Bytes(f, 0, l) /\ (l = stat[f] \/ Receiving(x))
        BY <4>1 DEF FilesOK, Agreed
      <4>3. Sent(f)' /\ stat'[f] = stat[f]
        BY <2>2, <4>2 DEF Stable
      <4>. QED
        BY <4>1, <4>2, <4>3 DEF Bytes
    <3>. QED
      BY <3>1, <3>2
  <2>7. Want' \in Nat
    <3>1. Shapes'
      BY ShapesStep DEF Next, RecvFile
    <3>2. (\E u : Had(u))'
      BY <2>5
    <3>3. (Shapes /\ rcv.pc \in {"header", "data"} /\ (\E u : Had(u)) => Want \in Nat)'
      BY WantIsThere, PTL
    <3>. QED
      BY <2>1, <3>1, <3>2, <3>3
  <2>8. Agreed'
    BY <1>1, <1>3, <2>1, <2>5, <2>6, <2>7, TakingAgrees
  <2>. QED
    BY <2>1, <2>8
<1>. QED
  BY <1>11, <1>12

(* What is written is what comes next in the file.                         *)
LEMMA WriteAgrees == Shapes /\ OldKept /\ Agreed /\ Write => Agreed'
<1>. SUFFICES ASSUME Shapes, OldKept, Agreed, Write PROVE Agreed'
  OBVIOUS
<1>1. /\ rcv.pc = "data" /\ UNCHANGED <<snd, wire, up, stat>>
      /\ rcv.buf \in Seq(Units) /\ Len(rcv.buf) <= Want /\ rcv.buf # <<>>
      /\ rcv.name \in DOMAIN dst \ Old
      /\ dst' = [dst EXCEPT ![rcv.name] = @ \o rcv.buf]
      /\ rcv = [pc |-> rcv.pc, call |-> rcv.call, buf |-> rcv.buf, name |-> rcv.name,
                len |-> rcv.len, pk |-> rcv.pk]
  BY DEF Write, Agreed, StreamOK, OldKept, Shapes
<1>2. /\ rcv'.pc = "data" /\ rcv'.buf = <<>> /\ rcv'.name = rcv.name
      /\ rcv'.len = rcv.len /\ rcv'.pk = rcv.pk
  BY <1>1 DEF Write
<1>3. PICK m \in Nat : \E p : Stream(m, p)
  BY <1>1 DEF Agreed, StreamOK
<1>4. PICK p : Stream(m, p)
  BY <1>3
<1>5. InOrder(m, p) /\ Carries(m, p) /\ Had(p[0])
  BY <1>4 DEF Stream
<1>6. PICK n \in Names, l \in Nat :
        /\ Sent(n) /\ rcv.len = stat[n] /\ rcv.pk \in PkSizes /\ l <= stat[n]
        /\ dst[rcv.name] = Bytes(n, 0, l)
        /\ ByName => rcv.name = n
        /\ p[0] = IF l = 0 THEN HdUnit(n, HdLen, rcv.pk) ELSE ByteUnit(n, l)
  BY <1>1, <1>5 DEF Had
<1>7. PICK b \in Nat : b = Len(rcv.buf) /\ b # 0
  BY <1>1
<1>8. stat[n] \in Nat /\ l + b <= stat[n]
  <2>1. Remaining \in Nat /\ Want <= Remaining /\ Want \in Nat
    BY <1>1, <1>5, WantFacts
  <2>2. Len(dst[rcv.name]) = l
    BY <1>6 DEF Bytes
  <2>3. stat[n] \in Nat
    BY <1>6 DEF Shapes
  <2>4. Remaining = stat[n] - l
    BY <1>6, <2>2 DEF Remaining
  <2>5. b <= Remaining
    BY <1>1, <1>7, <2>1
  <2>. QED
    BY <2>3, <2>4, <2>5
<1>9. b \in 0 .. m /\ \A k \in 1 .. b : k \in 1 .. m /\ p[k] = rcv.buf[k]
  <2>1. Out \in Seq(Units) /\ wire \in Seq(Units)
    BY DEF Agreed, StreamOK, SenderOK, Out
  <2>2. PICK w \in Nat, o \in Nat : w = Len(wire) /\ o = Len(Out)
    BY <2>1
  <2>3. m = b + w + o
    BY <1>5, <1>7, <2>2 DEF Carries
  <2>. QED
    BY <1>5, <1>7, <2>3 DEF Carries
<1>10. \A k \in 1 .. b : rcv.buf[k] = ByteUnit(n, l + k) /\ p[k] = ByteUnit(n, l + k)
  <2>1. \A k \in 1 .. m : l + k <= stat[n] => p[k] = ByteUnit(n, l + k)
    BY <1>5, <1>6, BytesRun
  <2>2. ASSUME NEW k \in 1 .. b PROVE l + k <= stat[n]
    BY <1>8
  <2>. QED
    BY <1>9, <2>1, <2>2
<1>11. dst'[rcv.name] = Bytes(n, 0, l + b) /\ DOMAIN dst' = DOMAIN dst
       /\ \A x \in DOMAIN dst : x # rcv.name => dst'[x] = dst[x]
  <2>1. PICK old : old = Bytes(n, 0, l)
    OBVIOUS
  <2>2. old = [k \in 1 .. l |-> ByteUnit(n, k)]
    BY <2>1 DEF Bytes, ByteUnit
  <2>3. old \in Seq(Units) /\ Len(old) = l
    <3>1. ASSUME NEW k \in 1 .. l PROVE ByteUnit(n, k) \in Units
      BY DEF Units, ByteUnit
    <3>2. old \in [1 .. l -> Units]
      BY <2>2, <3>1
    <3>. QED
      BY <3>2, TableIsSeq
  <2>4. PICK new : new = old \o rcv.buf
    OBVIOUS
  <2>5. /\ new \in Seq(Units) /\ Len(new) = l + b
        /\ \A k \in 1 .. l : new[k] = old[k]
        /\ \A k \in 1 .. b : new[l + k] = rcv.buf[k]
    <3>1. rcv.buf \in Seq(Units)
      BY <1>1
    <3>2. old \in Seq(Units) /\ Len(old) = l /\ b = Len(rcv.buf)
      BY <1>7, <2>3
    <3>3. /\ old \o rcv.buf \in Seq(Units) /\ Len(old \o rcv.buf) = Len(old) + Len(rcv.buf)
          /\ \A k \in 1 .. Len(old) : (old \o rcv.buf)[k] = old[k]
          /\ \A k \in 1 .. Len(rcv.buf) : (old \o rcv.buf)[Len(old) + k] = rcv.buf[k]
      <4>1. PICK more : more = rcv.buf
        OBVIOUS
      <4>2. old \in Seq(Units) /\ more \in Seq(Units)
        BY <3>1, <3>2, <4>1
      <4>. QED
        BY ONLY <4>1, <4>2, Joined
    <3>. QED
      BY ONLY <2>4, <3>2, <3>3
  <2>6. ASSUME NEW k \in 1 .. l + b PROVE new[k] = ByteUnit(n, k)
    <3>1. CASE k <= l
      BY <2>2, <2>5, <3>1
    <3>2. CASE ~(k <= l)
      <4>1. PICK j \in 1 .. b : k = l + j
        <5>1. k - l \in 1 .. b /\ k = l + (k - l)
          BY <3>2
        <5>. QED
          BY <5>1
      <4>. QED
        BY <1>10, <2>5, <4>1
    <3>. QED
      BY <3>1, <3>2
  <2>7. new = [k \in 1 .. l + b |-> ByteUnit(n, k)]
    <3>1. DOMAIN new = 1 .. l + b /\ new = [k \in DOMAIN new |-> new[k]]
      BY <2>5
    <3>. QED
      BY <2>6, <3>1
  <2>8. new = Bytes(n, 0, l + b)
    <3>1. (l + b) - 0 = l + b /\ \A k \in 1 .. l + b : 0 + k = k
      OBVIOUS
    <3>. QED
      BY <2>7, <3>1 DEF Bytes, ByteUnit
  <2>9. dst'[rcv.name] = new
    BY <1>1, <1>6, <2>1, <2>4
  <2>. QED
    BY <1>1, <2>8, <2>9
<1>12. Sent(n)' /\ stat'[n] = stat[n] /\ Stable
  BY <1>1, <1>6, SenderKept DEF Agreed, Stable
<1>13. Had(p[b])'
  <2>1. p[b] = ByteUnit(n, l + b) /\ l + b # 0 /\ l + b \in Nat
    BY <1>7, <1>10
  <2>2. dst'[rcv'.name] = Bytes(n, 0, l + b)
    BY <1>2, <1>11
  <2>3. p[b] = (IF l + b = 0 THEN HdUnit(n, HdLen, rcv.pk) ELSE ByteUnit(n, l + b))'
    BY <2>1 DEF ByteUnit
  <2>. QED
    BY <1>2, <1>6, <1>8, <1>12, <2>1, <2>2, <2>3 DEF Had, Bytes
<1>14. FilesOK'
  <2>. SUFFICES ASSUME NEW x \in DOMAIN dst' \ Old
                PROVE  (\E f \in Names :
                          /\ Sent(f) /\ (ByName => f = x)
                          /\ \E j \in 0 .. stat[f] :
                               dst[x] = Bytes(f, 0, j) /\ (j = stat[f] \/ Receiving(x)))'
    BY DEF FilesOK
  <2>1. CASE x = rcv.name
    <3>1. Receiving(x)' /\ dst'[x] = Bytes(n, 0, l + b)' /\ l + b \in 0 .. stat'[n]
      BY <1>2, <1>8, <1>11, <1>12, <2>1 DEF Receiving, Bytes
    <3>. QED
      BY <1>6, <1>12, <2>1, <3>1
  <2>2. CASE x # rcv.name
    <3>1. x \in DOMAIN dst \ Old /\ dst'[x] = dst[x] /\ ~Receiving(x)
      BY <1>11, <2>2 DEF Receiving
    <3>2. PICK f \in Names :
            /\ Sent(f) /\ (ByName => f = x)
            /\ \E j \in 0 .. stat[f] :
                 dst[x] = Bytes(f, 0, j) /\ (j = stat[f] \/ Receiving(x))
      BY <3>1 DEF FilesOK, Agreed
    <3>3. Sent(f)' /\ stat'[f] = stat[f]
      BY <1>12, <3>2 DEF Stable
    <3>. QED
      BY <3>1, <3>2, <3>3 DEF Bytes
  <2>. QED
    BY <2>1, <2>2
<1>15. Want' \in Nat
  <2>1. Shapes'
    BY ShapesStep DEF Next, RecvFile
  <2>2. (\E u : Had(u))'
    BY <1>13
  <2>3. (Shapes /\ rcv.pc \in {"header", "data"} /\ (\E u : Had(u)) => Want \in Nat)'
    BY WantIsThere, PTL
  <2>. QED
    BY <1>2, <2>1, <2>2, <2>3
<1>. QED
  BY <1>1, <1>2, <1>4, <1>7, <1>13, <1>14, <1>15, TakingAgrees

(* A file that has the length of its header has all its bytes.             *)
LEMMA CompleteAgrees == Shapes /\ OldKept /\ Agreed /\ Complete => Agreed'
<1>. SUFFICES ASSUME Shapes, OldKept, Agreed, Complete PROVE Agreed'
  OBVIOUS
<1>1. /\ rcv.pc = "data" /\ UNCHANGED <<snd, wire, up, dst, stat>> /\ rcv' = NextCall
      /\ rcv.buf \in Seq(Units) /\ Len(rcv.buf) <= Want /\ Remaining = 0
  BY DEF Complete, Agreed, StreamOK
<1>2. PICK m \in Nat : \E p : Stream(m, p)
  BY <1>1 DEF Agreed, StreamOK
<1>3. PICK p : Stream(m, p)
  BY <1>2
<1>4. InOrder(m, p) /\ Had(p[0])
  BY <1>3 DEF Stream
<1>5. Len(rcv.buf) = 0
  <2>1. Want \in Nat /\ Want <= 0
    BY <1>1, <1>4, WantFacts
  <2>2. Len(rcv.buf) \in Nat
    BY <1>1
  <2>. QED
    BY <1>1, <2>1, <2>2
<1>6. PICK n \in Names, l \in Nat :
        /\ Sent(n) /\ rcv.len = stat[n] /\ rcv.pk \in PkSizes /\ l <= stat[n]
        /\ dst[rcv.name] = Bytes(n, 0, l)
        /\ ByName => rcv.name = n
        /\ p[0] = IF l = 0 THEN HdUnit(n, HdLen, rcv.pk) ELSE ByteUnit(n, l)
  BY <1>1, <1>4 DEF Had
<1>7. l = stat[n] /\ l # 0
  <2>1. Len(dst[rcv.name]) = l
    BY <1>6 DEF Bytes
  <2>2. stat[n] \in Nat \ {0}
    BY <1>6 DEF Sent
  <2>. QED
    BY <1>1, <1>6, <2>1, <2>2 DEF Remaining
<1>8. Sent(n)' /\ stat'[n] = stat[n] /\ Stable
  BY <1>1, <1>6, SenderKept DEF Agreed, Stable
<1>9. FilesOK'
  <2>. SUFFICES ASSUME NEW x \in DOMAIN dst \ Old
                PROVE  (\E f \in Names :
                          /\ Sent(f) /\ (ByName => f = x)
                          /\ \E j \in 0 .. stat[f] :
                               dst[x] = Bytes(f, 0, j) /\ (j = stat[f] \/ Receiving(x)))'
    BY <1>1 DEF FilesOK
  <2>1. CASE x = rcv.name
    <3>1. dst'[x] = Bytes(n, 0, l)' /\ l \in 0 .. stat'[n] /\ l = stat'[n]
      BY <1>1, <1>6, <1>7, <1>8, <2>1 DEF Bytes
    <3>. QED
      BY <1>6, <1>8, <2>1, <3>1
  <2>2. CASE x # rcv.name
    <3>1. dst'[x] = dst[x] /\ ~Receiving(x)
      BY <1>1, <2>2 DEF Receiving
    <3>2. PICK f \in Names :
            /\ Sent(f) /\ (ByName => f = x)
            /\ \E j \in 0 .. stat[f] :
                 dst[x] = Bytes(f, 0, j) /\ (j = stat[f] \/ Receiving(x))
      BY <3>1 DEF FilesOK, Agreed
    <3>3. Sent(f)' /\ stat'[f] = stat[f]
      BY <1>8, <3>2 DEF Stable
    <3>. QED
      BY <3>1, <3>2, <3>3 DEF Bytes
  <2>. QED
    BY <2>1, <2>2
<1>10. CASE rcv'.pc = "header"
  <2>1. rcv'.buf = <<>>
    BY <1>1, <1>10 DEF NextCall
  <2>2. Had(p[0])'
    <3>1. p[0] = ByteUnit(n, l)
      BY <1>6, <1>7
    <3>2. p[0].at = l /\ p[0].n = n
      BY <3>1 DEF ByteUnit
    <3>3. Ends(p[0])'
      BY <1>7, <1>8, <3>2 DEF Ends
    <3>. QED
      BY <1>10, <3>3 DEF Had
  <2>3. Want' \in Nat
    BY <1>10, QueueFacts DEF Want
  <2>. QED
    BY <1>1, <1>3, <1>5, <1>9, <1>10, <2>1, <2>2, <2>3, TakingAgrees
<1>11. CASE rcv'.pc # "header"
  <2>1. rcv'.pc \notin {"header", "data"}
    BY <1>1, <1>11 DEF NextCall
  <2>2. SenderOK'
    BY <1>1, SenderKept DEF Agreed
  <2>. QED
    BY <1>1, <1>9, <2>1, <2>2 DEF StreamOK, Agreed
<1>. QED
  BY <1>10, <1>11

(* A file that is not received to its end is unlinked.                     *)
LEMMA UnlinkAgrees == Shapes /\ Agreed /\ (NoMore \/ WriteFails) => Agreed'
<1>. SUFFICES ASSUME Shapes, Agreed, NoMore \/ WriteFails PROVE Agreed'
  OBVIOUS
<1>1. UNCHANGED <<snd, wire, stat>> /\ rcv'.pc \notin {"header", "data"}
  BY DEF NoMore, WriteFails, Failed
<1>2. \A n \in DOMAIN dst' : n \in DOMAIN dst /\ dst'[n] = dst[n] /\ ~Receiving(n)
  <2>1. CASE rcv.pc = "data"
    <3>1. dst' = [n \in DOMAIN dst \ {rcv.name} |-> dst[n]]
      BY <2>1 DEF NoMore, WriteFails, Restrict
    <3>. QED
      BY <3>1 DEF Receiving
  <2>2. CASE rcv.pc = "header"
    BY <2>2 DEF NoMore, WriteFails, Receiving
  <2>. QED
    BY <2>1, <2>2 DEF NoMore, WriteFails
<1>. QED
  BY <1>1, <1>2, LeavingAgrees

LEMMA GoneAgrees == Shapes /\ Agreed /\ (Leave \/ KillReceiver) => Agreed'
<1>. SUFFICES ASSUME Shapes, Agreed, Leave \/ KillReceiver PROVE Agreed'
  OBVIOUS
<1>1. UNCHANGED <<snd, wire, stat, dst>>
  BY DEF Leave, KillReceiver
<1>2. rcv'.pc \notin {"header", "data"} /\ \A n : Receiving(n) => Receiving(n)'
  <2>1. CASE Leave
    BY <2>1 DEF Leave, Failed, Receiving
  <2>2. CASE KillReceiver /\ rcv.pc = "data"
    <3>1. rcv = [pc |-> rcv.pc, call |-> rcv.call, buf |-> rcv.buf, name |-> rcv.name,
                 len |-> rcv.len, pk |-> rcv.pk]
      BY <2>2 DEF Shapes
    <3>2. rcv' = [rcv EXCEPT !.pc = "killed"]
      BY <2>2 DEF KillReceiver
    <3>3. rcv'.pc = "killed" /\ rcv'.name = rcv.name
      BY <3>1, <3>2
    <3>. QED
      BY <3>3 DEF Receiving
  <2>3. CASE KillReceiver /\ rcv.pc # "data"
    <3>1. rcv.pc # "killed"
      BY <2>3 DEF KillReceiver, Shapes
    <3>. QED
      BY <2>3, <3>1 DEF KillReceiver, Failed, Receiving
  <2>. QED
    BY <2>1, <2>2, <2>3
<1>. QED
  BY <1>1, <1>2, LeavingAgrees

LEMMA ClosedAgrees == Shapes /\ Agreed /\ (Close \/ KillSender \/ Break) => Agreed'
<1>. SUFFICES ASSUME Shapes, Agreed, Close \/ KillSender \/ Break PROVE Agreed'
  OBVIOUS
<1>1. /\ snd' = [pc |-> "closed", i |-> snd.i] /\ UNCHANGED <<rcv, dst, stat>>
      /\ up' = [up EXCEPT !.snd = FALSE]
  BY DEF Close, KillSender, Break
<1>2. up'.rcv = up.rcv
  BY <1>1
<1>3. Len(wire) \in Nat
  BY DEF Agreed, StreamOK
<1>4. CASE Break
  <2>1. PICK c \in 0 .. Len(wire) : wire' = SubSeq(wire, 1, c)
    BY <1>4 DEF Break
  <2>. QED
    BY <1>1, <1>2, <2>1, ClosingAgrees
<1>5. CASE Close \/ KillSender
  <2>1. wire' = wire /\ Len(wire) \in 0 .. Len(wire)
    BY <1>3, <1>5 DEF Close, KillSender
  <2>. QED
    BY <1>1, <1>2, <2>1, ClosingAgrees
<1>. QED
  BY <1>4, <1>5

(* The invariant is inductive.                                             *)
LEMMA IInvStep == IInv /\ [Next]_vars => IInv'
<1>. SUFFICES ASSUME IInv, [Next]_vars PROVE IInv'
  OBVIOUS
<1>1. Shapes /\ OldKept /\ Shapes' /\ OldKept'
  BY ShapesStep DEF IInv
<1>. SUFFICES ASSUME ~skew' PROVE Agreed' /\ rcv'.pc # "astray"
  BY <1>1 DEF IInv
<1>2. CASE Again
  BY <1>2 DEF Again
<1>3. CASE ~Again
  <2>1. ~skew
    <3>1. skew => skew'
      BY <1>3 DEF Next, SendFile, RecvFile, Start, Sendn, Read, Close, Recvn, Open, NoMore,
         Write, Complete, Leave, WriteFails, Change, KillSender, KillReceiver, Break, vars
    <3>. QED
      BY <3>1
  <2>2. Agreed /\ rcv.pc # "astray"
    BY <2>1 DEF IInv
  <2>3. CASE Open
    BY <1>1, <2>2, <2>3, OpenAgrees
  <2>4. CASE ~Open
    <3>1. rcv'.pc # "astray"
      <4>1. CASE Recvn
        BY <1>1, <2>2, <4>1 DEF Recvn, Shapes
      <4>2. CASE Write
        BY <1>1, <4>2 DEF Write, Shapes
      <4>3. CASE KillReceiver
        BY <1>1, <4>3 DEF KillReceiver, Failed, Shapes
      <4>4. CASE NoMore \/ Complete \/ Leave \/ WriteFails
        BY <4>4 DEF NoMore, Complete, NextCall, Leave, WriteFails, Failed
      <4>5. CASE ~(Recvn \/ Write \/ KillReceiver \/ NoMore \/ Complete \/ Leave \/ WriteFails)
        <5>1. rcv' = rcv
          BY <1>3, <2>4, <4>5 DEF Next, SendFile, RecvFile, Start, Sendn, Read, Close, Change,
             KillSender, Break, vars
        <5>. QED
          BY <2>2, <5>1
      <4>. QED
        BY <4>1, <4>2, <4>3, <4>4, <4>5
    <3>2. CASE Start \/ Sendn \/ Read
      BY <1>1, <2>1, <2>2, <3>1, <3>2, StartAgrees, SendnAgrees, ReadAgrees
    <3>3. CASE Recvn \/ Write \/ Complete
      BY <1>1, <2>2, <3>1, <3>3, RecvnAgrees, WriteAgrees, CompleteAgrees
    <3>4. CASE NoMore \/ WriteFails \/ Leave \/ KillReceiver
      BY <1>1, <2>2, <3>1, <3>4, UnlinkAgrees, GoneAgrees
    <3>5. CASE Close \/ KillSender \/ Break
      BY <1>1, <2>2, <3>1, <3>5, ClosedAgrees
    <3>6. CASE UNCHANGED vars \/ \E n \in Names : Change(n)
      <4>1. UNCHANGED <<snd, wire, up, rcv, dst, stat>>
        BY <3>6 DEF vars, Change
      <4>. QED
        BY <1>1, <2>2, <3>1, <4>1, NothingAgrees
    <3>7. Agreed'
      BY <1>3, <2>4, <3>2, <3>3, <3>4, <3>5, <3>6 DEF Next, SendFile, RecvFile
    <3>. QED
      BY <3>1, <3>7
  <2>. QED
    BY <2>3, <2>4
<1>. QED
  BY <1>2, <1>3

LEMMA AlwaysIInv == Spec => []IInv
<1>1. Init => IInv
  BY InitShapes, InitAgreed DEF IInv, Init
<1>. QED
  BY <1>1, IInvStep, PTL DEF Spec

(* For any files and packets: the receiver never takes bytes for a header  *)
(* or a header for bytes, as long as stream and headers agree.  The pieces *)
(* send and recv cut the stream into do not matter, nor where a process is *)
(* killed or the connection breaks.                                        *)
THEOREM HeadersToldApart == Spec => []FramingKept
<1>1. IInv => FramingKept
  <2>. SUFFICES ASSUME IInv, ~skew, NEW n \in DOMAIN dst \ Old, NEW k \in DOMAIN dst[n]
                PROVE  dst[n][k].at # 0
    BY DEF IInv, FramingKept
  <2>1. PICK f \in Names, l \in Nat : dst[n] = Bytes(f, 0, l)
    BY DEF IInv, Agreed, FilesOK, Sent
  <2>2. k \in 1 .. l /\ dst[n][k].at = 0 + k
    BY <2>1 DEF Bytes
  <2>. QED
    BY <2>2
<1>. QED
  BY <1>1, AlwaysIInv, PTL

(* For any files and packets, and with names that come with the headers: a *)
(* file is there whole or not at all, unless its receiver was killed, as   *)
(* long as stream and headers agree.  (A receiver that is given the name   *)
(* of one file after the other stores the bytes of one under the name of   *)
(* the next when there is an empty one between, for which nothing is sent.)*)
THEOREM FilesWholeOrNotAtAll == ASSUME ByName PROVE Spec => []FilesArriveWhole
<1>1. IInv => FilesArriveWhole
  <2>. SUFFICES ASSUME IInv, NEW n \in DOMAIN dst, ~Receiving(n), n \notin Old, ~skew
                PROVE  /\ dst[n] # <<>> /\ dst[n] = Bytes(n, 0, Len(dst[n]))
                       /\ Len(dst[n]) = stat[n]
    BY DEF IInv, OldKept, FilesArriveWhole
  <2>1. PICK l \in Nat : Sent(n) /\ dst[n] = Bytes(n, 0, l) /\ l = stat[n]
    BY DEF IInv, Agreed, FilesOK, Sent
  <2>2. Len(dst[n]) = l /\ l # 0
    BY <2>1 DEF Bytes, Sent
  <2>3. dst[n] # <<>>
    BY <2>2
  <2>. QED
    BY <2>1, <2>2, <2>3
<1>. QED
  BY <1>1, AlwaysIInv, PTL

(* However RecvFile's caller gives the names: no file is there cut short,  *)
(* as long as stream and headers agree.  What is stored under a name is    *)
(* all of a file that was sent.                                            *)
NoneCutShort ==
  \A n \in DOMAIN dst \ Old :
    skew \/ Receiving(n) \/ \E f \in Names : stat[f] # 0 /\ dst[n] = Bytes(f, 0, stat[f])

(* For any constants, with names from the headers or from the caller:      *)
(* RecvFile leaves nothing behind that is a part of a file.                *)
THEOREM WholeFilesOnly == Spec => []NoneCutShort
<1>1. IInv => NoneCutShort
  <2>. SUFFICES ASSUME IInv, NEW n \in DOMAIN dst \ Old, ~skew, ~Receiving(n)
                PROVE  \E f \in Names : stat[f] # 0 /\ dst[n] = Bytes(f, 0, stat[f])
    BY DEF NoneCutShort
  <2>1. PICK f \in Names : Sent(f) /\ dst[n] = Bytes(f, 0, stat[f])
    BY DEF IInv, Agreed, FilesOK
  <2>. QED
    BY <2>1 DEF Sent
<1>. QED
  BY <1>1, AlwaysIInv, PTL
=============================================================================
