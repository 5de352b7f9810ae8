------------------------------ MODULE MsgQueue ------------------------------
(***************************************************************************)
(* What a DiskQ queue promises: a bounded queue of typed messages.  A      *)
(* message is delivered or removed at most once, in the order of arrival   *)
(* among those its receiver asks for (type 0: any).                        *)
(***************************************************************************)
EXTENDS Integers, Sequences

CONSTANTS Types, Sizes, QBytes, MaxCnt

VARIABLES
  queue,   (* the messages, oldest first                                   *)
  tcnt     (* the unique id the next message gets                          *)

avars == <<queue, tcnt>>

Message == [mtype : Types, mbytes : Sizes, uid : 0 .. MaxCnt]

BytesOf(q) ==
  LET upTo[k \in 0 .. Len(q)] == IF k = 0 THEN 0 ELSE upTo[k - 1] + q[k].mbytes
  IN upTo[Len(q)]

Without(q, k) == [j \in 1 .. Len(q) - 1 |-> IF j < k THEN q[j] ELSE q[j + 1]]

AInit == queue = <<>> /\ tcnt = 0

Put(t, s) ==
  /\ BytesOf(queue) + s <= QBytes
  /\ queue' = Append(queue, [mtype |-> t, mbytes |-> s, uid |-> tcnt])
  /\ tcnt' = (tcnt + 1) % (MaxCnt + 1)

Receive(t) ==
  \E k \in 1 .. Len(queue) :
    /\ t = 0 \/ queue[k].mtype = t
    /\ \A j \in 1 .. k - 1 : t # 0 /\ queue[j].mtype # t
    /\ queue' = Without(queue, k)
    /\ UNCHANGED tcnt

Remove(u) ==
  \E k \in 1 .. Len(queue) :
    /\ queue[k].uid = u
    /\ queue' = Without(queue, k)
    /\ UNCHANGED tcnt

ANext ==
  \/ \E t \in Types, s \in Sizes : Put(t, s)
  \/ \E t \in Types \cup {0} : Receive(t)
  \/ \E u \in 0 .. MaxCnt : Remove(u)

ASpec == AInit /\ [][ANext]_avars

=============================================================================
