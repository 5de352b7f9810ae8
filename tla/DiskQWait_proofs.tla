-------------------------- MODULE DiskQWait_proofs --------------------------
(***************************************************************************)
(* For any number of senders and receivers, and whichever calls signals    *)
(* end: SND_WAIT is never left behind, and held under FLOCK by who looks   *)
(* after its FLOCK; an entry names a process that waits by it, or nobody.  *)
(* If no sender's request for FLOCK is interrupted, a sender does not pass *)
(* those who wait; and nobody waits for what is there, of the senders when *)
(* no waiter is killed, late or interrupted, of the receivers when each    *)
(* asks for types of its own.                                              *)
(*                                                                         *)
(* The invariants build on each other: IInv (who holds FLOCK), LInv (who   *)
(* is on a list, and who holds LOCK), then SInv for the senders and RInv   *)
(* for the receivers.                                                      *)
(***************************************************************************)
EXTENDS DiskQWait, SequenceTheorems, WellFoundedInduction, TLAPS

(* Where a process of either kind has asked for FLOCK and not yet given it *)
(* up, and where a sender may have SND_WAIT besides.                       *)
Locked == {"find", "main", "full", "sndwait", "sndfail", "enq", "scan", "rcvwait", "rcvfail"}
Sending == {"main", "full"}

Functions ==
  /\ pc \in [Procs -> Labels]
  /\ flag \in [Procs -> BOOLEAN]

(* Who asks for FLOCK again after a wait is given it, unless interrupted;  *)
(* whoever looks at the result has it for sure.                            *)
Relocks(p) == <<p, "fcntl">> \notin Interrupts

Holding(p) ==
  \/ pc[p] \in {"find", "enq", "scan"}
  \/ pc[p] \in Sending /\ ~flag[p]
  \/ pc[p] \in Locked /\ Relocks(p)

FlockHeld == \A p \in Procs : Holding(p) => flock = p

(* The holder of SND_WAIT is a sender that was woken and has not left its  *)
(* loop; its flag says that it has to give SND_WAIT back.                  *)
HolderWillRelease ==
  sndw # NoProc => sndw \in Senders /\ flag[sndw] /\ pc[sndw] \in Sending

IInv == Functions /\ FlockHeld /\ HolderWillRelease

LEMMA HeldUnderFLOCK == IInv => SndWaitUnderFLOCK
BY DEF IInv, FlockHeld, Holding, Relocks, HolderWillRelease, SndWaitUnderFLOCK, Locked,
       Sending, Procs

LEMMA InitInv == Init => IInv
<1>. SUFFICES ASSUME Init PROVE IInv
  OBVIOUS
<1>1. Functions
  BY DEF Init, Functions, Labels, AfterFLOCK
<1>2. FlockHeld /\ HolderWillRelease
  BY DEF Init, FlockHeld, Holding, HolderWillRelease, Locked, Sending
<1>. QED
  BY <1>1, <1>2 DEF IInv

----------------------------------------------------------------------------
(* A step of one process, which gives up FLOCK only when it has it and     *)
(* leaves, and keeps SND_WAIT only inside its loop.                        *)
LEMMA OneMoves ==
  ASSUME IInv, NEW p \in Procs, NEW to \in Labels, Goto(p, to),
         flag' = flag \/ \E b \in BOOLEAN : flag' = [flag EXCEPT ![p] = b],
         Holding(p)' => Holding(p),
         flock' = flock \/ (flock = p /\ ~Holding(p)'),
         sndw' \in {sndw, NoProc},
         p \in Senders /\ sndw' = p => to \in Sending /\ flag'[p]
  PROVE  IInv'
<1>. USE DEF IInv, Functions, Goto
<1>1. /\ Functions'
      /\ \A q \in Procs \ {p} : pc'[q] = pc[q] /\ flag'[q] = flag[q]
      /\ pc'[p] = to
  OBVIOUS
<1>2. FlockHeld'
  <2>. SUFFICES ASSUME NEW q \in Procs, Holding(q)' PROVE flock' = q
    BY DEF FlockHeld
  <2>1. Holding(q)
    BY <1>1 DEF Holding
  <2>. QED
    BY <2>1 DEF FlockHeld
<1>3. HolderWillRelease'
  BY <1>1 DEF HolderWillRelease, Procs
<1>. QED
  BY <1>1, <1>2, <1>3

(* The same when it goes where FLOCK is not needed.                        *)
LEMMA OneLeaves ==
  ASSUME IInv, NEW p \in Procs, NEW to \in Labels \ Locked, Goto(p, to),
         flag' = flag \/ \E b \in BOOLEAN : flag' = [flag EXCEPT ![p] = b],
         flock' = flock \/ FUNLOCK(p),
         sndw' = sndw \/ sndw' = NoProc,
         p \in Senders /\ pc[p] \in Sending => sndw' = IF flag[p] THEN NoProc ELSE sndw
  PROVE  IInv'
<1>1. pc'[p] = to
  BY DEF Goto, IInv, Functions
<1>2. ~Holding(p)'
  BY <1>1 DEF Holding, Locked, Sending
<1>3. ~(p \in Senders /\ sndw' = p)
  BY ProcsAssumption DEF IInv, HolderWillRelease, Procs
<1>4. flock' = flock \/ flock = p
  BY DEF FUNLOCK
<1>. QED
  BY <1>2, <1>3, <1>4, OneMoves

(* LOCK is taken and a FIFO opened.                                        *)
LEMMA OpenKeeps ==
  ASSUME IInv, NEW w \in Procs, pc[w] \in {"wakercv", "wakesnd"}, NEW k, NEW p,
         NEW where \in {"selrcv", "selsnd"}, OpenWith(w, k, p, where)
  PROVE  IInv'
<1>. USE DEF OpenWith, IInv, Functions, At
<1>1. Functions'
  BY DEF Labels, AfterFLOCK
<1>2. \A q \in Procs : Holding(q)' => Holding(q)
  BY DEF Holding, Locked, Sending
<1>3. \A q \in Senders : pc[q] \in Sending => pc'[q] = pc[q]
  BY DEF Sending, Procs
<1>. QED
  BY <1>1, <1>2, <1>3 DEF FlockHeld, HolderWillRelease

----------------------------------------------------------------------------
LEMMA SndStepKeeps ==
  ASSUME IInv, NEW s \in Senders,
         SndStep(s) \/ FindInterrupted(s) \/ SndWaitInterrupted(s)
  PROVE  IInv'
<1>. USE DEF At, Locked, Sending, Labels, AfterFLOCK
<1>0. s \in Procs
  BY DEF Procs
<1>1. CASE FindSndWait(s)
  <2>1. PICK to \in {"main", "full"} : Goto(s, to) /\ pc[s] = "find" /\ UNCHANGED <<flag, flock, sndw>>
    BY <1>1 DEF FindSndWait, locks
  <2>2. ~(sndw' = s)
    BY <1>0, <2>1, ProcsAssumption DEF IInv, HolderWillRelease
  <2>. QED
    BY <1>0, <2>1, <2>2, OneMoves DEF Holding
<1>2. ASSUME NEW to \in {"wakercv", "wakesnd", "open"}, LeaveSnd(s, to) PROVE IInv'
  BY <1>0, <1>2, OneLeaves DEF LeaveSnd
<1>3. CASE SndNoRoom(s)
  <2>1. Goto(s, "full") /\ pc[s] = "main" /\ UNCHANGED <<flag, flock, sndw>>
    BY <1>3 DEF SndNoRoom, locks
  <2>2. Holding(s)' => Holding(s)
    BY <1>0, <2>1 DEF Holding, Relocks, Goto, IInv, Functions
  <2>3. sndw' = s => flag[s]
    BY <1>0, <2>1, ProcsAssumption DEF IInv, HolderWillRelease
  <2>. QED
    BY <1>0, <2>1, <2>2, <2>3, OneMoves
<1>4. CASE SndWaitLock(s)
  <2>. USE <1>4 DEF SndWaitLock, IInv, Functions, Goto
  <2>1. /\ Functions' /\ pc'[s] = "main" /\ flag'[s]
        /\ \A q \in Procs \ {s} : pc'[q] = pc[q] /\ flag'[q] = flag[q]
    BY <1>0
  <2>2. \A q \in Procs : Holding(q)' => Holding(q)
    BY <2>1 DEF Holding
  <2>3. FlockHeld' /\ HolderWillRelease'
    BY <1>0, <2>1, <2>2 DEF FlockHeld, HolderWillRelease
  <2>. QED
    BY <2>1, <2>3
<1>5. CASE WakeupRcv(s)
  <2>1. CASE UNCHANGED <<flag, flock, sndw>> /\ Goto(s, "wakesnd")
    BY <1>0, <1>5, <2>1, OneLeaves DEF WakeupRcv
  <2>2. ASSUME NEW k \in Nat \cup DOMAIN rcvq, OpenWith(s, k, rcvq[k].of, "selrcv") PROVE IInv'
    BY <1>0, <1>5, <2>2, OpenKeeps DEF WakeupRcv
  <2>. QED
    BY <1>5, <2>1, <2>2 DEF WakeupRcv, locks, Oldest, Interested
<1>6. CASE FindInterrupted(s)
  BY <1>0, <1>6, OneLeaves DEF FindInterrupted, Return, locks
<1>7. CASE ~FindInterrupted(s) /\ ~WakeupRcv(s) /\ ~SndNoRoom(s) /\ ~FindSndWait(s) /\ ~SndWaitLock(s)
  <2>1. \E to \in {"wakercv", "wakesnd", "open"} : LeaveSnd(s, to)
    BY <1>7 DEF SndStep, SndMain, SndNoWait, SndInterrupted, SndWaitFailed, WaitForSnd, SndWaitInterrupted
  <2>. QED
    BY <1>2, <2>1
<1>. QED
  BY <1>1, <1>3, <1>4, <1>5, <1>6, <1>7

LEMMA RcvStepKeeps ==
  ASSUME IInv, NEW r \in Receivers,
         RcvStep(r) \/ RcvWaitNotLocked(r) \/ LookInterrupted(r)
  PROVE  IInv'
<1>. USE DEF At, Locked, Sending, Labels, AfterFLOCK
<1>0. r \in Procs /\ r \notin Senders
  BY ProcsAssumption DEF Procs
<1>1. CASE FoundNothing(r)
  <2>1. Goto(r, "enq") /\ pc[r] = "scan" /\ UNCHANGED <<flag, flock, sndw>>
    BY <1>1 DEF FoundNothing, locks
  <2>2. Holding(r)
    BY <2>1 DEF Holding
  <2>. QED
    BY <1>0, <2>1, <2>2, OneMoves
<1>2. CASE ~FoundNothing(r)
  <2>1. PICK to \in {"look", "ask0", "ask", "wakesnd", "idle", "open"} : Goto(r, to)
    BY <1>2 DEF RcvStep, RcvWaitLock, RcvWaitNotLocked, LookAtWaiters, LookInterrupted,
                RcvWaitRelock, Receive, TooLong, NoMsg, RcvInterrupted, RcvWaitFailed,
                WaitForRcv, WaitForRcvFails, Return
  <2>2. sndw' = sndw /\ (flock' = flock \/ FUNLOCK(r))
    BY <1>2 DEF RcvStep, RcvWaitLock, RcvWaitNotLocked, LookAtWaiters, LookInterrupted,
                RcvWaitRelock, Receive, TooLong, NoMsg, RcvInterrupted, RcvWaitFailed,
                WaitForRcv, WaitForRcvFails, locks
  <2>3. flag' = flag \/ \E b \in BOOLEAN : flag' = [flag EXCEPT ![r] = b]
    BY <1>2 DEF RcvStep, RcvWaitLock, RcvWaitNotLocked, LookAtWaiters, LookInterrupted,
                RcvWaitRelock, Receive, TooLong, NoMsg, RcvInterrupted, RcvWaitFailed,
                WaitForRcv, WaitForRcvFails, Return
  <2>. QED
    BY <1>0, <2>1, <2>2, <2>3, OneLeaves
<1>. QED
  BY <1>1, <1>2

LEMMA AnyStepKeeps ==
  ASSUME IInv, NEW p \in Procs,
         \/ AnyStep(p) \/ Kill(p)
         \/ FlockInterrupted(p) \/ OpenInterrupted(p) \/ SelectInterrupted(p)
  PROVE  IInv'
<1>. USE DEF At, Locked, Sending, Labels, AfterFLOCK
<1>1. CASE FLOCK(p)
  <2>. USE <1>1 DEF FLOCK, IInv, Functions, Goto
  <2>1. /\ Functions' /\ pc[p] \notin Locked
        /\ \A q \in Procs \ {p} : pc'[q] = pc[q] /\ flag'[q] = flag[q]
    OBVIOUS
  <2>2. FlockHeld'
    <3>. SUFFICES ASSUME NEW q \in Procs \ {p}, Holding(q)' PROVE FALSE
      BY DEF FlockHeld
    <3>1. Holding(q)
      BY <2>1 DEF Holding
    <3>. QED
      BY <3>1, ProcsAssumption DEF FlockHeld
  <2>3. HolderWillRelease'
    BY <2>1 DEF HolderWillRelease, Procs
  <2>. QED
    BY <2>1, <2>2, <2>3
<1>2. CASE FlockInterrupted(p)
  <2>1. CASE pc[p] \in LooksAtFLOCK
    BY <1>2, <2>1, OneLeaves DEF FlockInterrupted, LooksAtFLOCK, Return, locks
  <2>2. CASE pc[p] \notin LooksAtFLOCK
    <3>1. PICK to \in {"sndwait", "sndfail", "rcvwait", "rcvfail"} : Goto(p, to)
      BY <1>2, <2>2 DEF FlockInterrupted, LooksAtFLOCK
    <3>2. UNCHANGED <<flag, flock, sndw>> /\ ~Relocks(p) /\ pc[p] \notin Sending
      BY <1>2, <2>2 DEF FlockInterrupted, Relocks, locks
    <3>3. ~Holding(p)'
      BY <3>1, <3>2 DEF Holding, Relocks, Goto, IInv, Functions
    <3>4. ~(sndw' = p)
      BY <3>2, ProcsAssumption DEF IInv, HolderWillRelease, Procs
    <3>. QED
      BY <3>1, <3>2, <3>3, <3>4, OneMoves
  <2>. QED
    BY <2>1, <2>2
<1>3. CASE WakeupSnd(p) /\ sndq # <<>>
  BY <1>3, OpenKeeps DEF WakeupSnd
<1>4. CASE OpenFifo(p) \/ WriteFifo(p) \/ Kill(p) \/ OpenInterrupted(p) \/ GiveUp(p) \/ Shut(p)
  <2>1. PICK to \in Labels \ Locked : Goto(p, to)
    BY <1>4 DEF OpenFifo, WriteFifo, Kill, OpenInterrupted, GiveUp, Shut
  <2>2. UNCHANGED <<flag, flock, sndw>> /\ pc[p] \notin Sending
    BY <1>4 DEF OpenFifo, WriteFifo, Kill, OpenInterrupted, GiveUp, Shut, DropTarget, locks
  <2>. QED
    BY <2>1, <2>2, OneLeaves
<1>5. CASE Readable(p) \/ (WakeupSnd(p) /\ sndq = <<>>)
  <2>1. PICK to \in {"wakesnd", "idle"} : Goto(p, to)
    BY <1>5 DEF Readable, WakeupSnd, Return
  <2>2. UNCHANGED <<flock, sndw>> /\ pc[p] \notin Sending
    BY <1>5 DEF Readable, WakeupSnd, DropTarget, locks
  <2>3. flag' = flag \/ \E b \in BOOLEAN : flag' = [flag EXCEPT ![p] = b]
    BY <1>5 DEF Readable, WakeupSnd, Return
  <2>. QED
    BY <2>1, <2>2, <2>3, OneLeaves
<1>. QED
  BY <1>1, <1>2, <1>3, <1>4, <1>5 DEF AnyStep, TimedOut, SelectInterrupted

LEMMA CallKeeps == IInv /\ Call => IInv'
<1>. SUFFICES ASSUME IInv, Call PROVE IInv'
  OBVIOUS
<1>. USE DEF At, Locked, Sending, Labels, AfterFLOCK, locks
<1>1. ASSUME NEW s \in Senders, NEW a \in SndArg, Snd(s, a) PROVE IInv'
  BY <1>1, OneLeaves DEF Snd, Procs
<1>2. ASSUME NEW r \in Receivers, NEW a \in RcvArg(r), Rcv(r, a) PROVE IInv'
  BY <1>2, OneLeaves DEF Rcv, Procs
<1>. QED
  BY <1>1, <1>2 DEF Call

(* Every step, and every state.                                            *)
LEMMA StepKeepsLocks == IInv /\ [Next]_vars => IInv'
<1>. SUFFICES ASSUME IInv, [Next]_vars PROVE IInv'
  OBVIOUS
<1>1. CASE Call
  BY <1>1, CallKeeps
<1>2. ASSUME NEW p \in Procs, Step(p) \/ Kill(p) \/ Interrupted(p) PROVE IInv'
  BY <1>2, SndStepKeeps, RcvStepKeeps, AnyStepKeeps DEF Step, Interrupted
<1>3. CASE UNCHANGED vars
  BY <1>3 DEF vars, IInv, Functions, FlockHeld, Holding, HolderWillRelease
<1>. QED
  BY <1>1, <1>2, <1>3 DEF Next

LEMMA LocksAlways == Spec => []IInv
BY InitInv, StepKeepsLocks, PTL DEF Spec

(* Whatever fails and whoever is interrupted, SND_WAIT is never left with  *)
(* a process that has left d_msgsnd; and a sender whose own request for    *)
(* FLOCK is not interrupted has SND_WAIT under FLOCK only, whatever becomes*)
(* of the others.                                                          *)
THEOREM SndWaitReleased == Spec => []SndWaitUnderFLOCK
BY LocksAlways, HeldUnderFLOCK, PTL

----------------------------------------------------------------------------
(* The arguments of a call stay those it was made with.                    *)
Asked ==
  /\ DOMAIN arg = Procs
  /\ \A s \in Senders : pc[s] # "idle" => arg[s] \in SndArg
  /\ \A r \in Receivers : pc[r] # "idle" => arg[r] \in RcvArg(r)

LEMMA InitAsked == Init => Asked
BY DEF Init, Asked, Procs

(* A step that makes no call leaves the arguments alone, or returns.       *)
LEMMA ArgsAlone ==
  ASSUME IInv, Asked, \A x \in Procs : pc[x] = "idle" => pc'[x] = "idle",
         arg' = arg \/ \E p \in Procs : Return(p)
  PROVE  Asked'
<1>1. CASE arg' = arg
  BY <1>1 DEF Asked, Procs
<1>2. ASSUME NEW p \in Procs, Return(p) PROVE Asked'
  BY <1>2 DEF Return, Goto, Asked, IInv, Functions, Procs
<1>. QED
  BY <1>1, <1>2

LEMMA StepKeepsAsked == IInv /\ Asked /\ [Next]_vars => Asked'
<1>. SUFFICES ASSUME IInv, Asked, [Next]_vars PROVE Asked'
  OBVIOUS
<1>1. ASSUME NEW s \in Senders, NEW a \in SndArg, Snd(s, a) PROVE Asked'
  BY <1>1, ProcsAssumption DEF Snd, At, Goto, Asked, IInv, Functions, Procs
<1>2. ASSUME NEW r \in Receivers, NEW a \in RcvArg(r), Rcv(r, a) PROVE Asked'
  BY <1>2, ProcsAssumption DEF Rcv, At, Goto, Asked, IInv, Functions, Procs
<1>3. ASSUME NEW s \in Senders, SndStep(s) \/ FindInterrupted(s) \/ SndWaitInterrupted(s) PROVE Asked'
  <2>1. pc[s] # "idle" /\ s \in Procs
    BY <1>3 DEF SndStep, FindSndWait, SndMain, SndNoRoom, SndInterrupted, SndNoWait, WaitForSnd,
                SndWaitLock, SndWaitFailed, WakeupRcv, FindInterrupted, SndWaitInterrupted, At, Procs
  <2>2. arg' = arg \/ Return(s)
    BY <1>3 DEF SndStep, FindSndWait, SndMain, SndNoRoom, SndInterrupted, SndNoWait, WaitForSnd,
                SndWaitLock, SndWaitFailed, WakeupRcv, FindInterrupted, SndWaitInterrupted,
                LeaveSnd, OpenWith
  <2>3. CASE \E to \in Labels : Goto(s, to)
    BY <2>1, <2>2, <2>3, ArgsAlone DEF Goto, IInv, Functions
  <2>4. CASE \A to \in Labels : ~Goto(s, to)
    <3>1. \E k, p : OpenWith(s, k, p, "selrcv")
      BY <1>3, <2>4 DEF SndStep, FindSndWait, SndMain, SndNoRoom, SndInterrupted, SndNoWait,
                WaitForSnd, SndWaitLock, SndWaitFailed, WakeupRcv, FindInterrupted,
                SndWaitInterrupted, LeaveSnd, Return, Labels, AfterFLOCK
    <3>. QED
      BY <2>1, <2>2, <3>1, ArgsAlone DEF OpenWith, At, IInv, Functions
  <2>. QED
    BY <2>3, <2>4
<1>4. ASSUME NEW r \in Receivers, RcvStep(r) \/ RcvWaitNotLocked(r) \/ LookInterrupted(r) PROVE Asked'
  <2>1. pc[r] # "idle" /\ r \in Procs
    BY <1>4 DEF RcvStep, RcvWaitLock, RcvWaitNotLocked, LookAtWaiters, LookInterrupted,
                FoundNothing, RcvWaitRelock, Receive, TooLong, NoMsg, RcvInterrupted,
                RcvWaitFailed, WaitForRcv, At, Procs
  <2>2. (arg' = arg \/ Return(r)) /\ \E to : Goto(r, to)
    BY <1>4 DEF RcvStep, RcvWaitLock, RcvWaitNotLocked, LookAtWaiters, LookInterrupted,
                FoundNothing, RcvWaitRelock, Receive, TooLong, NoMsg, RcvInterrupted,
                RcvWaitFailed, WaitForRcv, WaitForRcvFails, Return
  <2>. QED
    BY <2>1, <2>2, ArgsAlone DEF Goto, IInv, Functions
<1>5. ASSUME NEW p \in Procs,
             \/ AnyStep(p) \/ Kill(p)
             \/ FlockInterrupted(p) \/ OpenInterrupted(p) \/ SelectInterrupted(p)
      PROVE  Asked'
  <2>1. pc[p] # "idle"
    BY <1>5 DEF AnyStep, FLOCK, OpenFifo, WriteFifo, WakeupSnd, Readable, TimedOut, GiveUp, Shut,
                Kill, FlockInterrupted, OpenInterrupted, SelectInterrupted, At, AfterFLOCK
  <2>2. arg' = arg \/ Return(p)
    BY <1>5 DEF AnyStep, FLOCK, OpenFifo, WriteFifo, WakeupSnd, Readable, TimedOut, GiveUp, Shut,
                Kill, FlockInterrupted, OpenInterrupted, SelectInterrupted, OpenWith
  <2>3. (\E to : Goto(p, to)) \/ \E k, x : OpenWith(p, k, x, "selsnd")
    BY <1>5 DEF AnyStep, FLOCK, OpenFifo, WriteFifo, WakeupSnd, Readable, TimedOut, GiveUp, Shut,
                Kill, FlockInterrupted, OpenInterrupted, SelectInterrupted, Return
  <2>. QED
    BY <2>1, <2>2, <2>3, ArgsAlone DEF Goto, OpenWith, At, IInv, Functions
<1>6. CASE UNCHANGED vars
  BY <1>6 DEF vars, Asked
<1>. QED
  BY <1>1, <1>2, <1>3, <1>4, <1>5, <1>6 DEF Next, Call, Step, Interrupted

LEMMA AskedAlways == Spec => []Asked
BY InitAsked, LocksAlways, StepKeepsAsked, PTL DEF Spec

----------------------------------------------------------------------------
(* Lists of waiters: the order is kept, and who is on one.                 *)
RcvEntries == [of : Receivers \cup {NoProc}, mtype : Int]
SndEntries == [of : Senders \cup {NoProc}]

(* Taking an entry out moves those behind it up by one.                    *)
LEMMA WithoutPlaces ==
  ASSUME NEW S, NEW q \in Seq(S), NEW k \in 1 .. Len(q)
  PROVE  /\ Without(q, k) \in Seq(S)
         /\ Len(Without(q, k)) = Len(q) - 1
         /\ \A i \in 1 .. Len(q) - 1 : Without(q, k)[i] = q[IF i < k THEN i ELSE i + 1]
<1>. DEFINE a == SubSeq(q, 1, k - 1)
            b == SubSeq(q, k + 1, Len(q))
<1>1. Len(q) \in Nat /\ k \in Nat
  BY LenProperties
<1>2. \A i \in 1 .. Len(q) : q[i] \in S
  BY ElementOfSeq
<1>3. /\ a \in Seq(S) /\ Len(a) = k - 1
      /\ \A i \in 1 .. k - 1 : a[i] = q[i]
  <2>1. \A i \in 1 .. k - 1 : q[i] \in S
    BY <1>1, <1>2
  <2>2. /\ a \in Seq(S)
        /\ Len(a) = IF 1 <= k - 1 THEN (k - 1) - 1 + 1 ELSE 0
        /\ \A i \in 1 .. (k - 1) - 1 + 1 : a[i] = q[1 + i - 1]
    BY <2>1, <1>1, SubSeqProperties, 1 \in Int, k - 1 \in Int
  <2>. QED
    BY <2>2, <1>1
<1>4. /\ b \in Seq(S) /\ Len(b) = Len(q) - k
      /\ \A i \in 1 .. Len(q) - k : b[i] = q[k + i]
  <2>1. \A i \in k + 1 .. Len(q) : q[i] \in S
    BY <1>1, <1>2
  <2>2. /\ b \in Seq(S)
        /\ Len(b) = IF k + 1 <= Len(q) THEN Len(q) - (k + 1) + 1 ELSE 0
        /\ \A i \in 1 .. Len(q) - (k + 1) + 1 : b[i] = q[(k + 1) + i - 1]
    BY <2>1, <1>1, SubSeqProperties, k + 1 \in Int, Len(q) \in Int
  <2>. QED
    BY <2>2, <1>1
<1>5. Without(q, k) = a \o b
  BY DEF Without
<1>. HIDE DEF a, b
<1>6. /\ a \o b \in Seq(S) /\ Len(a \o b) = Len(a) + Len(b)
      /\ \A i \in 1 .. Len(a) + Len(b) :
           (a \o b)[i] = IF i <= Len(a) THEN a[i] ELSE b[i - Len(a)]
  BY <1>3, <1>4, ConcatProperties
<1>7. ASSUME NEW i \in 1 .. Len(q) - 1
      PROVE  (a \o b)[i] = q[IF i < k THEN i ELSE i + 1]
  <2>1. CASE i < k
    BY <2>1, <1>1, <1>3, <1>4, <1>6
  <2>2. CASE ~(i < k)
    <3>1. /\ i - (k - 1) \in 1 .. Len(q) - k
          /\ k + (i - (k - 1)) = i + 1
          /\ i \in 1 .. (k - 1) + (Len(q) - k) /\ ~(i <= k - 1) /\ ~(i < k)
      BY <2>2, <1>1
    <3>2. (a \o b)[i] = b[i - (k - 1)]
      BY <3>1, <1>3, <1>4, <1>6
    <3>3. b[i - (k - 1)] = q[i + 1]
      BY <3>1, <1>4
    <3>. QED
      BY <3>1, <3>2, <3>3
  <2>. QED
    BY <2>1, <2>2
<1>. QED
  BY <1>1, <1>3, <1>4, <1>5, <1>6, <1>7

(* The entry at place k goes; the others stay as they are.                 *)
LEMMA DropOnce ==
  ASSUME NEW S, NEW q \in Seq(S), NEW k \in DOMAIN q, Once(q)
  PROVE  /\ Without(q, k) \in Seq(S)
         /\ Once(Without(q, k))
         /\ \A i \in DOMAIN Without(q, k) : \E j \in DOMAIN q : j # k /\ Without(q, k)[i] = q[j]
         /\ \A x : OnList(x, Without(q, k)) => OnList(x, q)
         /\ \A x : OnList(x, q) /\ x # q[k].of => OnList(x, Without(q, k))
         /\ q[k].of # NoProc => ~OnList(q[k].of, Without(q, k))
<1>. DEFINE r == Without(q, k)
            at(n) == IF n < k THEN n ELSE n + 1
<1>1. Len(q) \in Nat /\ DOMAIN q = 1 .. Len(q) /\ k \in 1 .. Len(q)
  BY LenProperties
<1>2. /\ r \in Seq(S) /\ Len(r) = Len(q) - 1
      /\ \A i \in 1 .. Len(q) - 1 : r[i] = q[IF i < k THEN i ELSE i + 1]
  BY <1>1, WithoutPlaces
<1>. HIDE DEF r
<1>3. DOMAIN r = 1 .. Len(q) - 1
  BY <1>2, LenProperties
<1>4. ASSUME NEW i \in 1 .. Len(q) - 1
      PROVE  at(i) \in 1 .. Len(q) /\ at(i) # k /\ r[i] = q[at(i)]
  BY <1>1, <1>2
<1>5. ASSUME NEW i \in 1 .. Len(q) - 1, NEW j \in 1 .. Len(q) - 1, at(i) = at(j) PROVE i = j
  BY <1>1, <1>5
<1>6. \A i, j \in 1 .. Len(q) : q[i].of = q[j].of /\ q[i].of # NoProc => i = j
  BY <1>1 DEF Once
<1>7. Once(r)
  <2>. SUFFICES ASSUME NEW i \in 1 .. Len(q) - 1, NEW j \in 1 .. Len(q) - 1,
                       r[i].of = r[j].of, r[i].of # NoProc
                PROVE  i = j
    BY <1>3 DEF Once
  <2>. HIDE DEF at
  <2>1. at(i) = at(j)
    BY <1>4, <1>6
  <2>. QED
    BY <1>5, <2>1
<1>8. \A i \in DOMAIN r : \E j \in DOMAIN q : j # k /\ r[i] = q[j]
  BY <1>1, <1>3, <1>4
<1>9. \A x : OnList(x, r) => OnList(x, q)
  BY <1>8 DEF OnList
<1>10. ASSUME NEW x, OnList(x, q), x # q[k].of PROVE OnList(x, r)
  <2>1. PICK j \in 1 .. Len(q) : q[j].of = x
    BY <1>1, <1>10 DEF OnList
  <2>2. j # k
    BY <1>10, <2>1
  <2>3. CASE j < k
    BY <1>1, <1>2, <1>3, <2>1, <2>3 DEF OnList
  <2>4. CASE j > k
    <3>1. j - 1 \in 1 .. Len(q) - 1 /\ ~(j - 1 < k) /\ (j - 1) + 1 = j
      BY <1>1, <2>1, <2>4
    <3>. QED
      BY <1>2, <1>3, <2>1, <3>1 DEF OnList
  <2>. QED
    BY <1>1, <2>1, <2>2, <2>3, <2>4
<1>11. ASSUME q[k].of # NoProc, OnList(q[k].of, r) PROVE FALSE
  BY <1>1, <1>6, <1>8, <1>11 DEF OnList
<1>. QED
  BY <1>2, <1>7, <1>8, <1>9, <1>10, <1>11 DEF r

(* Joining at either end puts an entry on the list.                        *)
LEMMA AppendOnce ==
  ASSUME NEW S, NEW q \in Seq(S), NEW e \in S, Once(q), ~OnList(e.of, q)
  PROVE  /\ Append(q, e) \in Seq(S)
         /\ Once(Append(q, e))
         /\ \A i \in DOMAIN Append(q, e) : Append(q, e)[i] = e \/ \E j \in DOMAIN q : Append(q, e)[i] = q[j]
         /\ \A x : OnList(x, Append(q, e)) <=> OnList(x, q) \/ x = e.of
<1>. DEFINE r == Append(q, e)
<1>1. Len(q) \in Nat /\ DOMAIN q = 1 .. Len(q)
  BY LenProperties
<1>2. /\ r \in Seq(S) /\ Len(r) = Len(q) + 1
      /\ \A i \in 1 .. Len(q) : r[i] = q[i]
      /\ r[Len(q) + 1] = e
  BY AppendProperties
<1>. HIDE DEF r
<1>3. DOMAIN r = 1 .. Len(q) + 1
  BY <1>2, LenProperties
<1>4. \A i \in DOMAIN r : i = Len(q) + 1 \/ i \in DOMAIN q
  BY <1>1, <1>3
<1>5. Once(r)
  BY <1>1, <1>2, <1>4 DEF Once, OnList
<1>6. \A x : OnList(x, r) <=> OnList(x, q) \/ x = e.of
  BY <1>1, <1>2, <1>3, <1>4 DEF OnList
<1>7. \A i \in DOMAIN r : r[i] = e \/ \E j \in DOMAIN q : r[i] = q[j]
  BY <1>1, <1>2, <1>4
<1>. QED
  BY <1>2, <1>5, <1>6, <1>7 DEF r

LEMMA PrependOnce ==
  ASSUME NEW S, NEW q \in Seq(S), NEW e \in S, Once(q), ~OnList(e.of, q)
  PROVE  /\ <<e>> \o q \in Seq(S) /\ Len(<<e>> \o q) = 1 + Len(q)
         /\ (<<e>> \o q)[1] = e
         /\ \A i \in 1 .. Len(q) : (<<e>> \o q)[i + 1] = q[i]
         /\ Once(<<e>> \o q)
         /\ \A x : OnList(x, <<e>> \o q) <=> OnList(x, q) \/ x = e.of
<1>. DEFINE o == <<e>>
            r == o \o q
<1>1. Len(q) \in Nat /\ DOMAIN q = 1 .. Len(q)
  BY LenProperties
<1>2. o \in Seq(S) /\ Len(o) = 1 /\ o[1] = e
  OBVIOUS
<1>. HIDE DEF o
<1>3. /\ r \in Seq(S) /\ Len(r) = 1 + Len(q)
      /\ \A i \in 1 .. 1 + Len(q) : r[i] = IF i <= 1 THEN o[i] ELSE q[i - 1]
  <2>1. /\ r \in Seq(S) /\ Len(r) = Len(o) + Len(q)
        /\ \A i \in 1 .. Len(o) + Len(q) : r[i] = IF i <= Len(o) THEN o[i] ELSE q[i - Len(o)]
    BY <1>2, ConcatProperties
  <2>. QED
    BY <1>2, <2>1
<1>. HIDE DEF r
<1>4. DOMAIN r = 1 .. 1 + Len(q)
  BY <1>3, LenProperties
<1>5. r[1] = e /\ \A i \in 1 .. Len(q) : r[i + 1] = q[i]
  BY <1>1, <1>2, <1>3
<1>6. ASSUME NEW i \in DOMAIN r, i # 1 PROVE i - 1 \in 1 .. Len(q) /\ r[i] = q[i - 1]
  BY <1>1, <1>3, <1>4, <1>6
<1>7. Once(r)
  <2>1. \A i, j \in 1 .. Len(q) : q[i].of = q[j].of /\ q[i].of # NoProc => i = j
    BY <1>1 DEF Once
  <2>2. \A i \in 1 .. Len(q) : q[i].of # e.of
    BY <1>1 DEF OnList
  <2>3. ASSUME NEW i \in DOMAIN r, NEW j \in DOMAIN r, r[i].of = r[j].of, r[i].of # NoProc
        PROVE  i = j
    <3>1. CASE i = 1 \/ j = 1
      BY <1>5, <1>6, <2>2, <2>3, <3>1
    <3>2. CASE i # 1 /\ j # 1
      <4>1. i - 1 = j - 1
        BY <1>6, <2>1, <2>3, <3>2
      <4>. QED
        BY <4>1, <1>1, <1>4
    <3>. QED
      BY <3>1, <3>2
  <2>. QED
    BY <2>3 DEF Once
<1>8. ASSUME NEW x PROVE OnList(x, r) <=> OnList(x, q) \/ x = e.of
  <2>1. ASSUME OnList(x, q) PROVE OnList(x, r)
    <3>1. PICK i \in 1 .. Len(q) : q[i].of = x
      BY <2>1, <1>1 DEF OnList
    <3>2. i + 1 \in 1 .. 1 + Len(q) /\ r[i + 1] = q[i]
      BY <1>1, <1>5
    <3>. QED
      BY <1>4, <3>1, <3>2 DEF OnList
  <2>2. OnList(e.of, r)
    BY <1>1, <1>4, <1>5 DEF OnList
  <2>3. OnList(x, r) => OnList(x, q) \/ x = e.of
    BY <1>1, <1>5, <1>6 DEF OnList
  <2>. QED
    BY <2>1, <2>2, <2>3
<1>. QED
  BY <1>3, <1>5, <1>7, <1>8 DEF r, o

(* A process leaves its entry behind, which is nobody's from then on.      *)
LEMMA AbandonOnce ==
  ASSUME NEW S \in {RcvEntries, SndEntries}, NEW q \in Seq(S), NEW p \in Procs, Once(q)
  PROVE  /\ Abandoned(q, p) \in Seq(S)
         /\ DOMAIN Abandoned(q, p) = DOMAIN q
         /\ \A k \in DOMAIN q :
              /\ Abandoned(q, p)[k].of = IF q[k].of = p THEN NoProc ELSE q[k].of
              /\ S = RcvEntries => Abandoned(q, p)[k].mtype = q[k].mtype
         /\ Once(Abandoned(q, p))
         /\ \A x : x # NoProc => (OnList(x, Abandoned(q, p)) <=> OnList(x, q) /\ x # p)
<1>. DEFINE r == Abandoned(q, p)
<1>1. /\ Len(q) \in Nat /\ DOMAIN q = 1 .. Len(q)
      /\ \A k \in DOMAIN q : q[k] \in S
  BY LenProperties, ElementOfSeq
<1>2. DOMAIN r = DOMAIN q
  BY DEF Abandoned
<1>3. ASSUME NEW k \in DOMAIN q
      PROVE  /\ r[k] \in S
             /\ r[k].of = IF q[k].of = p THEN NoProc ELSE q[k].of
             /\ S = RcvEntries => r[k].mtype = q[k].mtype
  <2>1. r[k] = IF q[k].of = p THEN [q[k] EXCEPT !.of = NoProc] ELSE q[k]
    BY DEF Abandoned
  <2>2. CASE S = RcvEntries
    BY <1>1, <2>1, <2>2 DEF RcvEntries
  <2>3. CASE S # RcvEntries
    BY <1>1, <2>1, <2>3 DEF SndEntries
  <2>. QED
    BY <2>2, <2>3
<1>4. r \in Seq(S)
  <2>1. r = [k \in 1 .. Len(q) |-> r[k]]
    BY <1>1 DEF Abandoned
  <2>2. \A k \in 1 .. Len(q) : r[k] \in S
    BY <1>1, <1>3
  <2>. HIDE DEF r
  <2>. QED
    BY <1>1, <2>1, <2>2
<1>. HIDE DEF r
<1>5. Once(r)
  BY <1>2, <1>3 DEF Once
<1>6. \A x : x # NoProc => (OnList(x, r) <=> OnList(x, q) /\ x # p)
  BY <1>2, <1>3 DEF OnList
<1>. QED
  BY <1>2, <1>3, <1>4, <1>5, <1>6 DEF r

(* A set of numbers that is not empty has a least one: the library proves  *)
(* that < is well-founded.                                                 *)
Below == {ss \in Nat \X Nat : ss[1] < ss[2]}

LEMMA BelowIsWellFounded == IsWellFoundedOn(Below, Nat)
BY NatLessThanWellFounded DEF OpToRel, Below

LEMMA LeastOf ==
  ASSUME NEW S \in SUBSET Nat, S # {}
  PROVE  \E i \in S : \A j \in S : i <= j
<1>1. \E i \in S : \A j \in S : ~ (<<j, i>> \in Below)
  BY ONLY S \subseteq Nat, S # {}, BelowIsWellFounded, WFMin
<1>2. \A i, j \in Nat : <<j, i>> \in Below <=> j < i
  BY DEF Below
<1>3. PICK i \in S : \A j \in S : ~ (<<j, i>> \in Below)
  BY <1>1
<1>4. \A j \in S : ~ (j < i)
  BY <1>2, <1>3
<1>5. \A j \in S : i <= j
  BY <1>4
<1>. QED
  BY <1>5

----------------------------------------------------------------------------
(* A waker and the place of its open FIFO; the state a process on a list   *)
(* is in while nobody has it in hand.                                      *)
Wakers == {"selrcv", "selsnd", "shutrcv", "shutsnd"}
OnIts == {"open", "blocked", "dead"}

(* Nobody is on a list twice; LOCK is held by the one waker, who has an    *)
(* entry in hand; whoever is on a list waits, is dead, or is in that hand; *)
(* and, unless a waker can be hasty, all who wait are on a list, and only  *)
(* entries of the dead, and those that are nobody's, are given up.         *)
Lists ==
  /\ rcvq \in Seq(RcvEntries) /\ sndq \in Seq(SndEntries)
  /\ Once(rcvq) /\ Once(sndq)

OneWaker ==
  /\ lock \in Procs \cup {NoProc} /\ target \in [Procs -> Nat]
  /\ \A p \in Procs : lock = p <=> pc[p] \in Wakers
  /\ \A w \in Procs : /\ pc[w] \in {"selrcv", "shutrcv"} => target[w] \in DOMAIN rcvq
                      /\ pc[w] \in {"selsnd", "shutsnd"} => target[w] \in DOMAIN sndq

Entries ==
  \A p \in Waiting : pc[p] \in OnIts \/ (lock # NoProc /\ InHand(lock) = p)

NoneForgotten ==
  ~Hasty => /\ Parked \subseteq Waiting
            /\ \A w \in Procs : pc[w] \in {"shutrcv", "shutsnd"} =>
                 InHand(w) = NoProc \/ pc[InHand(w)] = "dead"

LInv == Lists /\ OneWaker /\ Entries /\ NoneForgotten

LEMMA EntriesTrusted == LInv => EntriesNameWaiters
BY DEF LInv, Lists, Entries, NoneForgotten, OnIts, EntriesNameWaiters

LEMMA InitLists == Init => LInv
<1>. SUFFICES ASSUME Init PROVE LInv
  OBVIOUS
<1>1. Lists
  BY EmptySeq DEF Init, Lists, Once
<1>2. OneWaker
  BY ProcsAssumption DEF Init, OneWaker, Wakers
<1>3. Waiting = {} /\ Parked = {}
  BY DEF Init, Waiting, OnList, Parked
<1>4. Entries /\ NoneForgotten
  BY <1>3 DEF Init, Entries, NoneForgotten
<1>. QED
  BY <1>1, <1>2, <1>4 DEF LInv

(* LOCK is free: nobody is waking; it is not: one is.                      *)
LEMMA NobodyWakes ==
  ASSUME LInv, lock = NoProc PROVE \A w \in Procs : pc[w] \notin Wakers
BY ProcsAssumption DEF LInv, OneWaker

(* The owners of entries.                                                  *)
LEMMA Owners ==
  ASSUME LInv
  PROVE  /\ \A k \in DOMAIN rcvq : rcvq[k] \in RcvEntries /\ rcvq[k].of \in Receivers \cup {NoProc}
         /\ \A k \in DOMAIN sndq : sndq[k] \in SndEntries /\ sndq[k].of \in Senders \cup {NoProc}
<1>1. \A k \in DOMAIN rcvq : rcvq[k] \in RcvEntries
  BY LenProperties, ElementOfSeq DEF LInv, Lists
<1>2. \A k \in DOMAIN sndq : sndq[k] \in SndEntries
  BY LenProperties, ElementOfSeq DEF LInv, Lists
<1>. QED
  BY <1>1, <1>2 DEF RcvEntries, SndEntries

LEMMA OnlyOneWakes ==
  ASSUME LInv, NEW w \in Procs, pc[w] \in Wakers
  PROVE  /\ lock = w /\ w # NoProc /\ \A x \in Procs : pc[x] \in Wakers <=> x = w
         /\ InHand(w) \in Procs \cup {NoProc}
         /\ pc[w] \in {"selrcv", "shutrcv"} => InHand(w) \in Receivers \cup {NoProc}
         /\ pc[w] \in {"selsnd", "shutsnd"} => InHand(w) \in Senders \cup {NoProc}
<1>1. lock = w /\ w # NoProc /\ \A x \in Procs : pc[x] \in Wakers <=> x = w
  BY ProcsAssumption DEF LInv, OneWaker
<1>2. /\ pc[w] \in {"selrcv", "shutrcv"} => InHand(w) \in Receivers \cup {NoProc}
      /\ pc[w] \in {"selsnd", "shutsnd"} => InHand(w) \in Senders \cup {NoProc}
  BY Owners DEF LInv, OneWaker, InHand
<1>. QED
  BY <1>1, <1>2 DEF Wakers, Procs

(* An entry belongs to a process of its kind that waits, or to nobody.     *)
LEMMA EntryWaits ==
  ASSUME LInv
  PROVE  /\ \A k \in DOMAIN rcvq : rcvq[k].of # NoProc => rcvq[k].of \in Waiting
         /\ \A k \in DOMAIN sndq : sndq[k].of # NoProc => sndq[k].of \in Waiting
BY Owners DEF Waiting, OnList, Procs

(* A step of one process that leaves the lists and LOCK alone.             *)
LEMMA ListsAlone ==
  ASSUME IInv, LInv, UNCHANGED <<rcvq, sndq, lock, target>>,
         NEW p \in Procs, NEW to \in Labels \ Wakers, Goto(p, to), pc[p] \notin Wakers,
         \/ pc[p] \notin OnIts
         \/ to \in OnIts
         \/ p \notin Waiting
         \/ lock # NoProc /\ InHand(lock) = p,
         to \in {"open", "blocked"} => pc[p] \in {"open", "blocked"},
         pc[p] = "dead" => to = "dead"
  PROVE  LInv'
<1>1. /\ Waiting' = Waiting
      /\ \A x \in Procs : pc'[x] = IF x = p THEN to ELSE pc[x]
  BY DEF Waiting, Goto, IInv, Functions
<1>2. Lists'
  BY DEF LInv, Lists
<1>3. OneWaker'
  BY <1>1 DEF LInv, OneWaker, Wakers
<1>4. \A w \in Procs : pc[w] \in Wakers => InHand(w)' = InHand(w) /\ w # p
  BY <1>1 DEF InHand
<1>5. Entries'
  <2>. SUFFICES ASSUME NEW x \in Waiting, ~(lock # NoProc /\ InHand(lock)' = x)
                PROVE  pc'[x] \in OnIts
    BY <1>1 DEF Entries
  <2>1. lock # NoProc => InHand(lock)' = InHand(lock)
    BY <1>4 DEF LInv, OneWaker
  <2>2. x \in Procs /\ pc[x] \in OnIts
    BY <2>1 DEF Waiting, LInv, Entries
  <2>. QED
    BY <1>1, <2>1, <2>2
<1>6. NoneForgotten'
  <2>1. ~Hasty => Parked' \subseteq Waiting'
    BY <1>1 DEF Parked, LInv, NoneForgotten
  <2>2. ASSUME ~Hasty, NEW w \in Procs, pc'[w] \in {"shutrcv", "shutsnd"}
        PROVE  InHand(w)' = NoProc \/ pc'[InHand(w)'] = "dead"
    <3>1. pc[w] \in {"shutrcv", "shutsnd"} /\ pc[w] \in Wakers
      BY <1>1, <2>2 DEF Wakers
    <3>2. InHand(w) = NoProc \/ (pc[InHand(w)] = "dead" /\ InHand(w) \in Procs)
      BY <2>2, <3>1, OnlyOneWakes DEF LInv, NoneForgotten
    <3>. QED
      BY <1>1, <1>4, <3>1, <3>2
  <2>. QED
    BY <2>1, <2>2 DEF NoneForgotten
<1>. QED
  BY <1>2, <1>3, <1>5, <1>6 DEF LInv

(* With LOCK free a process joins the list of its kind.                    *)
LEMMA ListJoined ==
  ASSUME IInv, LInv, Asked, lock = NoProc, UNCHANGED <<lock, target>>,
         NEW p \in Procs, Goto(p, "open"), pc[p] \notin OnIts \cup Wakers, pc[p] # "idle",
         \/ p \in Senders /\ sndq' \in {Append(sndq, SndEntry(p)), <<SndEntry(p)>> \o sndq} /\ rcvq' = rcvq
         \/ p \in Receivers /\ rcvq' = Append(rcvq, RcvEntry(p)) /\ sndq' = sndq
  PROVE  LInv'
<1>1. p \notin Waiting
  BY DEF LInv, Entries
<1>2. ~OnList(p, rcvq) /\ ~OnList(p, sndq)
  BY <1>1 DEF Waiting
<1>3. /\ p \in Receivers => RcvEntry(p) \in RcvEntries /\ RcvEntry(p).of = p
      /\ p \in Senders => SndEntry(p) \in SndEntries /\ SndEntry(p).of = p
  BY ArgsAssumption DEF Asked, RcvArg, RcvEntry, SndEntry, RcvEntries, SndEntries
<1>4. Lists' /\ \A x : (OnList(x, rcvq) \/ OnList(x, sndq))' <=> OnList(x, rcvq) \/ OnList(x, sndq) \/ x = p
  <2>1. CASE p \in Receivers /\ rcvq' = Append(rcvq, RcvEntry(p)) /\ sndq' = sndq
    BY <2>1, <1>2, <1>3, AppendOnce DEF LInv, Lists
  <2>2. CASE p \in Senders /\ sndq' = Append(sndq, SndEntry(p)) /\ rcvq' = rcvq
    BY <2>2, <1>2, <1>3, AppendOnce DEF LInv, Lists
  <2>3. CASE p \in Senders /\ sndq' = <<SndEntry(p)>> \o sndq /\ rcvq' = rcvq
    BY <2>3, <1>2, <1>3, PrependOnce DEF LInv, Lists
  <2>. QED
    BY <2>1, <2>2, <2>3
<1>5. /\ Waiting' = Waiting \cup {p}
      /\ \A x \in Procs : pc'[x] = IF x = p THEN "open" ELSE pc[x]
  BY <1>4 DEF Waiting, Goto, IInv, Functions
<1>6. \A w \in Procs : pc[w] \notin Wakers /\ pc'[w] \notin Wakers
  BY <1>5, NobodyWakes DEF Wakers
<1>7. OneWaker'
  BY <1>6, ProcsAssumption DEF LInv, OneWaker, Wakers
<1>8. \A x \in Waiting : x \in Procs /\ pc[x] \in OnIts
  BY DEF Waiting, LInv, Entries
<1>9. Entries'
  BY <1>5, <1>8 DEF Entries, OnIts
<1>10. NoneForgotten'
  <2>1. ~Hasty => Parked' \subseteq Waiting'
    BY <1>5 DEF Parked, LInv, NoneForgotten
  <2>. QED
    BY <1>6, <2>1 DEF NoneForgotten, Wakers
<1>. QED
  BY <1>4, <1>7, <1>9, <1>10 DEF LInv

(* LOCK is taken, and the FIFO of an entry opened.                         *)
LEMMA WakerStarts ==
  ASSUME IInv, LInv, lock = NoProc, NEW w \in Procs, pc[w] \in {"wakercv", "wakesnd"},
         NEW k, NEW p \in Procs \cup {NoProc}, p # NoProc => p \in Waiting,
         NEW where \in {"selrcv", "selsnd"}, OpenWith(w, k, p, where),
         \/ where = "selrcv" /\ k \in DOMAIN rcvq /\ p = rcvq[k].of
         \/ where = "selsnd" /\ k \in DOMAIN sndq /\ p = sndq[k].of
  PROVE  /\ LInv'
         /\ \A x \in Procs : pc'[x] = IF x = w THEN where
                                      ELSE IF x = p /\ pc[x] = "blocked" THEN "write" ELSE pc[x]
         /\ lock' = w /\ target'[w] = k /\ InHand(w)' = p
         /\ p # w /\ (p # NoProc => p \in Procs /\ pc[p] \in OnIts)
<1>1. p # w /\ (p # NoProc => p \in Procs /\ pc[p] \in OnIts)
  BY ProcsAssumption DEF Waiting, LInv, Entries, OnIts
<1>2. /\ Waiting' = Waiting
      /\ \A x \in Procs : pc'[x] = IF x = w THEN where
                                   ELSE IF x = p /\ pc[x] = "blocked" THEN "write" ELSE pc[x]
  BY <1>1 DEF Waiting, OpenWith, At, IInv, Functions
<1>3. \A x \in Procs : pc[x] \notin Wakers
  BY NobodyWakes
<1>4. Lists' /\ UNCHANGED <<rcvq, sndq>>
  BY DEF OpenWith, LInv, Lists
<1>5. k \in Nat
  BY LenProperties DEF LInv, Lists
<1>6. /\ lock' = w /\ lock' # NoProc
      /\ target' \in [Procs -> Nat] /\ target'[w] = k
  BY <1>5, ProcsAssumption DEF OpenWith, LInv, OneWaker
<1>7. \A x \in Procs : pc'[x] \in Wakers <=> x = w
  BY <1>1, <1>2, <1>3 DEF Wakers
<1>8. OneWaker'
  <2>1. pc'[w] = where
    BY <1>2
  <2>. QED
    BY <1>4, <1>6, <1>7, <2>1 DEF OneWaker, Wakers
<1>9. InHand(w)' = p
  BY <1>2, <1>4, <1>6 DEF InHand
<1>10. Entries'
  <2>1. \A x \in Waiting : x \in Procs /\ pc[x] \in OnIts
    BY DEF Waiting, LInv, Entries
  <2>2. \A x \in Waiting : x # p => pc'[x] \in OnIts
    BY <1>1, <1>2, <2>1 DEF OnIts
  <2>. QED
    BY <1>2, <1>6, <1>9, <2>2 DEF Entries
<1>11. NoneForgotten'
  <2>1. ~Hasty => Parked' \subseteq Waiting'
    BY <1>2 DEF Parked, LInv, NoneForgotten
  <2>2. \A x \in Procs : pc'[x] \notin {"shutrcv", "shutsnd"}
    BY <1>2, <1>7 DEF Wakers
  <2>. QED
    BY <2>1, <2>2 DEF NoneForgotten
<1>. QED
  BY <1>1, <1>2, <1>4, <1>6, <1>8, <1>9, <1>10, <1>11 DEF LInv

(* select ends without the waiter: the FIFO is closed.                     *)
LEMMA WakerGivesUp ==
  ASSUME IInv, LInv, NEW w \in Procs, TimedOut(w) \/ SelectInterrupted(w)
  PROVE  LInv'
<1>0. GiveUp(w)
  BY DEF TimedOut, SelectInterrupted
<1>1. PICK to \in {"shutrcv", "shutsnd"} :
        /\ Goto(w, to)
        /\ to = "shutrcv" <=> pc[w] = "selrcv"
        /\ pc[w] \in {"selrcv", "selsnd"}
  BY <1>0 DEF GiveUp, At
<1>2. /\ Waiting' = Waiting /\ UNCHANGED <<rcvq, sndq, lock, target>>
      /\ \A x \in Procs : pc'[x] = IF x = w THEN to ELSE pc[x]
  BY <1>0, <1>1 DEF Waiting, GiveUp, Goto, IInv, Functions, locks
<1>3. /\ lock = w /\ w # NoProc /\ pc[w] \in Wakers /\ InHand(w) \in Procs \cup {NoProc}
      /\ \A x \in Procs : pc[x] \in Wakers <=> x = w
  BY <1>1, OnlyOneWakes DEF Wakers
<1>4. Lists'
  BY <1>2 DEF LInv, Lists
<1>5. OneWaker'
  BY <1>1, <1>2, <1>3 DEF LInv, OneWaker, Wakers
<1>6. InHand(w)' = InHand(w)
  BY <1>1, <1>2 DEF InHand
<1>7. Entries'
  <2>. SUFFICES ASSUME NEW x \in Waiting, InHand(w) # x PROVE pc'[x] \in OnIts
    BY <1>2, <1>3, <1>6 DEF Entries
  <2>1. x \in Procs /\ pc[x] \in OnIts
    BY <1>3 DEF Waiting, LInv, Entries
  <2>. QED
    BY <1>1, <1>2, <2>1 DEF OnIts
<1>8. NoneForgotten'
  <2>1. ~Hasty => Parked' \subseteq Waiting'
    BY <1>2 DEF Parked, LInv, NoneForgotten
  <2>2. ASSUME ~Hasty, NEW x \in Procs, pc'[x] \in {"shutrcv", "shutsnd"}
        PROVE  InHand(x)' = NoProc \/ pc'[InHand(x)'] = "dead"
    <3>1. x = w
      BY <1>2, <1>3, <2>2 DEF Wakers
    <3>2. InHand(w) = NoProc \/ pc[InHand(w)] = "dead"
      BY <2>2 DEF TimedOut, SelectInterrupted, Hasty, At
    <3>. QED
      BY <1>1, <1>2, <1>3, <1>6, <3>1, <3>2
  <2>. QED
    BY <2>1, <2>2 DEF NoneForgotten
<1>. QED
  BY <1>4, <1>5, <1>7, <1>8 DEF LInv

(* The entry in hand is taken off its list and LOCK released.              *)
LEMMA WakerEnds ==
  ASSUME IInv, LInv, NEW w \in Procs, pc[w] \in Wakers, DropTarget(w),
         NEW to \in {"wakercv", "wakesnd", "idle"}, Goto(w, to),
         ~Hasty => InHand(w) = NoProc \/ pc[InHand(w)] \notin {"open", "blocked"}
  PROVE  LInv'
<1>1. /\ lock = w /\ InHand(w) \in Procs \cup {NoProc}
      /\ \A x \in Procs : pc[x] \in Wakers <=> x = w
  BY OnlyOneWakes
<1>2. /\ Lists'
      /\ \A x : (OnList(x, rcvq) \/ OnList(x, sndq))' => OnList(x, rcvq) \/ OnList(x, sndq)
      /\ \A x : OnList(x, rcvq) \/ OnList(x, sndq) => x = InHand(w) \/ (OnList(x, rcvq) \/ OnList(x, sndq))'
      /\ \A x : x = InHand(w) /\ x # NoProc => ~(OnList(x, rcvq) \/ OnList(x, sndq))'
  <2>1. CASE pc[w] \in {"selrcv", "shutrcv"}
    <3>1. target[w] \in DOMAIN rcvq /\ InHand(w) = rcvq[target[w]].of
      BY <2>1 DEF LInv, OneWaker, InHand
    <3>2. rcvq' = Without(rcvq, target[w]) /\ sndq' = sndq
      BY <2>1 DEF DropTarget
    <3>3. ASSUME InHand(w) # NoProc PROVE ~OnList(InHand(w), sndq)
      <4>1. InHand(w) \in Receivers
        BY <2>1, <3>3, OnlyOneWakes
      <4>. QED
        BY <3>3, <4>1, Owners, ProcsAssumption DEF OnList
    <3>4. /\ Without(rcvq, target[w]) \in Seq(RcvEntries) /\ Once(Without(rcvq, target[w]))
          /\ \A x : OnList(x, rcvq') => OnList(x, rcvq)
          /\ \A x : OnList(x, rcvq) => x = InHand(w) \/ OnList(x, rcvq')
          /\ InHand(w) # NoProc => ~OnList(InHand(w), rcvq')
      BY <3>1, <3>2, DropOnce DEF LInv, Lists
    <3>. QED
      BY <3>2, <3>3, <3>4 DEF LInv, Lists
  <2>2. CASE pc[w] \in {"selsnd", "shutsnd"}
    <3>1. target[w] \in DOMAIN sndq /\ InHand(w) = sndq[target[w]].of
      BY <2>2 DEF LInv, OneWaker, InHand
    <3>2. sndq' = Without(sndq, target[w]) /\ rcvq' = rcvq
      BY <2>2 DEF DropTarget
    <3>3. ASSUME InHand(w) # NoProc PROVE ~OnList(InHand(w), rcvq)
      <4>1. InHand(w) \in Senders
        BY <2>2, <3>3, OnlyOneWakes
      <4>. QED
        BY <3>3, <4>1, Owners, ProcsAssumption DEF OnList
    <3>4. /\ Without(sndq, target[w]) \in Seq(SndEntries) /\ Once(Without(sndq, target[w]))
          /\ \A x : OnList(x, sndq') => OnList(x, sndq)
          /\ \A x : OnList(x, sndq) => x = InHand(w) \/ OnList(x, sndq')
          /\ InHand(w) # NoProc => ~OnList(InHand(w), sndq')
      BY <3>1, <3>2, DropOnce DEF LInv, Lists
    <3>. QED
      BY <3>2, <3>3, <3>4 DEF LInv, Lists
  <2>. QED
    BY <2>1, <2>2 DEF Wakers
<1>3. /\ Waiting' = Waiting \ {InHand(w)}
      /\ \A x \in Procs : pc'[x] = IF x = w THEN to ELSE pc[x]
  <2>1. \A x \in Procs : x \in Waiting' <=> x \in Waiting /\ x # InHand(w)
    BY <1>2, ProcsAssumption DEF Waiting
  <2>2. Waiting \subseteq Procs /\ Waiting' \subseteq Procs
    BY DEF Waiting
  <2>. QED
    BY <2>1, <2>2 DEF Goto, IInv, Functions
<1>4. \A x \in Procs : pc'[x] \notin Wakers
  BY <1>1, <1>3 DEF Wakers
<1>5. OneWaker'
  <2>1. lock' = NoProc /\ target' \in [Procs -> Nat]
    BY DEF DropTarget, LInv, OneWaker
  <2>. QED
    BY <1>4, <2>1, ProcsAssumption DEF OneWaker, Wakers
<1>6. Entries'
  <2>. SUFFICES ASSUME NEW x \in Waiting, x # InHand(w) PROVE pc'[x] \in OnIts
    BY <1>3 DEF Entries
  <2>1. x \in Procs /\ pc[x] \in OnIts
    BY <1>1 DEF Waiting, LInv, Entries
  <2>2. x # w
    BY <2>1 DEF OnIts, Wakers
  <2>. QED
    BY <1>3, <2>1, <2>2
<1>7. NoneForgotten'
  <2>1. ASSUME ~Hasty PROVE Parked' \subseteq Waiting'
    <3>. SUFFICES ASSUME NEW x \in Procs, pc'[x] \in {"open", "blocked"} PROVE x \in Waiting'
      BY DEF Parked
    <3>1. x \in Parked /\ pc[x] \in {"open", "blocked"}
      BY <1>3 DEF Parked
    <3>2. x # InHand(w)
      BY <2>1, <3>1, ProcsAssumption
    <3>. QED
      BY <1>3, <2>1, <3>1, <3>2 DEF LInv, NoneForgotten
  <2>. QED
    BY <1>4, <2>1 DEF NoneForgotten, Wakers
<1>. QED
  BY <1>2, <1>5, <1>6, <1>7 DEF LInv

(* A waiter is interrupted: its entry is nobody's.                         *)
LEMMA WaiterLeaves ==
  ASSUME IInv, LInv, NEW p \in Procs, OpenInterrupted(p)
  PROVE  LInv'
<1>1. PICK to \in {"noent", "rnoent"} : Goto(p, to) /\ pc[p] = "blocked"
  BY DEF OpenInterrupted, At
<1>2. /\ Lists' /\ DOMAIN rcvq' = DOMAIN rcvq /\ DOMAIN sndq' = DOMAIN sndq
      /\ \A k \in DOMAIN rcvq : rcvq'[k].of = IF rcvq[k].of = p THEN NoProc ELSE rcvq[k].of
      /\ \A k \in DOMAIN sndq : sndq'[k].of = IF sndq[k].of = p THEN NoProc ELSE sndq[k].of
      /\ \A x : x # NoProc => /\ OnList(x, rcvq)' <=> OnList(x, rcvq) /\ x # p
                              /\ OnList(x, sndq)' <=> OnList(x, sndq) /\ x # p
  BY AbandonOnce DEF OpenInterrupted, LInv, Lists
<1>3. /\ Waiting' = Waiting \ {p} /\ UNCHANGED <<lock, target>>
      /\ \A x \in Procs : pc'[x] = IF x = p THEN to ELSE pc[x]
  BY <1>1, <1>2, ProcsAssumption DEF Waiting, OpenInterrupted, Goto, IInv, Functions, locks
<1>4. \A w \in Procs : /\ pc'[w] \in Wakers <=> pc[w] \in Wakers
                       /\ pc[w] \in Wakers => pc'[w] = pc[w]
  BY <1>1, <1>3 DEF Wakers
<1>5. OneWaker'
  BY <1>2, <1>3, <1>4 DEF LInv, OneWaker, Wakers
<1>6. ASSUME NEW w \in Procs, pc[w] \in Wakers
      PROVE  InHand(w)' = IF InHand(w) = p THEN NoProc ELSE InHand(w)
  BY <1>2, <1>3, <1>4, <1>6 DEF InHand, LInv, OneWaker, Wakers
<1>7. Entries'
  <2>. SUFFICES ASSUME NEW x \in Waiting \ {p} PROVE pc'[x] \in OnIts \/ (lock # NoProc /\ InHand(lock)' = x)
    BY <1>3 DEF Entries
  <2>1. x \in Procs /\ (pc[x] \in OnIts \/ (lock # NoProc /\ InHand(lock) = x))
    BY DEF Waiting, LInv, Entries
  <2>2. lock # NoProc => lock \in Procs /\ pc[lock] \in Wakers
    BY DEF LInv, OneWaker
  <2>. QED
    BY <1>3, <1>6, <2>1, <2>2
<1>8. NoneForgotten'
  <2>1. ~Hasty => Parked' \subseteq Waiting'
    BY <1>3 DEF Parked, LInv, NoneForgotten
  <2>2. ASSUME ~Hasty, NEW w \in Procs, pc'[w] \in {"shutrcv", "shutsnd"}
        PROVE  InHand(w)' = NoProc \/ pc'[InHand(w)'] = "dead"
    <3>1. pc[w] \in {"shutrcv", "shutsnd"} /\ pc[w] \in Wakers
      BY <1>4, <2>2 DEF Wakers
    <3>2. InHand(w) = NoProc \/ (pc[InHand(w)] = "dead" /\ InHand(w) \in Procs)
      BY <2>2, <3>1, OnlyOneWakes DEF LInv, NoneForgotten
    <3>. QED
      BY <1>1, <1>3, <1>6, <3>1, <3>2
  <2>. QED
    BY <2>1, <2>2 DEF NoneForgotten
<1>. QED
  BY <1>2, <1>5, <1>7, <1>8 DEF LInv

LEMMA SndStepKeepsLists ==
  ASSUME IInv, LInv, Asked, NEW s \in Senders,
         SndStep(s) \/ FindInterrupted(s) \/ SndWaitInterrupted(s)
  PROVE  LInv'
<1>. USE DEF At, Labels, Wakers, OnIts, AfterFLOCK
<1>0. s \in Procs
  BY DEF Procs
<1>1. CASE WaitForSnd(s) /\ ~TableFull
  BY <1>0, <1>1, ListJoined DEF WaitForSnd, LeaveSnd
<1>2. CASE WakeupRcv(s) /\ Interested(arg[s].mtype) # {}
  <2>1. PICK k \in DOMAIN rcvq : OpenWith(s, k, rcvq[k].of, "selrcv")
    BY <1>2 DEF WakeupRcv, Oldest, Interested
  <2>2. rcvq[k].of \in Procs \cup {NoProc} /\ (rcvq[k].of # NoProc => rcvq[k].of \in Waiting)
    BY Owners, EntryWaits DEF Procs
  <2>. QED
    BY <1>0, <1>2, <2>1, <2>2, WakerStarts DEF WakeupRcv
<1>3. CASE ~(WaitForSnd(s) /\ ~TableFull) /\ ~(WakeupRcv(s) /\ Interested(arg[s].mtype) # {})
  <2>1. PICK to \in {"main", "full", "wakercv", "wakesnd", "idle"} : Goto(s, to)
    BY <1>3 DEF SndStep, FindSndWait, SndMain, SndNoRoom, SndInterrupted, SndNoWait, WaitForSnd,
                SndWaitLock, SndWaitFailed, WakeupRcv, FindInterrupted, SndWaitInterrupted,
                LeaveSnd, Return
  <2>2. /\ UNCHANGED <<rcvq, sndq, lock, target>>
        /\ pc[s] \in {"find", "main", "full", "sndwait", "sndfail", "wakercv"}
    BY <1>3 DEF SndStep, FindSndWait, SndMain, SndNoRoom, SndInterrupted, SndNoWait, WaitForSnd,
                SndWaitLock, SndWaitFailed, WakeupRcv, FindInterrupted, SndWaitInterrupted,
                LeaveSnd, locks
  <2>. QED
    BY <1>0, <2>1, <2>2, ListsAlone
<1>. QED
  BY <1>1, <1>2, <1>3

LEMMA RcvStepKeepsLists ==
  ASSUME IInv, LInv, Asked, NEW r \in Receivers,
         RcvStep(r) \/ RcvWaitNotLocked(r) \/ LookInterrupted(r)
  PROVE  LInv'
<1>. USE DEF At, Labels, Wakers, OnIts, AfterFLOCK
<1>0. r \in Procs
  BY DEF Procs
<1>1. CASE WaitForRcv(r) /\ ~TableFull
  BY <1>0, <1>1, ListJoined DEF WaitForRcv
<1>2. CASE ~(WaitForRcv(r) /\ ~TableFull)
  <2>1. PICK to \in {"look", "ask0", "ask", "enq", "wakesnd", "idle"} : Goto(r, to)
    BY <1>2 DEF RcvStep, RcvWaitLock, RcvWaitNotLocked, LookAtWaiters, LookInterrupted,
                FoundNothing, RcvWaitRelock, Receive, TooLong, NoMsg, RcvInterrupted,
                RcvWaitFailed, WaitForRcv, WaitForRcvFails, Return
  <2>2. /\ UNCHANGED <<rcvq, sndq, lock, target>>
        /\ pc[r] \in {"rcvlock", "look", "enq", "scan", "rcvwait", "rcvfail"}
    BY <1>2 DEF RcvStep, RcvWaitLock, RcvWaitNotLocked, LookAtWaiters, LookInterrupted,
                FoundNothing, RcvWaitRelock, Receive, TooLong, NoMsg, RcvInterrupted,
                RcvWaitFailed, WaitForRcv, WaitForRcvFails, locks
  <2>. QED
    BY <1>0, <2>1, <2>2, ListsAlone
<1>. QED
  BY <1>1, <1>2

LEMMA AnyStepKeepsLists ==
  ASSUME IInv, LInv, NEW p \in Procs,
         \/ AnyStep(p) \/ Kill(p)
         \/ FlockInterrupted(p) \/ OpenInterrupted(p) \/ SelectInterrupted(p)
  PROVE  LInv'
<1>. USE DEF At, Labels, Wakers, OnIts, AfterFLOCK
<1>1. CASE FLOCK(p) \/ FlockInterrupted(p)
  <2>1. PICK to \in {"find", "sndwait", "sndfail", "enq", "scan", "rcvwait", "rcvfail", "idle"} : Goto(p, to)
    BY <1>1 DEF FLOCK, FlockInterrupted, Return
  <2>2. UNCHANGED <<rcvq, sndq, lock, target>> /\ pc[p] \notin Wakers \cup OnIts
    BY <1>1 DEF FLOCK, FlockInterrupted, locks
  <2>. QED
    BY <2>1, <2>2, ListsAlone
<1>2. CASE OpenFifo(p)
  <2>1. CASE HasReader(p)
    <3>1. lock # NoProc /\ InHand(lock) = p
      BY <2>1, ProcsAssumption DEF HasReader, LInv, OneWaker
    <3>. QED
      BY <1>2, <2>1, <3>1, ListsAlone DEF OpenFifo, locks
  <2>2. CASE ~HasReader(p) /\ p \in Waiting
    BY <1>2, <2>2, ListsAlone DEF OpenFifo, locks
  <2>3. CASE ~HasReader(p) /\ p \notin Waiting
    <3>1. PICK to \in {"noent", "rnoent"} : Goto(p, to)
      BY <1>2, <2>3 DEF OpenFifo
    <3>. QED
      BY <1>2, <2>3, <3>1, ListsAlone DEF OpenFifo, locks
  <2>. QED
    BY <2>1, <2>2, <2>3
<1>3. CASE WriteFifo(p)
  <2>1. PICK to \in {"dead", "woken", "rwoken"} : Goto(p, to)
    BY <1>3 DEF WriteFifo
  <2>. QED
    BY <1>3, <2>1, ListsAlone DEF WriteFifo, locks
<1>4. CASE Kill(p)
  BY <1>4, ListsAlone DEF Kill, locks
<1>5. CASE WakeupSnd(p)
  <2>1. CASE sndq = <<>>
    BY <1>5, <2>1, ListsAlone DEF WakeupSnd, Return, locks
  <2>2. CASE sndq # <<>>
    <3>1. 1 \in DOMAIN sndq
      BY <2>2, EmptySeq, LenProperties DEF LInv, Lists
    <3>2. sndq[1].of \in Procs \cup {NoProc} /\ (sndq[1].of # NoProc => sndq[1].of \in Waiting)
      BY <3>1, Owners, EntryWaits DEF Procs
    <3>. QED
      BY <1>5, <2>2, <3>1, <3>2, WakerStarts DEF WakeupSnd
  <2>. QED
    BY <2>1, <2>2
<1>6. CASE Readable(p)
  <2>1. PICK to \in {"wakesnd", "idle"} : Goto(p, to)
    BY <1>6 DEF Readable, Return
  <2>. QED
    BY <1>6, <2>1, WakerEnds DEF Readable, HasWritten
<1>7. CASE TimedOut(p) \/ SelectInterrupted(p)
  BY <1>7, WakerGivesUp
<1>8. CASE Shut(p)
  <2>1. PICK to \in {"wakercv", "wakesnd"} : Goto(p, to)
    BY <1>8 DEF Shut
  <2>2. ~Hasty => InHand(p) = NoProc \/ pc[InHand(p)] = "dead"
    BY <1>8 DEF Shut, LInv, NoneForgotten
  <2>. QED
    BY <1>8, <2>1, <2>2, WakerEnds DEF Shut
<1>9. CASE OpenInterrupted(p)
  BY <1>9, WaiterLeaves
<1>. QED
  BY <1>1, <1>2, <1>3, <1>4, <1>5, <1>6, <1>7, <1>8, <1>9 DEF AnyStep

LEMMA StepKeepsLists == IInv /\ LInv /\ Asked /\ [Next]_vars => LInv'
<1>. SUFFICES ASSUME IInv, LInv, Asked, [Next]_vars PROVE LInv'
  OBVIOUS
<1>. USE DEF At, Labels, Wakers, OnIts, AfterFLOCK, locks
<1>1. ASSUME NEW s \in Senders, NEW a \in SndArg, Snd(s, a) PROVE LInv'
  BY <1>1, ListsAlone DEF Snd, Procs
<1>2. ASSUME NEW r \in Receivers, NEW a \in RcvArg(r), Rcv(r, a) PROVE LInv'
  BY <1>2, ListsAlone DEF Rcv, Procs
<1>3. ASSUME NEW p \in Procs, Step(p) \/ Kill(p) \/ Interrupted(p) PROVE LInv'
  BY <1>3, SndStepKeepsLists, RcvStepKeepsLists, AnyStepKeepsLists DEF Step, Interrupted
<1>4. CASE UNCHANGED vars
  BY <1>4 DEF vars, LInv, Lists, OneWaker, Entries, NoneForgotten, Waiting, Parked, InHand
<1>. QED
  BY <1>1, <1>2, <1>3, <1>4 DEF Next, Call

LEMMA ListsAlways == Spec => []LInv
BY InitLists, LocksAlways, AskedAlways, StepKeepsLists, PTL DEF Spec

(* While LOCK is free the next waker can trust the entry it reads, whoever *)
(* was killed, late or interrupted: it names a process that waits by it and*)
(* has no other, one that was killed there, or nobody; and all who wait    *)
(* are named, if no waker gave up on them too early.                       *)
THEOREM EntriesStayTrue == Spec => []EntriesNameWaiters
BY ListsAlways, EntriesTrusted, PTL

----------------------------------------------------------------------------
(* No sender's request for FLOCK is interrupted.  Where one is, the sender *)
(* goes on without FLOCK, and the two claims below fail: TLC finds the     *)
(* runs.                                                                   *)
SendersRelock == \A s \in Senders : Relocks(s)

(* A sender that has not waited and got past FindSndWait is alone.         *)
NewcomerAlone == \A s \in Senders : pc[s] = "main" /\ ~flag[s] => sndq = <<>>

(* A step that brings no newcomer so far and nobody onto the list.         *)
LEMMA NobodyNew ==
  ASSUME NewcomerAlone, sndq = <<>> => sndq' = <<>>,
         \A t \in Senders : pc'[t] = "main" /\ ~flag'[t] => pc[t] = "main" /\ ~flag[t]
  PROVE  NewcomerAlone'
BY DEF NewcomerAlone

LEMMA NobodyNewMoves ==
  ASSUME IInv, NewcomerAlone, sndq = <<>> => sndq' = <<>>,
         NEW p \in Procs, NEW to \in Labels, Goto(p, to), to # "main",
         \/ flag' = flag
         \/ \E b \in BOOLEAN : flag' = [flag EXCEPT ![p] = b]
  PROVE  NewcomerAlone'
<1>1. \A t \in Senders : pc'[t] = "main" /\ ~flag'[t] => pc[t] = "main" /\ ~flag[t]
  BY DEF Goto, IInv, Functions, Procs
<1>. QED
  BY <1>1, NobodyNew

LEMMA StepKeepsNewcomers ==
  ASSUME SendersRelock
  PROVE  IInv /\ LInv /\ NewcomerAlone /\ [Next]_vars => NewcomerAlone'
<1>. SUFFICES ASSUME IInv, LInv, NewcomerAlone, [Next]_vars PROVE NewcomerAlone'
  OBVIOUS
<1>. USE DEF At, Labels, AfterFLOCK, locks
<1>1. ASSUME NEW s \in Senders, NEW a \in SndArg, Snd(s, a) PROVE NewcomerAlone'
  BY <1>1, NobodyNewMoves DEF Snd, Procs
<1>2. ASSUME NEW r \in Receivers, NEW a \in RcvArg(r), Rcv(r, a) PROVE NewcomerAlone'
  BY <1>2, NobodyNewMoves DEF Rcv, Procs
<1>3. ASSUME NEW s \in Senders, SndStep(s) \/ FindInterrupted(s) \/ SndWaitInterrupted(s)
      PROVE  NewcomerAlone'
  <2>0. s \in Procs
    BY DEF Procs
  <2>1. CASE FindSndWait(s)
    BY <2>1, <2>0 DEF FindSndWait, NewcomerAlone, Goto, IInv, Functions, Procs
  <2>2. CASE WaitForSnd(s) /\ ~TableFull
    <3>1. Goto(s, "open") /\ pc[s] = "full" /\ flag' = flag
      BY <2>2 DEF WaitForSnd, LeaveSnd
    <3>2. \A t \in Senders : pc[t] # "main"
      <4>1. flock = s /\ \A t \in Senders : pc[t] = "main" => flock = t
        BY <2>0, <3>1 DEF IInv, FlockHeld, Holding, SendersRelock, Locked, Sending, Procs
      <4>. QED
        BY <3>1, <4>1
    <3>. QED
      BY <2>0, <3>1, <3>2 DEF Goto, NewcomerAlone, IInv, Functions, Procs
  <2>3. CASE SndWaitLock(s)
    BY <2>0, <2>3 DEF SndWaitLock, Goto, NewcomerAlone, IInv, Functions, Procs
  <2>4. CASE WakeupRcv(s) /\ Interested(arg[s].mtype) # {}
    <3>1. sndq' = sndq /\ flag' = flag /\ \E k, p : OpenWith(s, k, p, "selrcv")
      BY <2>4 DEF WakeupRcv, OpenWith
    <3>2. \A t \in Procs : pc'[t] = "main" => pc[t] = "main"
      BY <3>1 DEF OpenWith
    <3>. QED
      BY <3>1, <3>2, NobodyNew DEF Procs
  <2>5. CASE /\ ~FindSndWait(s) /\ ~(WaitForSnd(s) /\ ~TableFull) /\ ~SndWaitLock(s)
             /\ ~(WakeupRcv(s) /\ Interested(arg[s].mtype) # {})
    <3>1. PICK to \in {"full", "wakercv", "wakesnd", "idle"} : Goto(s, to)
      BY <1>3, <2>5 DEF SndStep, SndMain, SndNoRoom, SndInterrupted, SndNoWait, WaitForSnd,
                SndWaitFailed, WakeupRcv, FindInterrupted, SndWaitInterrupted, LeaveSnd, Return
    <3>2. sndq' = sndq /\ (flag' = flag \/ flag' = [flag EXCEPT ![s] = FALSE])
      BY <1>3, <2>5 DEF SndStep, SndMain, SndNoRoom, SndInterrupted, SndNoWait, WaitForSnd,
                SndWaitFailed, WakeupRcv, FindInterrupted, SndWaitInterrupted, LeaveSnd, Return
    <3>. QED
      BY <2>0, <3>1, <3>2, NobodyNewMoves
  <2>. QED
    BY <2>1, <2>2, <2>3, <2>4, <2>5
<1>4. ASSUME NEW r \in Receivers, RcvStep(r) \/ RcvWaitNotLocked(r) \/ LookInterrupted(r)
      PROVE  NewcomerAlone'
  <2>0. r \in Procs
    BY DEF Procs
  <2>1. PICK to \in {"look", "ask0", "ask", "enq", "wakesnd", "idle", "open"} : Goto(r, to)
    BY <1>4 DEF RcvStep, RcvWaitLock, RcvWaitNotLocked, LookAtWaiters, LookInterrupted,
                FoundNothing, RcvWaitRelock, Receive, TooLong, NoMsg, RcvInterrupted,
                RcvWaitFailed, WaitForRcv, WaitForRcvFails, Return
  <2>2. sndq' = sndq
    BY <1>4 DEF RcvStep, RcvWaitLock, RcvWaitNotLocked, LookAtWaiters, LookInterrupted,
                FoundNothing, RcvWaitRelock, Receive, TooLong, NoMsg, RcvInterrupted,
                RcvWaitFailed, WaitForRcv, WaitForRcvFails
  <2>3. flag' = flag \/ \E b \in BOOLEAN : flag' = [flag EXCEPT ![r] = b]
    BY <1>4 DEF RcvStep, RcvWaitLock, RcvWaitNotLocked, LookAtWaiters, LookInterrupted,
                FoundNothing, RcvWaitRelock, Receive, TooLong, NoMsg, RcvInterrupted,
                RcvWaitFailed, WaitForRcv, WaitForRcvFails, Return
  <2>. QED
    BY <2>0, <2>1, <2>2, <2>3, NobodyNewMoves
<1>5. ASSUME NEW p \in Procs,
             \/ AnyStep(p) \/ Kill(p)
             \/ FlockInterrupted(p) \/ OpenInterrupted(p) \/ SelectInterrupted(p)
      PROVE  NewcomerAlone'
  <2>1. CASE WakeupSnd(p) /\ sndq # <<>>
    <3>1. sndq' = sndq /\ flag' = flag /\ \E k, x : OpenWith(p, k, x, "selsnd")
      BY <2>1 DEF WakeupSnd, OpenWith
    <3>2. \A t \in Procs : pc'[t] = "main" => pc[t] = "main"
      BY <3>1 DEF OpenWith
    <3>. QED
      BY <3>1, <3>2, NobodyNew DEF Procs
  <2>2. CASE ~(WakeupSnd(p) /\ sndq # <<>>)
    <3>1. PICK to \in Labels \ {"main"} : Goto(p, to)
      BY <1>5, <2>2 DEF AnyStep, FLOCK, OpenFifo, WriteFifo, WakeupSnd, Readable, TimedOut, GiveUp,
                Shut, Kill, FlockInterrupted, OpenInterrupted, SelectInterrupted, Return
    <3>2. flag' = flag \/ flag' = [flag EXCEPT ![p] = FALSE]
      BY <1>5, <2>2 DEF AnyStep, FLOCK, OpenFifo, WriteFifo, WakeupSnd, Readable, TimedOut, GiveUp,
                Shut, Kill, FlockInterrupted, OpenInterrupted, SelectInterrupted, Return
    <3>3. ASSUME sndq = <<>> PROVE sndq' = <<>>
      <4>1. CASE OpenInterrupted(p)
        <5>1. sndq' \in Seq(SndEntries) /\ DOMAIN sndq' = DOMAIN sndq
          BY <4>1, AbandonOnce DEF OpenInterrupted, LInv, Lists
        <5>2. Len(sndq) = 0 /\ DOMAIN sndq = 1 .. Len(sndq) /\ DOMAIN sndq' = 1 .. Len(sndq') /\ Len(sndq') \in Nat
          BY <3>3, <5>1, EmptySeq, LenProperties DEF LInv, Lists
        <5>. QED
          BY <5>1, <5>2, EmptySeq
      <4>2. CASE ~OpenInterrupted(p)
        <5>1. pc[p] \notin {"selsnd", "shutsnd"}
          BY <3>3 DEF LInv, OneWaker
        <5>. QED
          BY <1>5, <2>2, <3>3, <4>2, <5>1 DEF AnyStep, FLOCK, OpenFifo, WriteFifo, WakeupSnd,
                Readable, TimedOut, GiveUp, Shut, Kill, FlockInterrupted, SelectInterrupted, DropTarget
      <4>. QED
        BY <4>1, <4>2
    <3>. QED
      BY <3>1, <3>2, <3>3, NobodyNewMoves
  <2>. QED
    BY <2>1, <2>2
<1>6. CASE UNCHANGED vars
  BY <1>6 DEF vars, NewcomerAlone
<1>. QED
  BY <1>1, <1>2, <1>3, <1>4, <1>5, <1>6 DEF Next, Call, Step, Interrupted

(* A sender that has not waited sends only while no sender is waiting,     *)
(* whatever else is killed, late or interrupted, if no sender's request for*)
(* FLOCK is.                                                               *)
THEOREM NewcomersWait ==
  ASSUME SendersRelock PROVE Spec => NewcomersQueue
<1>. DEFINE Queues == \A s \in Senders : SndMain(s) /\ ~flag[s] => sndq = <<>>
<1>1. Init => NewcomerAlone
  BY DEF Init, NewcomerAlone
<1>2. NewcomerAlone => Queues
  BY DEF NewcomerAlone, SndMain, At
<1>3. IInv /\ LInv /\ NewcomerAlone /\ [Next]_vars => NewcomerAlone'
  BY StepKeepsNewcomers
<1>4. Spec => []NewcomerAlone
  BY <1>1, <1>3, LocksAlways, ListsAlways, PTL DEF Spec
<1>. HIDE DEF Queues
<1>5. NewcomerAlone => [Queues]_vars
  BY <1>2
<1>6. Spec => [][Queues]_vars
  BY <1>4, <1>5, PTL
<1>. QED
  BY <1>6 DEF NewcomersQueue, Queues

----------------------------------------------------------------------------
(* A process on the way to wake a sender, and a woken sender on its way to *)
(* retry.                                                                  *)
Waking == {"wakercv", "selrcv", "shutrcv", "wakesnd", "selsnd", "shutsnd"}
Busy(p) == pc[p] \in Waking
Awake(s) == pc[s] \in {"woken", "sndwait"} \/ (flag[s] /\ pc[s] \in {"main", "full"})
Cared == (\E p \in Procs : Busy(p)) \/ (\E s \in Senders : Awake(s))

(* The claim, a little stronger than it is checked.                        *)
HeadCared ==
  sndq # <<>> /\ sndq[1].of \in Parked /\ Fits(sndq[1].of) => Cared

(* A sender whose FIFO is open retries, and wakes the next or waits in     *)
(* front of it.                                                            *)
Underway(s) == pc[s] \in {"open", "write", "wakercv", "wakesnd"} \/ Awake(s)

WokenHead == \A w \in Procs : pc[w] = "selsnd" => Underway(InHand(w))

(* Who goes back to the head of the list has found no room, and FLOCK keeps*)
(* it so.                                                                  *)
TriedInVain == \A s \in Senders : pc[s] = "full" /\ flag[s] => ~Fits(s)

(* Who goes to the tail of the list although there is room has found       *)
(* others there; should they be gone by now, one of them was woken and     *)
(* waits for FLOCK.                                                        *)
Newcomer ==
  \A s \in Senders : pc[s] = "full" /\ ~flag[s] /\ Fits(s) =>
    /\ sndq = <<>> => \E t \in Senders : pc[t] = "woken"
    /\ \A w \in Procs : pc[w] = "selsnd" => pc[InHand(w)] \in {"open", "write", "woken"}

(* No entry of a sender is nobody's.                                       *)
Named == \A k \in DOMAIN sndq : sndq[k].of \in Senders

(* The flag of a sender is reset with its call.                            *)
Fresh == \A s \in Senders : pc[s] \in {"idle", "start", "find"} => ~flag[s]

(* No sender dies: who writes to its FIFO has a reader.                    *)
HeldOpen(s) == \E w \in Procs : pc[w] = "selsnd" /\ InHand(w) = s

Alive == \A s \in Senders : pc[s] # "dead" /\ (pc[s] = "write" => HeldOpen(s))

SInv == Named /\ Fresh /\ Alive /\ TriedInVain /\ WokenHead /\ Newcomer /\ HeadCared

(* No waiter is late or given up by a waker that was interrupted, no signal*)
(* is pending when the code looks for one, and no sender is killed while it*)
(* waits or interrupted in a call.  Without these a sender may be stranded:*)
(* TLC finds the runs.                                                     *)
Calm ==
  /\ ~Slow /\ ~Signals /\ Killable \cap Senders = {}
  /\ \A p \in Procs : <<p, "select">> \notin Interrupts
  /\ \A s \in Senders : \A c \in Calls : <<s, c>> \notin Interrupts

LEMMA CalmSenders ==
  ASSUME Calm PROVE ~Hasty /\ SendersRelock
BY DEF Calm, Hasty, SendersRelock, Relocks, Calls

LEMMA HeadNotStranded == SInv => NoStrandedSender
BY DEF SInv, HeadCared, Cared, Busy, Awake, Waking, NoStrandedSender, OnItsWay, AtHead

LEMMA InitSenders == Init => SInv
<1>. SUFFICES ASSUME Init PROVE SInv
  OBVIOUS
<1>1. \A p \in Procs : pc[p] = "idle" /\ flag[p] = FALSE
  BY DEF Init
<1>2. Fresh /\ Alive /\ TriedInVain /\ WokenHead /\ Newcomer
  BY <1>1 DEF Init, Fresh, Alive, TriedInVain, WokenHead, Newcomer, Procs
<1>3. Named /\ HeadCared
  BY EmptySeq DEF Init, Named, HeadCared
<1>. QED
  BY <1>2, <1>3 DEF SInv

(* Whom a waker of senders has in hand, and who writes to whom.            *)
LEMMA SenderInHand ==
  ASSUME LInv, SInv
  PROVE  /\ \A w \in Procs : pc[w] \in {"selsnd", "shutsnd"} => InHand(w) \in Senders
         /\ \A s \in Senders : HasReader(s) <=> HeldOpen(s)
<1>1. \A w \in Procs : pc[w] \in {"selsnd", "shutsnd"} => InHand(w) \in Senders
  BY DEF InHand, LInv, OneWaker, SInv, Named
<1>2. \A w \in Procs : pc[w] = "selrcv" => InHand(w) \notin Senders
  BY OnlyOneWakes, ProcsAssumption DEF Wakers, Procs
<1>. QED
  BY <1>1, <1>2 DEF HasReader, HeldOpen

(* A sender at the head of its list.                                       *)
LEMMA HeadIsSender ==
  ASSUME LInv, SInv, sndq # <<>>
  PROVE  1 \in DOMAIN sndq /\ sndq[1].of \in Senders
<1>1. 1 \in DOMAIN sndq
  BY EmptySeq, LenProperties DEF LInv, Lists
<1>. QED
  BY <1>1 DEF SInv, Named

(* A step of one process that leaves the senders' list and LOCK alone.     *)
LEMMA SendersAlone ==
  ASSUME Calm, IInv, LInv, SInv, UNCHANGED <<sndq, lock, target>>,
         NEW p \in Procs, NEW to \in Labels \ Wakers, Goto(p, to), pc[p] \notin Wakers,
         DOMAIN arg' = Procs,
         \A x \in Procs \ {p} : arg'[x] = arg[x] /\ flag'[x] = flag[x],
         \/ msgs' = msgs
         \/ Holding(p) /\ to \in {"wakercv", "wakesnd"},
         p \in Senders /\ to \in {"open", "blocked"} => pc[p] \in {"open", "blocked"} /\ arg'[p] = arg[p],
         p \in Senders => to # "dead",
         p \in Senders /\ to = "write" => HeldOpen(p),
         p \in Senders /\ to \in {"idle", "start", "find"} => ~flag'[p],
         to = "full" => /\ arg'[p] = arg[p]
                        /\ flag'[p] => ~Fits(p)
                        /\ ~flag'[p] /\ Fits(p) => sndq # <<>> /\ lock = NoProc,
         p \in Senders /\ pc[p] = "woken" => flock \in {NoProc, p},
         p \in Senders /\ HeldOpen(p) /\ pc[p] \in {"open", "write"} => to \in {"write", "woken"},
         p \in Senders /\ HeldOpen(p) /\ Underway(p) => Underway(p)',
         Busy(p) \/ (p \in Senders /\ Awake(p)) =>
           sndq = <<>> \/ Busy(p)' \/ (p \in Senders /\ Awake(p)')
  PROVE  SInv'
<1>1. \A x \in Procs : pc'[x] = IF x = p THEN to ELSE pc[x]
  BY DEF Goto, IInv, Functions
<1>2. \A x \in Procs : pc'[x] \in Wakers <=> pc[x] \in Wakers
  BY <1>1
<1>3. \A x \in Procs \ {p} : /\ Underway(x)' <=> Underway(x)
                             /\ Awake(x)' <=> Awake(x)
                             /\ Busy(x)' <=> Busy(x)
  BY <1>1 DEF Underway, Awake, Busy
<1>4. msgs' = msgs => \A x \in Procs : x # p \/ arg'[p] = arg[p] => (Fits(x)' <=> Fits(x))
  BY DEF Fits
<1>5. Named'
  BY DEF SInv, Named
<1>6. Fresh'
  BY <1>1 DEF SInv, Fresh, Procs
<1>10. \A w \in Procs : /\ pc'[w] = "selsnd" <=> pc[w] = "selsnd"
                        /\ pc[w] = "selsnd" => InHand(w)' = InHand(w)
  BY <1>1 DEF Wakers, InHand
<1>7. Alive'
  <2>1. \A x : HeldOpen(x)' <=> HeldOpen(x)
    BY <1>10 DEF HeldOpen
  <2>. QED
    BY <1>1, <2>1 DEF SInv, Alive, Procs
<1>8. msgs' # msgs => \A s \in Senders : pc'[s] # "full"
  <2>1. \A s \in Senders : pc[s] = "full" => flock = s
    BY CalmSenders DEF IInv, FlockHeld, Holding, SendersRelock, Locked, Procs
  <2>2. Holding(p) => flock = p
    BY DEF IInv, FlockHeld
  <2>. QED
    BY <1>1, <2>1, <2>2 DEF Procs
<1>9. TriedInVain'
  BY <1>1, <1>4, <1>8 DEF SInv, TriedInVain, Procs
<1>11. WokenHead'
  <2>. SUFFICES ASSUME NEW w \in Procs, pc[w] = "selsnd", NEW h \in Senders, h = InHand(w)
                PROVE  Underway(h)'
    BY <1>10, SenderInHand DEF WokenHead
  <2>1. Underway(h) /\ HeldOpen(h) /\ h \in Procs
    BY DEF SInv, WokenHead, HeldOpen, Procs
  <2>. QED
    BY <1>3, <2>1
<1>12. Newcomer'
  <2>. SUFFICES ASSUME NEW s \in Senders, (pc[s] = "full" /\ ~flag[s] /\ Fits(s))'
                PROVE  /\ sndq = <<>> => \E t \in Senders : pc'[t] = "woken"
                       /\ \A w \in Procs : pc[w] = "selsnd" => pc'[InHand(w)] \in {"open", "write", "woken"}
    BY <1>10 DEF Newcomer
  <2>0. msgs' = msgs
    BY <1>8
  <2>1. CASE s = p
    <3>1. sndq # <<>> /\ lock = NoProc
      BY <1>1, <1>4, <2>0, <2>1
    <3>2. \A w \in Procs : pc[w] # "selsnd"
      BY <3>1, ProcsAssumption DEF LInv, OneWaker, Wakers
    <3>. QED
      BY <3>1, <3>2
  <2>2. CASE s # p
    <3>1. pc[s] = "full" /\ ~flag[s] /\ Fits(s) /\ s \in Procs
      BY <1>1, <1>4, <2>0, <2>2 DEF Procs
    <3>2. p \in Senders => pc[p] # "woken"
      <4>1. flock = s
        BY <3>1 DEF IInv, FlockHeld, Holding, Sending
      <4>. QED
        BY <2>2, <3>1, <4>1, ProcsAssumption
    <3>3. sndq = <<>> => \E t \in Senders : pc'[t] = "woken"
      BY <1>1, <3>1, <3>2 DEF SInv, Newcomer, Procs
    <3>4. ASSUME NEW w \in Procs, pc[w] = "selsnd", NEW h \in Senders, h = InHand(w)
          PROVE  pc'[h] \in {"open", "write", "woken"}
      <4>1. pc[h] \in {"open", "write", "woken"} /\ HeldOpen(h) /\ h \in Procs
        BY <3>1, <3>4 DEF SInv, Newcomer, HeldOpen, Procs
      <4>. QED
        BY <1>1, <3>2, <4>1
    <3>. QED
      BY <3>3, <3>4, SenderInHand
  <2>. QED
    BY <2>1, <2>2
<1>13. HeadCared'
  <2>. SUFFICES ASSUME sndq # <<>>, NEW h, h = sndq[1].of, h \in Parked', Fits(h)' PROVE Cared'
    BY DEF HeadCared
  <2>1. CASE msgs' # msgs
    BY <1>1, <2>1 DEF Cared, Busy, Waking
  <2>2. CASE msgs' = msgs
    <3>0. h \in Senders
      BY HeadIsSender
    <3>1. h \in Parked
      BY <1>1, <3>0 DEF Parked
    <3>2. Fits(h)
      BY <1>1, <1>4, <2>2, <3>0 DEF Parked
    <3>3. Cared
      BY <3>1, <3>2 DEF SInv, HeadCared
    <3>. QED
      BY <1>3, <3>3 DEF Cared, Procs
  <2>. QED
    BY <2>1, <2>2
<1>. QED
  BY <1>5, <1>6, <1>7, <1>9, <1>11, <1>12, <1>13 DEF SInv

(* Who is where once an entry was put in at either end.                    *)
LEMMA JoinPlaces ==
  ASSUME NEW S, NEW q \in Seq(S), NEW e \in S
  PROVE  /\ \A k \in DOMAIN Append(q, e) :
              Append(q, e)[k] = e \/ \E j \in DOMAIN q : Append(q, e)[k] = q[j]
         /\ \A k \in DOMAIN (<<e>> \o q) :
              (<<e>> \o q)[k] = e \/ \E j \in DOMAIN q : (<<e>> \o q)[k] = q[j]
         /\ Append(q, e)[1] = IF q = <<>> THEN e ELSE q[1]
         /\ (<<e>> \o q)[1] = e
<1>1. Len(q) \in Nat /\ DOMAIN q = 1 .. Len(q) /\ (q = <<>> <=> Len(q) = 0)
  BY EmptySeq, LenProperties
<1>. DEFINE a == Append(q, e)
            o == <<e>>
            c == o \o q
<1>2. /\ a \in Seq(S) /\ Len(a) = Len(q) + 1
      /\ \A i \in 1 .. Len(q) : a[i] = q[i]
      /\ a[Len(q) + 1] = e
  BY AppendProperties
<1>3. o \in Seq(S) /\ Len(o) = 1 /\ o[1] = e
  OBVIOUS
<1>. HIDE DEF a, o
<1>4. /\ c \in Seq(S) /\ Len(c) = 1 + Len(q)
      /\ \A i \in 1 .. 1 + Len(q) : c[i] = IF i <= 1 THEN o[i] ELSE q[i - 1]
  <2>1. /\ c \in Seq(S) /\ Len(c) = Len(o) + Len(q)
        /\ \A i \in 1 .. Len(o) + Len(q) : c[i] = IF i <= Len(o) THEN o[i] ELSE q[i - Len(o)]
    BY <1>3, ConcatProperties
  <2>. QED
    BY <1>3, <2>1
<1>. HIDE DEF c
<1>5. DOMAIN a = 1 .. Len(q) + 1 /\ DOMAIN c = 1 .. 1 + Len(q)
  BY <1>2, <1>4, LenProperties
<1>6. \A k \in DOMAIN a : a[k] = e \/ \E j \in DOMAIN q : a[k] = q[j]
  BY <1>1, <1>2, <1>5
<1>7. a[1] = IF q = <<>> THEN e ELSE q[1]
  BY <1>1, <1>2
<1>8. \A k \in DOMAIN c : k = 1 \/ (k - 1 \in DOMAIN q /\ c[k] = q[k - 1])
  BY <1>1, <1>4, <1>5
<1>9. c[1] = e
  BY <1>1, <1>3, <1>4
<1>. QED
  BY <1>6, <1>7, <1>8, <1>9 DEF a, c, o

(* A sender joins the list, at the head if it was woken before.            *)
LEMMA SenderJoins ==
  ASSUME Calm, IInv, LInv, SInv, lock = NoProc, NEW s \in Senders, pc[s] = "full", Goto(s, "open"),
         UNCHANGED <<lock, target, arg, flag, msgs>>,
         sndq' = IF flag[s] THEN <<SndEntry(s)>> \o sndq ELSE Append(sndq, SndEntry(s))
  PROVE  SInv'
<1>. DEFINE e == SndEntry(s)
<1>0. s \in Procs /\ e \in SndEntries /\ e.of = s
  BY DEF Procs, SndEntry, SndEntries
<1>1. \A x \in Procs : pc'[x] = IF x = s THEN "open" ELSE pc[x]
  BY DEF Goto, IInv, Functions
<1>2. \A w \in Procs : pc[w] \notin Wakers /\ pc'[w] \notin Wakers
  BY <1>1, NobodyWakes DEF Wakers
<1>3. \A x \in Senders : pc'[x] # "full"
  <2>1. \A x \in Senders : pc[x] = "full" => flock = x
    BY CalmSenders DEF IInv, FlockHeld, Holding, SendersRelock, Locked, Procs
  <2>. QED
    BY <1>0, <1>1, <2>1 DEF Procs
<1>. HIDE DEF e
<1>4. /\ \A k \in DOMAIN sndq' : sndq'[k] = e \/ \E j \in DOMAIN sndq : sndq'[k] = sndq[j]
      /\ flag[s] => sndq'[1] = e
      /\ ~flag[s] => sndq'[1] = IF sndq = <<>> THEN e ELSE sndq[1]
  <2>1. sndq' = IF flag[s] THEN <<e>> \o sndq ELSE Append(sndq, e)
    BY DEF e
  <2>. QED
    BY <1>0, <2>1, JoinPlaces DEF LInv, Lists
<1>5. Named' /\ WokenHead'
  <2>1. Named'
    BY <1>0, <1>4 DEF SInv, Named
  <2>2. WokenHead'
    BY <1>2 DEF WokenHead, Wakers
  <2>. QED
    BY <2>1, <2>2
<1>6. Fresh' /\ TriedInVain' /\ Newcomer'
  BY <1>1, <1>3 DEF SInv, Fresh, TriedInVain, Newcomer, Procs
<1>7. Alive'
  <2>1. \A x \in Senders : ~HeldOpen(x)
    BY <1>2 DEF HeldOpen, Wakers
  <2>. QED
    BY <1>1, <2>1 DEF SInv, Alive, Procs
<1>8. HeadCared'
  <2>. SUFFICES ASSUME NEW h, h = sndq'[1].of, h \in Parked', Fits(h)' PROVE Cared'
    BY DEF HeadCared
  <2>1. \A x : Fits(x)' <=> Fits(x)
    BY DEF Fits
  <2>2. ~flag[s]
    <3>. SUFFICES ASSUME flag[s] PROVE FALSE
      OBVIOUS
    <3>1. Fits(s)
      BY <1>0, <1>4, <2>1
    <3>. QED
      BY <3>1 DEF SInv, TriedInVain
  <2>5. CASE sndq = <<>>
    <3>0. h = s
      BY <1>0, <1>4, <2>2, <2>5
    <3>1. PICK t \in Senders : pc[t] = "woken"
      BY <2>1, <2>2, <2>5, <3>0 DEF SInv, Newcomer
    <3>. QED
      BY <1>1, <3>1 DEF Cared, Awake, Procs
  <2>6. CASE sndq # <<>>
    <3>0. h = sndq[1].of /\ h \in Senders
      BY <1>4, <2>2, <2>6, HeadIsSender
    <3>1. h \in Waiting
      BY <2>6, <3>0, HeadIsSender, EntryWaits, ProcsAssumption DEF Procs
    <3>2. h # s
      BY <3>1 DEF LInv, Entries, OnIts
    <3>3. h \in Parked /\ Fits(h)
      BY <1>1, <2>1, <3>0, <3>2 DEF Parked
    <3>4. Cared
      BY <2>6, <3>0, <3>3 DEF SInv, HeadCared
    <3>5. \A x \in Procs : Busy(x) => Busy(x)'
      BY <1>1 DEF Busy, Waking
    <3>6. \A x \in Senders : Awake(x) => Awake(x)'
      BY <1>1, <2>2 DEF Awake, Procs
    <3>. QED
      BY <3>4, <3>5, <3>6 DEF Cared
  <2>. QED
    BY <2>5, <2>6
<1>. QED
  BY <1>5, <1>6, <1>7, <1>8 DEF SInv

(* A waker opens the FIFO of its waiter.                                   *)
LEMMA SenderWoken ==
  ASSUME IInv, LInv, SInv, lock = NoProc, NEW w \in Procs, pc[w] \in {"wakercv", "wakesnd"},
         NEW k, NEW p \in Procs \cup {NoProc}, p # NoProc => p \in Waiting,
         NEW where \in {"selrcv", "selsnd"}, OpenWith(w, k, p, where),
         \/ where = "selrcv" /\ k \in DOMAIN rcvq /\ p = rcvq[k].of
         \/ where = "selsnd" /\ k \in DOMAIN sndq /\ p = sndq[k].of
  PROVE  SInv'
<1>1. /\ \A x \in Procs : pc'[x] = IF x = w THEN where
                                   ELSE IF x = p /\ pc[x] = "blocked" THEN "write" ELSE pc[x]
      /\ InHand(w)' = p
      /\ p # w /\ (p # NoProc => p \in Procs /\ pc[p] \in OnIts)
  BY WakerStarts
<1>3. UNCHANGED <<arg, flag, msgs, sndq>> /\ (\A x : Fits(x)' <=> Fits(x))
  BY DEF OpenWith, Fits
<1>4. \A x \in Procs : pc[x] \notin Wakers /\ (pc'[x] \in Wakers <=> x = w)
  BY <1>1, NobodyWakes DEF Wakers
<1>5. Named' /\ (where = "selsnd" => p \in Senders) /\ (where = "selrcv" => p \notin Senders)
  BY <1>3, Owners, ProcsAssumption DEF SInv, Named, Procs
<1>6. Fresh' /\ TriedInVain'
  BY <1>1, <1>3 DEF SInv, Fresh, TriedInVain, Procs
<1>7. Alive'
  <2>1. \A x \in Senders : pc[x] # "write"
    BY <1>4 DEF SInv, Alive, HeldOpen, Wakers
  <2>2. where = "selsnd" => HeldOpen(p)'
    BY <1>1 DEF HeldOpen
  <2>. QED
    BY <1>1, <1>5, <2>1, <2>2 DEF SInv, Alive, Procs
<1>8. ASSUME NEW x \in Procs, pc'[x] = "selsnd" PROVE x = w /\ pc'[p] \in {"open", "write"}
  <2>1. x = w /\ p \in Senders
    BY <1>1, <1>4, <1>5, <1>8 DEF Wakers
  <2>2. pc[p] # "dead"
    BY <2>1 DEF SInv, Alive
  <2>. QED
    BY <1>1, <2>1, <2>2, ProcsAssumption DEF OnIts, Procs
<1>9. WokenHead'
  BY <1>1, <1>8 DEF WokenHead, Underway
<1>10. Newcomer'
  <2>1. \A s \in Senders : (pc'[s] = "full" => pc[s] = "full") /\ (pc[s] = "woken" => pc'[s] = "woken")
    BY <1>1 DEF Procs
  <2>. QED
    BY <1>1, <1>3, <1>8, <2>1 DEF SInv, Newcomer
<1>11. HeadCared'
  BY <1>1 DEF HeadCared, Cared, Busy, Waking
<1>. QED
  BY <1>5, <1>6, <1>7, <1>9, <1>10, <1>11 DEF SInv

(* Taking an entry out leaves the names of the others.                     *)
LEMMA StillNamed ==
  ASSUME LInv, SInv, NEW w \in Procs, pc[w] \in Wakers, DropTarget(w)
  PROVE  Named'
<1>1. CASE pc[w] \in {"selrcv", "shutrcv"}
  BY <1>1 DEF DropTarget, SInv, Named
<1>2. CASE pc[w] \in {"selsnd", "shutsnd"}
  <2>1. target[w] \in DOMAIN sndq /\ sndq' = Without(sndq, target[w])
    BY <1>2 DEF LInv, OneWaker, DropTarget
  <2>2. \A i \in DOMAIN sndq' : \E j \in DOMAIN sndq : sndq'[i] = sndq[j]
    BY <2>1, DropOnce DEF LInv, Lists
  <2>. QED
    BY <2>2 DEF SInv, Named
<1>. QED
  BY <1>1, <1>2 DEF Wakers

(* The waiter has written, and leaves its list.                            *)
LEMMA SenderWrote ==
  ASSUME IInv, LInv, SInv, Asked, NEW w \in Procs, Readable(w)
  PROVE  SInv'
<1>. DEFINE t == InHand(w)
<1>0. pc[w] \in {"selrcv", "selsnd"} /\ HasWritten(t) /\ DropTarget(w)
  BY DEF Readable
<1>1. t \in Procs /\ \A x \in Procs : pc[x] \in Wakers <=> x = w
  BY <1>0, OnlyOneWakes DEF Wakers, HasWritten
<1>2. PICK to \in {"wakesnd", "idle"} : Goto(w, to) /\ (pc[w] = "selrcv" => to = "wakesnd")
  BY <1>0 DEF Readable, Return, At
<1>3. \A x \in Procs : pc'[x] = IF x = w THEN to ELSE pc[x]
  BY <1>2 DEF Goto, IInv, Functions
<1>4. \A x \in Procs : x # w => arg'[x] = arg[x] /\ flag'[x] = flag[x]
  BY DEF Readable, Return, Asked, IInv, Functions
<1>5. to = "idle" => flag'[w] = FALSE
  BY <1>2 DEF Readable, Return, At, Goto, IInv, Functions
<1>6. \A x \in Procs : x # w => (Fits(x)' <=> Fits(x)) /\ (Awake(x)' <=> Awake(x)) /\ (Busy(x)' <=> Busy(x))
  BY <1>0, <1>3, <1>4 DEF Fits, DropTarget, Awake, Busy
<1>7. \A x \in Procs : pc'[x] \notin Wakers
  BY <1>1, <1>3 DEF Wakers
<1>8. Named' /\ WokenHead'
  <2>1. Named'
    BY <1>0, StillNamed DEF Wakers
  <2>2. WokenHead'
    BY <1>7 DEF WokenHead, Wakers
  <2>. QED
    BY <2>1, <2>2
<1>9. Fresh' /\ TriedInVain'
  BY <1>2, <1>3, <1>4, <1>5, <1>6 DEF SInv, Fresh, TriedInVain, Procs
<1>11. pc[w] = "selsnd" => t \in Senders /\ t # w /\ Underway(t)
  <2>1. pc[w] = "selsnd" => t \in Senders /\ Underway(t)
    BY SenderInHand DEF SInv, WokenHead
  <2>. QED
    BY <2>1 DEF Underway, Awake
<1>10. Alive'
  <2>1. \A x \in Senders : HeldOpen(x) => x = t
    BY <1>1 DEF HeldOpen, Wakers
  <2>2. \A x \in Senders : pc[x] # "write"
    BY <1>0, <2>1 DEF SInv, Alive, HasWritten
  <2>. QED
    BY <1>3, <2>2 DEF SInv, Alive, Procs
<1>. HIDE DEF t
<1>12. Newcomer'
  <2>. SUFFICES ASSUME NEW s \in Senders, (pc[s] = "full" /\ ~flag[s] /\ Fits(s))', sndq' = <<>>
                PROVE  \E x \in Senders : pc'[x] = "woken"
    BY <1>7 DEF Newcomer, Wakers
  <2>1. s # w /\ pc[s] = "full" /\ ~flag[s] /\ Fits(s)
    BY <1>3, <1>4, <1>6 DEF Procs
  <2>2. CASE pc[w] = "selrcv"
    <3>2. sndq' = sndq
      BY <1>0, <2>2 DEF DropTarget
    <3>3. PICK x \in Senders : pc[x] = "woken"
      BY <2>1, <3>2 DEF SInv, Newcomer
    <3>. QED
      BY <1>3, <2>2, <3>3 DEF Procs
  <2>3. CASE pc[w] = "selsnd"
    <3>1. pc[t] = "woken"
      BY <1>0, <2>1, <2>3 DEF SInv, Newcomer, HasWritten, t
    <3>. QED
      BY <1>1, <1>3, <1>11, <2>3, <3>1
  <2>. QED
    BY <1>0, <2>2, <2>3
<1>13. HeadCared'
  <2>1. CASE pc[w] = "selrcv"
    BY <1>2, <1>3, <2>1 DEF HeadCared, Cared, Busy, Waking
  <2>2. CASE pc[w] = "selsnd"
    <3>1. PICK x \in Senders : x = t
      BY <1>11, <2>2
    <3>2. x \in Procs /\ x # w /\ (Busy(x) \/ Awake(x))
      BY <1>0, <1>1, <1>11, <2>2, <3>1 DEF Underway, HasWritten, Busy, Waking
    <3>3. Busy(x)' \/ Awake(x)'
      BY <1>6, <3>2
    <3>. QED
      BY <3>2, <3>3 DEF HeadCared, Cared
  <2>. QED
    BY <1>0, <2>1, <2>2
<1>. QED
  BY <1>8, <1>9, <1>10, <1>12, <1>13 DEF SInv

(* Only a dead waiter, or nobody's entry, is given up; no sender is dead.  *)
LEMMA SenderGivenUp ==
  ASSUME Calm, IInv, LInv, SInv, NEW w \in Procs, TimedOut(w) \/ Shut(w)
  PROVE  SInv'
<1>. DEFINE t == InHand(w)
<1>0. pc[w] \in Wakers
  BY DEF TimedOut, GiveUp, Shut, Wakers
<1>1. \A x \in Procs : pc[x] \in Wakers <=> x = w
  BY <1>0, OnlyOneWakes
<1>2. t = NoProc \/ pc[t] = "dead"
  BY <1>0, CalmSenders DEF TimedOut, Shut, Calm, At, LInv, NoneForgotten
<1>3. pc[w] \in {"selrcv", "shutrcv"}
  <2>1. t \notin Senders
    BY <1>2, ProcsAssumption DEF SInv, Alive, Procs
  <2>. QED
    BY <1>0, <2>1, SenderInHand DEF Wakers
<1>4. PICK to \in {"shutrcv", "wakercv"} : Goto(w, to)
  BY <1>3 DEF TimedOut, GiveUp, Shut, At
<1>5. \A x \in Procs : pc'[x] = IF x = w THEN to ELSE pc[x]
  BY <1>4 DEF Goto, IInv, Functions
<1>6. UNCHANGED <<arg, flag, msgs, sndq>> /\ (\A x : Fits(x)' <=> Fits(x))
  BY <1>3 DEF TimedOut, GiveUp, Shut, DropTarget, Fits
<1>8. \A x \in Procs : pc'[x] \notin {"selsnd", "selrcv", "shutsnd"}
  BY <1>1, <1>4, <1>5 DEF Wakers
<1>10. Named' /\ Fresh' /\ TriedInVain' /\ WokenHead'
  BY <1>5, <1>6, <1>8 DEF SInv, Named, Fresh, TriedInVain, WokenHead, Procs
<1>11. Alive'
  <2>1. \A x \in Senders : ~HeldOpen(x)
    BY <1>1, <1>3 DEF HeldOpen, Wakers
  <2>. QED
    BY <1>5, <2>1 DEF SInv, Alive, Procs
<1>12. Newcomer'
  <2>1. \A x \in Procs : (pc'[x] = "full" => pc[x] = "full") /\ (pc[x] = "woken" => pc'[x] = "woken")
    BY <1>3, <1>5
  <2>. QED
    BY <1>6, <1>8, <2>1 DEF SInv, Newcomer, Procs
<1>13. HeadCared'
  BY <1>5 DEF HeadCared, Cared, Busy, Waking
<1>. QED
  BY <1>10, <1>11, <1>12, <1>13 DEF SInv

LEMMA SndStepKeepsSenders ==
  ASSUME Calm, IInv, LInv, Asked, SInv, NEW s \in Senders, SndStep(s)
  PROVE  SInv'
<1>. USE DEF At, Labels, Wakers, AfterFLOCK, Busy, Waking, Awake, Underway
<1>0. s \in Procs /\ DOMAIN arg = Procs /\ (lock = NoProc => ~HeldOpen(s))
  BY NobodyWakes DEF Procs, Asked, HeldOpen
<1>1. CASE FindSndWait(s)
  <2>1. ~flag[s]
    BY <1>1 DEF FindSndWait, SInv, Fresh
  <2>2. CASE sndq = <<>>
    BY <1>0, <1>1, <2>1, <2>2, SendersAlone DEF FindSndWait, locks
  <2>3. CASE sndq # <<>>
    BY <1>0, <1>1, <2>1, <2>3, SendersAlone DEF FindSndWait, locks
  <2>. QED
    BY <2>2, <2>3
<1>2. CASE SndMain(s) \/ SndNoWait(s) \/ SndInterrupted(s) \/ SndWaitFailed(s) \/ (WaitForSnd(s) /\ TableFull)
  <2>1. PICK to \in {"wakercv", "wakesnd"} : LeaveSnd(s, to)
    BY <1>2 DEF SndMain, SndNoWait, SndInterrupted, SndWaitFailed, WaitForSnd
  <2>2. UNCHANGED <<sndq, lock, target, arg, flag>> /\ Goto(s, to)
    BY <1>2, <2>1 DEF SndMain, SndNoWait, SndInterrupted, SndWaitFailed, WaitForSnd, LeaveSnd
  <2>3. pc[s] \in {"main", "full", "sndfail"}
    BY <1>2 DEF SndMain, SndNoWait, SndInterrupted, SndWaitFailed, WaitForSnd
  <2>4. pc'[s] = to /\ Holding(s)
    BY <1>0, <2>2, <2>3, CalmSenders DEF Goto, IInv, Functions, Holding, Locked, SendersRelock
  <2>. QED
    BY <1>0, <2>2, <2>3, <2>4, SendersAlone
<1>3. CASE SndNoRoom(s)
  <2>1. pc'[s] = "full"
    BY <1>0, <1>3 DEF SndNoRoom, Goto, IInv, Functions
  <2>. QED
    BY <1>0, <1>3, <2>1, SendersAlone DEF SndNoRoom, locks
<1>4. CASE WaitForSnd(s) /\ ~TableFull
  BY <1>4, SenderJoins DEF WaitForSnd, LeaveSnd
<1>5. CASE SndWaitLock(s)
  <2>1. flag'[s] = TRUE /\ \A x \in Procs \ {s} : flag'[x] = flag[x]
    BY <1>0, <1>5 DEF SndWaitLock, IInv, Functions
  <2>2. pc'[s] = "main"
    BY <1>0, <1>5 DEF SndWaitLock, Goto, IInv, Functions
  <2>. QED
    BY <1>0, <1>5, <2>1, <2>2, SendersAlone DEF SndWaitLock
<1>6. CASE WakeupRcv(s)
  <2>. DEFINE found == Interested(arg[s].mtype)
  <2>1. CASE found = {}
    <3>1. pc'[s] = "wakesnd"
      BY <1>0, <1>6, <2>1 DEF WakeupRcv, Goto, IInv, Functions
    <3>. QED
      BY <1>0, <1>6, <2>1, <3>1, SendersAlone DEF WakeupRcv, locks
  <2>2. CASE found # {}
    <3>1. PICK k \in DOMAIN rcvq : OpenWith(s, k, rcvq[k].of, "selrcv")
      BY <1>6, <2>2 DEF WakeupRcv, Oldest, Interested
    <3>2. rcvq[k].of \in Procs \cup {NoProc} /\ (rcvq[k].of # NoProc => rcvq[k].of \in Waiting)
      BY Owners, EntryWaits DEF Procs
    <3>. QED
      BY <1>0, <1>6, <3>1, <3>2, SenderWoken DEF WakeupRcv
  <2>. QED
    BY <2>1, <2>2
<1>. QED
  BY <1>1, <1>2, <1>3, <1>4, <1>5, <1>6 DEF SndStep

(* A receiver that goes somewhere without touching the queue.              *)
LEMMA ReceiverMoves ==
  ASSUME Calm, IInv, LInv, Asked, SInv, NEW r \in Receivers,
         NEW to \in Labels \ {"selsnd", "selrcv", "shutrcv", "shutsnd", "full"}, Goto(r, to),
         pc[r] \notin Waking,
         UNCHANGED <<msgs, sndq, lock, target>>,
         \A x \in Procs \ {r} : arg'[x] = arg[x] /\ flag'[x] = flag[x],
         DOMAIN arg' = Procs
  PROVE  SInv'
<1>1. r \in Procs /\ r \notin Senders
  BY ProcsAssumption DEF Procs
<1>. QED
  BY <1>1, SendersAlone DEF Waking, Wakers, Busy

LEMMA RcvStepKeepsSenders ==
  ASSUME Calm, IInv, LInv, Asked, SInv, NEW r \in Receivers,
         RcvStep(r) \/ RcvWaitNotLocked(r) \/ LookInterrupted(r)
  PROVE  SInv'
<1>. USE DEF At, Labels, Wakers, AfterFLOCK, Busy, Waking
<1>0. r \in Procs /\ r \notin Senders /\ DOMAIN arg = Procs
  BY ProcsAssumption DEF Procs, Asked
<1>1. CASE Receive(r)
  <2>1. Holding(r) /\ pc[r] = "scan"
    BY <1>1 DEF Receive, Holding
  <2>2. Goto(r, "wakesnd") /\ UNCHANGED <<sndq, lock, target, arg, flag>>
    BY <1>1 DEF Receive, Calm
  <2>3. pc'[r] = "wakesnd"
    BY <1>0, <2>2 DEF Goto, IInv, Functions
  <2>. QED
    BY <1>0, <2>1, <2>2, <2>3, SendersAlone DEF Underway, Awake
<1>2. CASE ~Receive(r)
  <2>1. PICK to \in {"look", "ask0", "ask", "enq", "scan", "idle", "open"} : Goto(r, to)
    BY <1>2 DEF RcvStep, RcvWaitLock, RcvWaitNotLocked, LookAtWaiters, LookInterrupted,
                FoundNothing, RcvWaitRelock, TooLong, NoMsg, RcvInterrupted, RcvWaitFailed,
                WaitForRcv, WaitForRcvFails, Return
  <2>2. UNCHANGED <<msgs, sndq, lock, target>> /\ pc[r] \in {"rcvlock", "look", "enq", "scan", "rcvwait", "rcvfail"}
    BY <1>2 DEF RcvStep, RcvWaitLock, RcvWaitNotLocked, LookAtWaiters, LookInterrupted,
                FoundNothing, RcvWaitRelock, TooLong, NoMsg, RcvInterrupted, RcvWaitFailed,
                WaitForRcv, WaitForRcvFails, locks
  <2>3. DOMAIN arg' = Procs /\ \A x \in Procs \ {r} : arg'[x] = arg[x] /\ flag'[x] = flag[x]
    BY <1>0, <1>2 DEF RcvStep, RcvWaitLock, RcvWaitNotLocked, LookAtWaiters, LookInterrupted,
                FoundNothing, RcvWaitRelock, TooLong, NoMsg, RcvInterrupted, RcvWaitFailed,
                WaitForRcv, WaitForRcvFails, Return, IInv, Functions, locks
  <2>. QED
    BY <1>0, <2>1, <2>2, <2>3, ReceiverMoves
<1>. QED
  BY <1>1, <1>2

(* A receiver's entry becomes nobody's; no sender's does.                  *)
LEMMA SendersKept ==
  ASSUME LInv, NEW r \in Receivers PROVE Abandoned(sndq, r) = sndq
<1>1. \A k \in DOMAIN sndq : sndq[k].of # r
  BY Owners, ProcsAssumption DEF Procs
<1>2. sndq = [k \in DOMAIN sndq |-> sndq[k]]
  BY LenProperties DEF LInv, Lists
<1>. QED
  BY <1>1, <1>2 DEF Abandoned

LEMMA AnyStepKeepsSenders ==
  ASSUME Calm, IInv, LInv, Asked, SInv, NEW p \in Procs,
         \/ AnyStep(p) \/ Kill(p)
         \/ FlockInterrupted(p) \/ OpenInterrupted(p) \/ SelectInterrupted(p)
  PROVE  SInv'
<1>. USE DEF At, Labels, Wakers, AfterFLOCK, Busy, Waking, Awake, Underway
<1>0. DOMAIN arg = Procs /\ (lock = NoProc => ~HeldOpen(p))
  BY NobodyWakes DEF Asked, HeldOpen
<1>1. CASE FLOCK(p)
  <2>. DEFINE to == AfterFLOCK[pc[p]]
  <2>1. /\ pc[p] \in DOMAIN AfterFLOCK /\ to \in Labels \ Wakers /\ Goto(p, to)
        /\ to \notin {"open", "blocked", "write", "dead", "idle", "start", "full"}
        /\ (pc[p] = "woken" => to = "sndwait")
        /\ (pc[p] = "start" => to = "find")
        /\ (to = "find" => pc[p] = "start")
    BY <1>1 DEF FLOCK
  <2>2. UNCHANGED <<sndq, lock, target, msgs, arg, flag>> /\ flock \in {NoProc, p}
    BY <1>1 DEF FLOCK
  <2>3. pc'[p] = to
    BY <2>1 DEF Goto, IInv, Functions
  <2>4. p \in Senders /\ to = "find" => ~flag[p]
    BY <2>1 DEF SInv, Fresh
  <2>. QED
    BY <1>0, <2>1, <2>2, <2>3, <2>4, SendersAlone
<1>2. CASE OpenFifo(p)
  <2>1. UNCHANGED <<sndq, lock, target, msgs, arg, flag>> /\ pc[p] = "open"
    BY <1>2 DEF OpenFifo, locks
  <2>2. CASE HasReader(p)
    <3>1. Goto(p, "write")
      BY <1>2, <2>2 DEF OpenFifo
    <3>2. pc'[p] = "write" /\ (p \in Senders => HeldOpen(p))
      BY <2>2, <3>1, SenderInHand DEF Goto, IInv, Functions
    <3>. QED
      BY <1>0, <2>1, <2>2, <3>1, <3>2, SendersAlone
  <2>3. CASE ~HasReader(p)
    <3>1. PICK to \in {"blocked", "noent", "rnoent"} : Goto(p, to)
      BY <1>2, <2>3 DEF OpenFifo
    <3>2. p \in Senders => ~HeldOpen(p)
      BY <2>3, SenderInHand
    <3>. QED
      BY <1>0, <2>1, <3>1, <3>2, SendersAlone
  <2>. QED
    BY <2>2, <2>3
<1>3. CASE WriteFifo(p)
  <2>1. UNCHANGED <<sndq, lock, target, msgs, arg, flag>> /\ pc[p] = "write"
    BY <1>3 DEF WriteFifo, locks
  <2>2. CASE p \in Senders
    <3>1. Goto(p, "woken")
      BY <1>3, <2>1, <2>2, SenderInHand DEF WriteFifo, SInv, Alive
    <3>2. pc'[p] = "woken"
      BY <3>1 DEF Goto, IInv, Functions
    <3>. QED
      BY <1>0, <2>1, <2>2, <3>1, <3>2, SendersAlone
  <2>3. CASE p \notin Senders
    <3>1. p \in Receivers /\ \E to \in {"dead", "rwoken"} : Goto(p, to)
      BY <1>3, <2>3 DEF WriteFifo, Procs
    <3>. QED
      BY <1>0, <2>1, <3>1, ReceiverMoves
  <2>. QED
    BY <2>2, <2>3
<1>4. CASE Kill(p)
  <2>1. p \notin Senders /\ p \in Receivers
    BY <1>4 DEF Kill, Calm, Procs
  <2>. QED
    BY <1>0, <1>4, <2>1, ReceiverMoves DEF Kill, locks
<1>5. CASE WakeupSnd(p)
  <2>1. CASE sndq = <<>>
    <3>1. /\ DOMAIN arg' = Procs /\ flag'[p] = FALSE
          /\ \A x \in Procs \ {p} : arg'[x] = arg[x] /\ flag'[x] = flag[x]
      BY <1>0, <1>5, <2>1 DEF WakeupSnd, Return, IInv, Functions
    <3>2. lock = NoProc /\ ~HeldOpen(p)
      BY <1>0, <1>5 DEF WakeupSnd
    <3>. QED
      BY <1>0, <1>5, <2>1, <3>1, <3>2, SendersAlone DEF WakeupSnd, Return, locks
  <2>2. CASE sndq # <<>>
    <3>1. 1 \in DOMAIN sndq
      BY <2>2, HeadIsSender
    <3>2. sndq[1].of \in Procs \cup {NoProc} /\ (sndq[1].of # NoProc => sndq[1].of \in Waiting)
      BY <3>1, Owners, EntryWaits DEF Procs
    <3>. QED
      BY <1>5, <2>2, <3>1, <3>2, SenderWoken DEF WakeupSnd
  <2>. QED
    BY <2>1, <2>2
<1>6. CASE Readable(p)
  BY <1>6, SenderWrote
<1>7. CASE TimedOut(p) \/ Shut(p)
  BY <1>7, SenderGivenUp
<1>8. CASE FlockInterrupted(p)
  <2>1. p \in Receivers
    BY <1>8 DEF FlockInterrupted, Calm, Calls, Procs
  <2>2. PICK to \in {"sndwait", "sndfail", "rcvwait", "rcvfail", "idle"} : Goto(p, to)
    BY <1>8 DEF FlockInterrupted, LooksAtFLOCK, Return
  <2>3. /\ UNCHANGED <<msgs, sndq, lock, target>> /\ pc[p] \in DOMAIN AfterFLOCK
        /\ DOMAIN arg' = Procs /\ \A x \in Procs \ {p} : arg'[x] = arg[x] /\ flag'[x] = flag[x]
    BY <1>0, <1>8 DEF FlockInterrupted, Return, IInv, Functions, locks
  <2>. QED
    BY <2>1, <2>2, <2>3, ReceiverMoves
<1>9. CASE OpenInterrupted(p)
  <2>1. p \in Receivers
    BY <1>9 DEF OpenInterrupted, Calm, Calls, Procs
  <2>2. PICK to \in {"noent", "rnoent"} : Goto(p, to)
    BY <1>9 DEF OpenInterrupted
  <2>3. sndq' = sndq
    BY <1>9, <2>1, SendersKept DEF OpenInterrupted
  <2>. QED
    BY <1>0, <1>9, <2>1, <2>2, <2>3, ReceiverMoves DEF OpenInterrupted, locks
<1>10. ~SelectInterrupted(p)
  BY DEF SelectInterrupted, Calm
<1>. QED
  BY <1>1, <1>2, <1>3, <1>4, <1>5, <1>6, <1>7, <1>8, <1>9, <1>10 DEF AnyStep

LEMMA StepKeepsSenders ==
  ASSUME Calm PROVE IInv /\ LInv /\ Asked /\ SInv /\ [Next]_vars => SInv'
<1>. SUFFICES ASSUME IInv, LInv, Asked, SInv, [Next]_vars PROVE SInv'
  OBVIOUS
<1>. USE DEF At, Labels, Wakers, AfterFLOCK, Busy, Waking, Awake, Underway
<1>1. ASSUME NEW s \in Senders, NEW a \in SndArg, Snd(s, a) PROVE SInv'
  <2>1. s \in Procs /\ DOMAIN arg' = Procs /\ \A x \in Procs \ {s} : arg'[x] = arg[x]
    BY <1>1 DEF Snd, Asked, Procs
  <2>2. ~flag[s]
    BY <1>1 DEF Snd, SInv, Fresh
  <2>. QED
    BY <1>1, <2>1, <2>2, SendersAlone DEF Snd, locks
<1>2. ASSUME NEW r \in Receivers, NEW a \in RcvArg(r), Rcv(r, a) PROVE SInv'
  <2>1. DOMAIN arg' = Procs /\ \A x \in Procs \ {r} : arg'[x] = arg[x]
    BY <1>2 DEF Rcv, Asked, Procs
  <2>. QED
    BY <1>2, <2>1, ReceiverMoves DEF Rcv, locks
<1>3. ASSUME NEW p \in Procs, Step(p) \/ Kill(p) \/ Interrupted(p) PROVE SInv'
  <2>1. p \in Senders => ~FindInterrupted(p) /\ ~SndWaitInterrupted(p)
    BY DEF FindInterrupted, SndWaitInterrupted, SemInterrupted, Calm, Calls
  <2>. QED
    BY <1>3, <2>1, SndStepKeepsSenders, RcvStepKeepsSenders, AnyStepKeepsSenders DEF Step, Interrupted
<1>4. CASE UNCHANGED vars
  BY <1>4 DEF vars, SInv, Named, Fresh, Alive, HeldOpen, TriedInVain, WokenHead, Newcomer, HeadCared,
              Cared, Fits, Parked, InHand
<1>. QED
  BY <1>1, <1>2, <1>3, <1>4 DEF Next, Call

(* The sender at the head of the list does not wait with room for its      *)
(* message on the queue and nobody on the way to wake it or to retry, if   *)
(* all is calm: receivers may be killed, or interrupted in open, semop and *)
(* F_SETLKW.                                                               *)
THEOREM HeadOfLineServed ==
  ASSUME Calm PROVE Spec => []NoStrandedSender
<1>1. IInv /\ LInv /\ Asked /\ SInv /\ [Next]_vars => SInv'
  BY StepKeepsSenders
<1>2. Spec => []SInv
  BY <1>1, InitSenders, LocksAlways, ListsAlways, AskedAlways, PTL DEF Spec
<1>. QED
  BY <1>2, HeadNotStranded, PTL

----------------------------------------------------------------------------
(* A receiver that no signal takes out of open leaves no entry behind.     *)
Steady(r) == <<r, "open">> \notin Interrupts

(* Every receiver asks for types of its own.  Where two ask for the same   *)
(* type the one behind does not look at the queue, and the claim fails: TLC*)
(* finds the run.                                                          *)
NoTypeShared ==
  \A q, r \in Receivers : q # r =>
    \A k \in AsksFor[q], j \in AsksFor[r] :
      k # j /\ \A t \in Types : ~(Accepts(k, t) /\ Accepts(j, t))

Message == [mtype : Types, mbytes : Sizes]

(* An entry shows a type its maker asks for, the one it waits for if it    *)
(* does; what is nobody's was made by a receiver that left it.             *)
ShowsType(e) ==
  IF e.of = NoProc
  THEN \E q \in Receivers : ~Steady(q) /\ e.mtype \in AsksFor[q]
  ELSE /\ e.mtype \in AsksFor[e.of]
       /\ pc[e.of] \in {"open", "blocked"} => e.mtype = arg[e.of].key

TInv == msgs \in Seq(Message) /\ \A k \in DOMAIN rcvq : ShowsType(rcvq[k])

(* What a receive and a send do to the messages a receiver asks for.       *)
LEMMA FewerWanted ==
  ASSUME TInv, NEW k \in DOMAIN msgs, msgs' = Without(msgs, k)
  PROVE  /\ msgs' \in Seq(Message)
         /\ \A x \in Receivers : arg'[x] = arg[x] /\ Wanted(x)' # {} => Wanted(x) # {}
<1>1. Len(msgs) \in Nat /\ DOMAIN msgs = 1 .. Len(msgs)
  BY LenProperties DEF TInv
<1>2. /\ msgs' \in Seq(Message) /\ Len(msgs') = Len(msgs) - 1
      /\ \A i \in 1 .. Len(msgs) - 1 : msgs'[i] = msgs[IF i < k THEN i ELSE i + 1]
  BY <1>1, WithoutPlaces DEF TInv
<1>3. DOMAIN msgs' = 1 .. Len(msgs) - 1
  BY <1>2, LenProperties
<1>4. ASSUME NEW x \in Receivers, arg'[x] = arg[x], Wanted(x)' # {} PROVE Wanted(x) # {}
  <2>1. PICK i \in 1 .. Len(msgs) - 1 : Accepts(arg[x].key, msgs'[i].mtype)
    BY <1>3, <1>4 DEF Wanted
  <2>. DEFINE j == IF i < k THEN i ELSE i + 1
  <2>2. j \in 1 .. Len(msgs) /\ msgs'[i] = msgs[j]
    BY <1>1, <1>2
  <2>. QED
    BY <1>1, <2>1, <2>2 DEF Wanted
<1>. QED
  BY <1>2, <1>4

LEMMA OneMoreWanted ==
  ASSUME TInv, NEW m \in Message, msgs' = Append(msgs, m)
  PROVE  /\ msgs' \in Seq(Message)
         /\ \A x \in Receivers : arg'[x] = arg[x] /\ Wanted(x)' # {} =>
              Wanted(x) # {} \/ Reaches(m.mtype, x)
<1>1. /\ Len(msgs) \in Nat /\ DOMAIN msgs = 1 .. Len(msgs)
      /\ msgs' \in Seq(Message) /\ Len(msgs') = Len(msgs) + 1
      /\ \A i \in 1 .. Len(msgs) : msgs'[i] = msgs[i]
      /\ msgs'[Len(msgs) + 1] = m
  BY LenProperties, AppendProperties DEF TInv
<1>2. DOMAIN msgs' = 1 .. Len(msgs) + 1
  BY <1>1, LenProperties
<1>3. ASSUME NEW x \in Receivers, arg'[x] = arg[x], Wanted(x)' # {}
      PROVE  Wanted(x) # {} \/ Reaches(m.mtype, x)
  <2>1. PICK i \in 1 .. Len(msgs) + 1 : Accepts(arg[x].key, msgs'[i].mtype)
    BY <1>2, <1>3 DEF Wanted
  <2>2. CASE i = Len(msgs) + 1
    BY <1>1, <2>1, <2>2 DEF Reaches
  <2>3. CASE i # Len(msgs) + 1
    <3>1. i \in DOMAIN msgs /\ msgs'[i] = msgs[i]
      BY <1>1, <2>3
    <3>. QED
      BY <2>1, <3>1 DEF Wanted
  <2>. QED
    BY <2>2, <2>3
<1>. QED
  BY <1>1, <1>3

(* What the search finds is on the queue, and it finds something if there  *)
(* is something to find.                                                   *)
LEMMA SearchFinds ==
  ASSUME TInv, NEW r \in Receivers
  PROVE  /\ Found(r) \subseteq DOMAIN msgs
         /\ Found(r) = {} => Wanted(r) = {}
<1>0. DOMAIN msgs \subseteq Nat /\ \A k \in DOMAIN msgs : msgs[k] \in Message
  BY LenProperties, ElementOfSeq DEF TInv
<1>1. DOMAIN msgs \subseteq Nat /\ \A k \in DOMAIN msgs : msgs[k].mtype \in Types
  BY <1>0 DEF Message
<1>2. ASSUME NEW K \in SUBSET DOMAIN msgs, K # {} PROVE Oldest(K) # {}
  BY <1>1, <1>2, LeastOf DEF Oldest
<1>3. CASE arg[r].key < 0
  <2>1. Found(r) = UNION {Oldest(OfType(t)) : t \in Types}
    BY <1>3 DEF Found
  <2>2. \A t \in Types : OfType(t) \subseteq DOMAIN msgs
    BY DEF OfType
  <2>3. ASSUME NEW k \in DOMAIN msgs PROVE Found(r) # {}
    <3>1. msgs[k].mtype \in Types /\ k \in OfType(msgs[k].mtype)
      BY <1>1 DEF OfType
    <3>2. Oldest(OfType(msgs[k].mtype)) # {}
      BY <1>2, <2>2, <3>1
    <3>. QED
      BY <2>1, <3>1, <3>2
  <2>. QED
    BY <2>1, <2>2, <2>3 DEF Oldest, Wanted
<1>4. CASE ~(arg[r].key < 0)
  <2>1. Found(r) = Oldest(Wanted(r)) /\ Wanted(r) \subseteq DOMAIN msgs
    BY <1>4 DEF Found, Wanted
  <2>. QED
    BY <1>2, <2>1 DEF Oldest
<1>. QED
  BY <1>3, <1>4

(* A step of one process that puts no entry in.                            *)
LEMMA TypesAlone ==
  ASSUME IInv, LInv, TInv, NEW p \in Procs, NEW to \in Labels, Goto(p, to),
         \A x \in Procs \ {p} : arg'[x] = arg[x],
         p \in Receivers /\ to \in {"open", "blocked"} => pc[p] \in {"open", "blocked"} /\ arg'[p] = arg[p],
         \A k \in DOMAIN rcvq' : \E j \in DOMAIN rcvq : rcvq'[k] = rcvq[j],
         msgs' \in Seq(Message)
  PROVE  TInv'
<1>1. \A x \in Procs : pc'[x] = IF x = p THEN to ELSE pc[x]
  BY DEF Goto, IInv, Functions
<1>2. ASSUME NEW e, ShowsType(e), e.of \in Receivers \cup {NoProc} PROVE ShowsType(e)'
  BY <1>1, <1>2 DEF ShowsType, Procs
<1>3. ASSUME NEW k \in DOMAIN rcvq', NEW e, e = rcvq'[k] PROVE ShowsType(e)'
  <2>1. ShowsType(e) /\ e.of \in Receivers \cup {NoProc}
    BY <1>3, Owners DEF TInv
  <2>. QED
    BY <1>2, <2>1
<1>. QED
  BY <1>3 DEF TInv

(* A receiver joins its list.                                              *)
LEMMA TypesJoined ==
  ASSUME IInv, LInv, Asked, TInv, lock = NoProc, NEW r \in Receivers, pc[r] = "enq",
         Goto(r, "open"), UNCHANGED <<arg, msgs>>, rcvq' = Append(rcvq, RcvEntry(r))
  PROVE  TInv'
<1>0. r \in Procs /\ r # NoProc
  BY ProcsAssumption DEF Procs
<1>1. \A x \in Procs : pc'[x] = IF x = r THEN "open" ELSE pc[x]
  BY DEF Goto, IInv, Functions
<1>2. arg[r].key \in AsksFor[r] /\ AsksFor[r] \subseteq Int
  BY <1>0, ArgsAssumption DEF Asked, RcvArg
<1>3. \A k \in DOMAIN rcvq : rcvq[k].of # r
  BY <1>0 DEF LInv, Entries, OnIts, Waiting, OnList
<1>4. \A k \in DOMAIN rcvq' : rcvq'[k] = RcvEntry(r) \/ \E j \in DOMAIN rcvq : rcvq'[k] = rcvq[j]
  <2>1. rcvq \in Seq(RcvEntries) /\ RcvEntry(r) \in RcvEntries
    BY <1>2 DEF LInv, Lists, RcvEntry, RcvEntries
  <2>. QED
    BY <2>1, JoinPlaces
<1>5. ASSUME NEW e, \/ e = RcvEntry(r)
                    \/ ShowsType(e) /\ e.of \in Receivers \cup {NoProc} /\ e.of # r
      PROVE  ShowsType(e)'
  BY <1>0, <1>1, <1>2, <1>5 DEF ShowsType, RcvEntry, Procs
<1>6. ASSUME NEW k \in DOMAIN rcvq', NEW e, e = rcvq'[k] PROVE ShowsType(e)'
  <2>1. CASE e = RcvEntry(r)
    BY <1>5, <2>1
  <2>2. CASE e # RcvEntry(r)
    <3>1. PICK j \in DOMAIN rcvq : e = rcvq[j]
      BY <1>4, <1>6, <2>2
    <3>2. ShowsType(e) /\ e.of \in Receivers \cup {NoProc} /\ e.of # r
      BY <1>3, <3>1, Owners DEF TInv
    <3>. QED
      BY <1>5, <3>2
  <2>. QED
    BY <2>1, <2>2
<1>. QED
  BY <1>6 DEF TInv

(* A receiver leaves its entry behind.                                     *)
LEMMA TypesLeft ==
  ASSUME IInv, LInv, TInv, NEW p \in Procs, OpenInterrupted(p)
  PROVE  TInv'
<1>1. ~Steady(p) /\ p # NoProc /\ UNCHANGED <<arg, msgs>> /\ rcvq' = Abandoned(rcvq, p)
  BY ProcsAssumption DEF OpenInterrupted, Steady
<1>2. \A x \in Procs \ {p} : pc'[x] = pc[x]
  BY DEF OpenInterrupted, Goto, IInv, Functions
<1>3. /\ DOMAIN rcvq' = DOMAIN rcvq
      /\ \A k \in DOMAIN rcvq : /\ rcvq'[k].of = IF rcvq[k].of = p THEN NoProc ELSE rcvq[k].of
                                /\ rcvq'[k].mtype = rcvq[k].mtype
  BY <1>1, AbandonOnce DEF LInv, Lists
<1>4. ASSUME NEW k \in DOMAIN rcvq', NEW e, e = rcvq[k], NEW f, f = rcvq'[k] PROVE ShowsType(f)'
  <2>1. /\ ShowsType(e) /\ e.of \in Receivers \cup {NoProc}
        /\ f.of = (IF e.of = p THEN NoProc ELSE e.of) /\ f.mtype = e.mtype
    BY <1>3, <1>4, Owners DEF TInv
  <2>. QED
    BY <1>1, <1>2, <2>1 DEF ShowsType, Procs
<1>. QED
  BY <1>1, <1>4 DEF TInv

(* LOCK is taken: a waiter may go on from open.                            *)
LEMMA TypesWoken ==
  ASSUME IInv, LInv, TInv, NEW w \in Procs, NEW k, NEW p, NEW where \in {"selrcv", "selsnd"},
         OpenWith(w, k, p, where)
  PROVE  TInv'
<1>1. UNCHANGED <<arg, msgs, rcvq>>
  BY DEF OpenWith
<1>2. \A x \in Procs : pc'[x] \in {"open", "blocked"} => pc[x] \in {"open", "blocked"}
  BY DEF OpenWith, IInv, Functions
<1>3. ASSUME NEW e, ShowsType(e), e.of \in Receivers \cup {NoProc} PROVE ShowsType(e)'
  BY <1>1, <1>2, <1>3 DEF ShowsType, Procs
<1>4. ASSUME NEW j \in DOMAIN rcvq', NEW e, e = rcvq'[j] PROVE ShowsType(e)'
  <2>1. ShowsType(e) /\ e.of \in Receivers \cup {NoProc}
    BY <1>1, <1>4, Owners DEF TInv
  <2>. QED
    BY <1>3, <2>1
<1>. QED
  BY <1>1, <1>4 DEF TInv

(* An entry is taken out.                                                  *)
LEMMA StillShown ==
  ASSUME LInv, NEW w \in Procs, pc[w] \in Wakers, DropTarget(w)
  PROVE  /\ \A k \in DOMAIN rcvq' : \E j \in DOMAIN rcvq : rcvq'[k] = rcvq[j]
         /\ \A x : OnList(x, rcvq)' => OnList(x, rcvq)
<1>1. \A k \in DOMAIN rcvq' : \E j \in DOMAIN rcvq : rcvq'[k] = rcvq[j]
  <2>1. CASE pc[w] \in {"selrcv", "shutrcv"}
    <3>1. target[w] \in DOMAIN rcvq /\ rcvq' = Without(rcvq, target[w])
      BY <2>1 DEF LInv, OneWaker, DropTarget
    <3>. QED
      BY <3>1, DropOnce DEF LInv, Lists
  <2>2. CASE pc[w] \in {"selsnd", "shutsnd"}
    BY <2>2 DEF DropTarget
  <2>. QED
    BY <2>1, <2>2 DEF Wakers
<1>. QED
  BY <1>1 DEF OnList

LEMMA SndStepKeepsTypes ==
  ASSUME IInv, LInv, Asked, TInv, NEW s \in Senders,
         SndStep(s) \/ FindInterrupted(s) \/ SndWaitInterrupted(s)
  PROVE  TInv'
<1>. USE DEF At, Labels, AfterFLOCK
<1>0. s \in Procs /\ s \notin Receivers /\ DOMAIN arg = Procs
  BY ProcsAssumption DEF Procs, Asked
<1>1. CASE SndMain(s)
  <2>1. [mtype |-> arg[s].mtype, mbytes |-> arg[s].mbytes] \in Message
    BY <1>1 DEF SndMain, Asked, SndArg, Message
  <2>2. msgs' \in Seq(Message) /\ UNCHANGED <<rcvq, arg>> /\ Goto(s, "wakercv")
    BY <1>1, <2>1, OneMoreWanted DEF SndMain, LeaveSnd
  <2>. QED
    BY <1>0, <2>2, TypesAlone
<1>2. CASE WakeupRcv(s) /\ Interested(arg[s].mtype) # {}
  BY <1>0, <1>2, TypesWoken DEF WakeupRcv
<1>3. CASE ~SndMain(s) /\ ~(WakeupRcv(s) /\ Interested(arg[s].mtype) # {})
  <2>1. UNCHANGED <<rcvq, msgs>> /\ \A x \in Procs \ {s} : arg'[x] = arg[x]
    BY <1>0, <1>3 DEF SndStep, FindSndWait, SndNoRoom, SndInterrupted, SndNoWait, WaitForSnd, SndWaitLock,
                SndWaitFailed, WakeupRcv, FindInterrupted, SndWaitInterrupted, LeaveSnd, Return
  <2>2. PICK to \in Labels : Goto(s, to)
    BY <1>3 DEF SndStep, FindSndWait, SndNoRoom, SndInterrupted, SndNoWait, WaitForSnd, SndWaitLock,
                SndWaitFailed, WakeupRcv, FindInterrupted, SndWaitInterrupted, LeaveSnd, Return
  <2>3. msgs' \in Seq(Message) /\ \A k \in DOMAIN rcvq' : \E j \in DOMAIN rcvq : rcvq'[k] = rcvq[j]
    BY <2>1 DEF TInv
  <2>. QED
    BY <1>0, <2>1, <2>2, <2>3, TypesAlone
<1>. QED
  BY <1>1, <1>2, <1>3

LEMMA RcvStepKeepsTypes ==
  ASSUME IInv, LInv, Asked, TInv, NEW r \in Receivers,
         RcvStep(r) \/ RcvWaitNotLocked(r) \/ LookInterrupted(r)
  PROVE  TInv'
<1>. USE DEF At, Labels, AfterFLOCK
<1>0. r \in Procs /\ DOMAIN arg = Procs
  BY DEF Procs, Asked
<1>1. CASE WaitForRcv(r) /\ ~TableFull
  BY <1>1, TypesJoined DEF WaitForRcv
<1>2. CASE Receive(r)
  <2>1. PICK k \in DOMAIN msgs : msgs' = Without(msgs, k)
    BY <1>2, SearchFinds DEF Receive
  <2>2. msgs' \in Seq(Message)
    BY <2>1, FewerWanted
  <2>3. PICK to \in {"wakesnd", "idle"} : Goto(r, to)
    BY <1>2 DEF Receive, Return
  <2>4. UNCHANGED rcvq /\ \A x \in Procs \ {r} : arg'[x] = arg[x]
    BY <1>0, <1>2 DEF Receive, Return
  <2>. QED
    BY <1>0, <2>2, <2>3, <2>4, TypesAlone
<1>3. CASE ~Receive(r) /\ ~(WaitForRcv(r) /\ ~TableFull)
  <2>1. UNCHANGED <<rcvq, msgs>> /\ \A x \in Procs \ {r} : arg'[x] = arg[x]
    BY <1>0, <1>3 DEF RcvStep, RcvWaitLock, RcvWaitNotLocked, LookAtWaiters, LookInterrupted,
                FoundNothing, RcvWaitRelock, TooLong, NoMsg, RcvInterrupted, RcvWaitFailed,
                WaitForRcv, WaitForRcvFails, Return
  <2>2. PICK to \in {"look", "ask0", "ask", "enq", "idle"} : Goto(r, to)
    BY <1>3 DEF RcvStep, RcvWaitLock, RcvWaitNotLocked, LookAtWaiters, LookInterrupted,
                FoundNothing, RcvWaitRelock, TooLong, NoMsg, RcvInterrupted, RcvWaitFailed,
                WaitForRcv, WaitForRcvFails, Return
  <2>3. msgs' \in Seq(Message) /\ \A k \in DOMAIN rcvq' : \E j \in DOMAIN rcvq : rcvq'[k] = rcvq[j]
    BY <2>1 DEF TInv
  <2>. QED
    BY <1>0, <2>1, <2>2, <2>3, TypesAlone
<1>. QED
  BY <1>1, <1>2, <1>3

LEMMA AnyStepKeepsTypes ==
  ASSUME IInv, LInv, Asked, TInv, NEW p \in Procs,
         \/ AnyStep(p) \/ Kill(p)
         \/ FlockInterrupted(p) \/ OpenInterrupted(p) \/ SelectInterrupted(p)
  PROVE  TInv'
<1>. USE DEF At, Labels, AfterFLOCK
<1>0. DOMAIN arg = Procs
  BY DEF Asked
<1>1. CASE OpenInterrupted(p)
  BY <1>1, TypesLeft
<1>2. CASE WakeupSnd(p) /\ sndq # <<>>
  BY <1>2, TypesWoken DEF WakeupSnd
<1>3. CASE ~OpenInterrupted(p) /\ ~(WakeupSnd(p) /\ sndq # <<>>)
  <2>1. msgs' = msgs /\ \A x \in Procs \ {p} : arg'[x] = arg[x]
    BY <1>0, <1>3 DEF AnyStep, FLOCK, OpenFifo, WriteFifo, WakeupSnd, Readable, TimedOut, GiveUp, Shut,
                Kill, FlockInterrupted, SelectInterrupted, DropTarget, Return
  <2>2. PICK to \in Labels : /\ Goto(p, to)
                             /\ to \in {"open", "blocked"} => pc[p] \in {"open", "blocked"} /\ arg' = arg
    BY <1>3 DEF AnyStep, FLOCK, OpenFifo, WriteFifo, WakeupSnd, Readable, TimedOut, GiveUp, Shut,
                Kill, FlockInterrupted, SelectInterrupted, Return
  <2>3. \A k \in DOMAIN rcvq' : \E j \in DOMAIN rcvq : rcvq'[k] = rcvq[j]
    <3>1. CASE Readable(p) \/ Shut(p)
      BY <3>1, StillShown DEF Readable, Shut, Wakers
    <3>2. CASE ~Readable(p) /\ ~Shut(p)
      <4>1. rcvq' = rcvq
        BY <1>3, <3>2 DEF AnyStep, FLOCK, OpenFifo, WriteFifo, WakeupSnd, TimedOut, GiveUp,
                Kill, FlockInterrupted, SelectInterrupted
      <4>. QED
        BY <4>1
    <3>. QED
      BY <3>1, <3>2
  <2>4. msgs' \in Seq(Message)
    BY <2>1 DEF TInv
  <2>. QED
    BY <2>1, <2>2, <2>3, <2>4, TypesAlone
<1>. QED
  BY <1>1, <1>2, <1>3

LEMMA StepKeepsTypes == IInv /\ LInv /\ Asked /\ TInv /\ [Next]_vars => TInv'
<1>. SUFFICES ASSUME IInv, LInv, Asked, TInv, [Next]_vars PROVE TInv'
  OBVIOUS
<1>0. DOMAIN arg = Procs /\ msgs \in Seq(Message)
  BY DEF Asked, TInv
<1>1. ASSUME NEW s \in Senders, NEW a \in SndArg, Snd(s, a) PROVE TInv'
  BY <1>0, <1>1, TypesAlone DEF Snd, Procs, Labels, AfterFLOCK
<1>2. ASSUME NEW r \in Receivers, NEW a \in RcvArg(r), Rcv(r, a) PROVE TInv'
  BY <1>0, <1>2, TypesAlone DEF Rcv, Procs, Labels, AfterFLOCK
<1>3. ASSUME NEW p \in Procs, Step(p) \/ Kill(p) \/ Interrupted(p) PROVE TInv'
  BY <1>3, SndStepKeepsTypes, RcvStepKeepsTypes, AnyStepKeepsTypes DEF Step, Interrupted
<1>4. CASE UNCHANGED vars
  BY <1>4 DEF vars, TInv, ShowsType
<1>. QED
  BY <1>1, <1>2, <1>3, <1>4 DEF Next, Call

LEMMA TypesAlways == Spec => []TInv
<1>1. Init => TInv
  BY EmptySeq DEF Init, TInv
<1>. QED
  BY <1>1, LocksAlways, ListsAlways, AskedAlways, StepKeepsTypes, PTL DEF Spec

----------------------------------------------------------------------------
Announcing == {"wakercv", "selrcv", "shutrcv"}

(* With types of its own a receiver is never behind another.               *)
NeverBehind == \A r \in Receivers : Steady(r) => pc[r] # "ask0"

(* Who goes to wait has found nothing, and FLOCK keeps it so.              *)
EmptyHanded == \A r \in Receivers : Steady(r) /\ pc[r] = "enq" => Wanted(r) = {}

(* The entry in hand shows a type that was sent.                           *)
Addressed(w) == w \in Senders /\ Accepts(rcvq[target[w]].mtype, arg[w].mtype)

AllAddressed == \A w \in Procs : pc[w] \in {"selrcv", "shutrcv"} => Addressed(w)

(* A sender of something r asks for is looking for receivers.              *)
Announced(r) == \E s \in Senders : pc[s] \in Announcing /\ Reaches(arg[s].mtype, r)

Fetched ==
  \A r \in Parked \cap Receivers :
    Steady(r) /\ OnList(r, rcvq) /\ Wanted(r) # {} => Announced(r)

RInv == NeverBehind /\ EmptyHanded /\ AllAddressed /\ Fetched

LEMMA ReceiverNotStranded == RInv => NoStrandedReceiver
BY DEF RInv, Fetched, Announced, Announcing, NoStrandedReceiver, Steady

LEMMA InitReceivers == Init => RInv
BY DEF Init, RInv, NeverBehind, EmptyHanded, AllAddressed, Fetched, Parked, Procs

(* A step of one process; what it announces and whom it takes off or puts  *)
(* on the list, for the claim to stay.                                     *)
LEMMA ReceiversAlone ==
  ASSUME IInv, LInv, RInv, NEW p \in Procs, NEW to \in Labels, Goto(p, to),
         \A x \in Procs \ {p} : arg'[x] = arg[x],
         \A x \in Procs \ {p} : pc[x] \in {"selrcv", "shutrcv"} =>
           target'[x] = target[x] /\ rcvq'[target[x]].mtype = rcvq[target[x]].mtype,
         msgs' = msgs \/ (Holding(p) /\ to \notin Locked),
         to \in {"selrcv", "shutrcv"} => Addressed(p)',
         p \in Receivers /\ Steady(p) => to # "ask0",
         p \in Receivers /\ Steady(p) /\ to \in {"enq", "open", "blocked"} =>
           \/ Wanted(p)' = {}
           \/ /\ to # "enq" /\ pc[p] \in {"open", "blocked"}
              /\ UNCHANGED <<rcvq, msgs>> /\ arg'[p] = arg[p],
         \A x \in Receivers \ {p} : OnList(x, rcvq)' => OnList(x, rcvq),
         \A x \in Receivers \ {p} : Wanted(x)' # {} =>
           \/ Wanted(x) # {}
           \/ to = "wakercv" /\ p \in Senders /\ Reaches(arg'[p].mtype, x),
         p \in Senders /\ pc[p] \in Announcing =>
           \/ to \in Announcing /\ arg'[p] = arg[p]
           \/ \A x \in (Parked \cap Receivers) \ {p} : OnList(x, rcvq)' => ~Reaches(arg[p].mtype, x)
  PROVE  RInv'
<1>1. \A x \in Procs : pc'[x] = IF x = p THEN to ELSE pc[x]
  BY DEF Goto, IInv, Functions
<1>3. NeverBehind'
  BY <1>1 DEF RInv, NeverBehind, Procs
<1>4. EmptyHanded'
  <2>. SUFFICES ASSUME NEW r \in Receivers, Steady(r), pc'[r] = "enq" PROVE Wanted(r)' = {}
    BY DEF EmptyHanded
  <2>1. CASE r = p
    BY <1>1, <2>1
  <2>2. CASE r # p
    <3>1. r \in Procs /\ pc[r] = "enq" /\ Wanted(r) = {} /\ arg'[r] = arg[r]
      BY <1>1, <2>2 DEF RInv, EmptyHanded, Procs
    <3>2. ~Holding(p)
      BY <2>2, <3>1 DEF IInv, FlockHeld, Holding
    <3>. QED
      BY <3>1, <3>2 DEF Wanted
  <2>. QED
    BY <2>1, <2>2
<1>5. AllAddressed'
  <2>. SUFFICES ASSUME NEW w \in Procs, w # p, pc'[w] \in {"selrcv", "shutrcv"} PROVE Addressed(w)'
    BY <1>1 DEF AllAddressed
  <2>1. /\ pc[w] \in {"selrcv", "shutrcv"} /\ Addressed(w) /\ arg'[w] = arg[w]
        /\ target'[w] = target[w] /\ rcvq'[target[w]].mtype = rcvq[target[w]].mtype
    BY <1>1 DEF RInv, AllAddressed
  <2>. QED
    BY <2>1 DEF Addressed
<1>6. Fetched'
  <2>. SUFFICES ASSUME NEW r \in Receivers, Steady(r), (r \in Parked)', OnList(r, rcvq)', Wanted(r)' # {}
                PROVE  Announced(r)'
    BY DEF Fetched
  <2>0. r \in Procs /\ pc'[r] \in {"open", "blocked"}
    BY DEF Parked
  <2>1. CASE r = p
    <3>1. r \in Parked /\ OnList(r, rcvq) /\ Wanted(r) # {} /\ arg'[r] = arg[r] /\ p \notin Senders
      BY <1>1, <2>0, <2>1, ProcsAssumption DEF Parked, Wanted
    <3>2. PICK s \in Senders : pc[s] \in Announcing /\ Reaches(arg[s].mtype, r)
      BY <3>1 DEF RInv, Fetched, Announced
    <3>3. s # p /\ s \in Procs
      BY <3>1 DEF Procs
    <3>. QED
      BY <1>1, <3>1, <3>2, <3>3 DEF Announced, Reaches
  <2>2. CASE r # p
    <3>1. r \in Parked /\ OnList(r, rcvq) /\ arg'[r] = arg[r]
      BY <1>1, <2>0, <2>2 DEF Parked
    <3>2. CASE Wanted(r) = {}
      <4>1. to = "wakercv" /\ p \in Senders /\ Reaches(arg'[p].mtype, r)
        BY <2>2, <3>2
      <4>. QED
        BY <1>1, <3>1, <4>1 DEF Announced, Announcing, Reaches
    <3>3. CASE Wanted(r) # {}
      <4>1. PICK s \in Senders : pc[s] \in Announcing /\ Reaches(arg[s].mtype, r)
        BY <3>1, <3>3 DEF RInv, Fetched, Announced
      <4>2. s \in Procs
        BY DEF Procs
      <4>3. CASE s = p
        BY <1>1, <2>2, <3>1, <4>1, <4>2, <4>3 DEF Announced, Reaches
      <4>4. CASE s # p
        BY <1>1, <3>1, <4>1, <4>2, <4>4 DEF Announced, Reaches
      <4>. QED
        BY <4>3, <4>4
    <3>. QED
      BY <3>2, <3>3
  <2>. QED
    BY <2>1, <2>2
<1>. QED
  BY <1>3, <1>4, <1>5, <1>6 DEF RInv

(* The same with the list, the queue and all targets as they are.          *)
LEMMA ReceiverGoesOn ==
  ASSUME IInv, LInv, RInv, NEW p \in Procs, NEW to \in Labels, Goto(p, to),
         UNCHANGED <<rcvq, target, msgs>>,
         \A x \in Procs \ {p} : arg'[x] = arg[x],
         to \notin Announcing /\ pc[p] \notin Announcing,
         p \in Receivers /\ Steady(p) => to # "ask0",
         p \in Receivers /\ Steady(p) /\ to \in {"enq", "open", "blocked"} =>
           \/ Wanted(p)' = {}
           \/ to # "enq" /\ pc[p] \in {"open", "blocked"} /\ arg'[p] = arg[p]
  PROVE  RInv'
<1>1. \A x \in Receivers \ {p} : Wanted(x)' = Wanted(x)
  BY DEF Wanted, Procs
<1>2. to \notin {"selrcv", "shutrcv"}
  BY DEF Announcing
<1>. QED
  BY <1>1, <1>2, ReceiversAlone

(* A waker opens the FIFO of its waiter.                                   *)
LEMMA ReceiverWoken ==
  ASSUME IInv, LInv, Asked, RInv, lock = NoProc, NEW w \in Procs, pc[w] \in {"wakercv", "wakesnd"},
         NEW k, NEW p \in Procs \cup {NoProc}, p # NoProc => p \in Waiting,
         NEW where \in {"selrcv", "selsnd"}, OpenWith(w, k, p, where),
         \/ /\ where = "selrcv" /\ k \in DOMAIN rcvq /\ p = rcvq[k].of /\ pc[w] = "wakercv"
            /\ w \in Senders /\ Accepts(rcvq[k].mtype, arg[w].mtype)
         \/ where = "selsnd" /\ k \in DOMAIN sndq /\ p = sndq[k].of /\ pc[w] = "wakesnd"
  PROVE  RInv'
<1>1. /\ \A x \in Procs : pc'[x] = IF x = w THEN where
                                   ELSE IF x = p /\ pc[x] = "blocked" THEN "write" ELSE pc[x]
      /\ target'[w] = k
      /\ p # w /\ (p # NoProc => p \in Procs /\ pc[p] \in OnIts)
  BY WakerStarts
<1>3. UNCHANGED <<arg, msgs, rcvq>>
  BY DEF OpenWith
<1>4. \A x \in Procs : pc[x] \notin Wakers
  BY NobodyWakes
<1>6. NeverBehind'
  BY <1>1 DEF RInv, NeverBehind, Procs
<1>7. EmptyHanded'
  BY <1>1, <1>3 DEF RInv, EmptyHanded, Wanted, Procs
<1>8. AllAddressed'
  <2>. SUFFICES ASSUME NEW x \in Procs, pc'[x] \in {"selrcv", "shutrcv"} PROVE Addressed(x)'
    BY DEF AllAddressed
  <2>1. x = w /\ where = "selrcv"
    BY <1>1, <1>4 DEF Wakers
  <2>. QED
    BY <1>1, <1>3, <2>1 DEF Addressed
<1>9. Fetched'
  <2>. SUFFICES ASSUME NEW r \in Receivers, Steady(r), (r \in Parked)', OnList(r, rcvq)', Wanted(r)' # {}
                PROVE  Announced(r)'
    BY DEF Fetched
  <2>1. r \in Parked /\ OnList(r, rcvq) /\ Wanted(r) # {}
    BY <1>1, <1>3 DEF Parked, Wanted
  <2>2. PICK s \in Senders : pc[s] \in Announcing /\ Reaches(arg[s].mtype, r)
    BY <2>1 DEF RInv, Fetched, Announced
  <2>3. s \in Procs /\ s # p
    BY <1>1, <2>2, ProcsAssumption DEF Procs, OnIts, Announcing
  <2>4. pc'[s] \in Announcing
    BY <1>1, <2>2, <2>3 DEF Announcing
  <2>. QED
    BY <1>3, <2>2, <2>4 DEF Announced, Reaches
<1>. QED
  BY <1>6, <1>7, <1>8, <1>9 DEF RInv

(* The premise, for two receivers.                                         *)
LEMMA NobodyElseAsks ==
  ASSUME NoTypeShared, NEW q \in Receivers, NEW r \in Receivers, q # r,
         NEW k \in AsksFor[q], NEW j \in AsksFor[r]
  PROVE  k # j /\ \A t \in Types : ~(Accepts(k, t) /\ Accepts(j, t))
BY DEF NoTypeShared

LEMMA SndStepKeepsReceivers ==
  ASSUME SendersRelock, IInv, LInv, Asked, TInv, RInv, NEW s \in Senders,
         SndStep(s) \/ FindInterrupted(s) \/ SndWaitInterrupted(s)
  PROVE  RInv'
<1>. USE DEF At, Labels, AfterFLOCK, Announcing
<1>0. s \in Procs /\ s \notin Receivers /\ DOMAIN arg = Procs
  BY ProcsAssumption DEF Procs, Asked
<1>1. CASE SndMain(s)
  <2>. DEFINE m == [mtype |-> arg[s].mtype, mbytes |-> arg[s].mbytes]
  <2>1. m \in Message
    BY <1>1 DEF SndMain, Asked, SndArg, Message
  <2>2. msgs' = Append(msgs, m) /\ UNCHANGED <<rcvq, target, arg>> /\ Goto(s, "wakercv") /\ pc[s] = "main"
    BY <1>1 DEF SndMain, LeaveSnd
  <2>. HIDE DEF m
  <2>3. \A x \in Receivers : Wanted(x)' # {} => Wanted(x) # {} \/ Reaches(m.mtype, x)
    BY <2>1, <2>2, OneMoreWanted
  <2>4. m.mtype = arg[s].mtype
    BY DEF m
  <2>5. Holding(s) /\ "wakercv" \notin Locked
    BY <2>2 DEF Holding, SendersRelock, Locked
  <2>. QED
    BY <1>0, <2>2, <2>3, <2>4, <2>5, ReceiversAlone
<1>2. CASE WakeupRcv(s)
  <2>. DEFINE t == arg[s].mtype
  <2>1. CASE Interested(t) = {}
    <3>1. \A x \in Parked \cap Receivers : OnList(x, rcvq) => ~Reaches(t, x)
      <4>. SUFFICES ASSUME NEW x \in Parked \cap Receivers, OnList(x, rcvq) PROVE ~Accepts(arg[x].key, t)
        BY DEF Reaches
      <4>1. PICK k \in DOMAIN rcvq : rcvq[k].of = x
        BY DEF OnList
      <4>2. ~Accepts(rcvq[k].mtype, t)
        BY <2>1 DEF Interested
      <4>3. ShowsType(rcvq[k]) /\ x # NoProc /\ pc[x] \in {"open", "blocked"}
        BY ProcsAssumption DEF TInv, Parked
      <4>4. rcvq[k].mtype = arg[x].key
        BY <4>1, <4>3 DEF ShowsType
      <4>. QED
        BY <4>2, <4>4
    <3>2. UNCHANGED <<rcvq, target, arg, msgs>> /\ Goto(s, "wakesnd") /\ pc[s] = "wakercv"
      BY <1>2, <2>1 DEF WakeupRcv
    <3>3. \A x \in Receivers : Wanted(x)' = Wanted(x)
      BY <3>2 DEF Wanted
    <3>. QED
      BY <1>0, <3>1, <3>2, <3>3, ReceiversAlone
  <2>2. CASE Interested(t) # {}
    <3>1. PICK k \in Interested(t) : OpenWith(s, k, rcvq[k].of, "selrcv")
      BY <1>2, <2>2 DEF WakeupRcv, Oldest
    <3>2. k \in DOMAIN rcvq /\ Accepts(rcvq[k].mtype, t)
      BY DEF Interested
    <3>3. rcvq[k].of \in Procs \cup {NoProc} /\ (rcvq[k].of # NoProc => rcvq[k].of \in Waiting)
      BY <3>2, Owners, EntryWaits DEF Procs
    <3>4. pc[s] = "wakercv" /\ lock = NoProc
      BY <1>2 DEF WakeupRcv
    <3>. QED
      BY <1>0, <3>1, <3>2, <3>3, <3>4, ReceiverWoken
  <2>. QED
    BY <2>1, <2>2
<1>3. CASE ~SndMain(s) /\ ~WakeupRcv(s)
  <2>1. UNCHANGED <<rcvq, target, msgs>> /\ pc[s] \in {"find", "main", "full", "sndwait", "sndfail"}
    BY <1>3 DEF SndStep, FindSndWait, SndNoRoom, SndInterrupted, SndNoWait, WaitForSnd,
                SndWaitLock, SndWaitFailed, FindInterrupted, SndWaitInterrupted, LeaveSnd
  <2>2. PICK to \in {"main", "full", "wakesnd", "open", "idle"} : Goto(s, to)
    BY <1>3 DEF SndStep, FindSndWait, SndNoRoom, SndInterrupted, SndNoWait, WaitForSnd,
                SndWaitLock, SndWaitFailed, FindInterrupted, SndWaitInterrupted, LeaveSnd, Return
  <2>3. \A x \in Procs \ {s} : arg'[x] = arg[x]
    BY <1>0, <1>3 DEF SndStep, FindSndWait, SndNoRoom, SndInterrupted, SndNoWait, WaitForSnd,
                SndWaitLock, SndWaitFailed, FindInterrupted, SndWaitInterrupted, LeaveSnd, Return
  <2>. QED
    BY <1>0, <2>1, <2>2, <2>3, ReceiverGoesOn
<1>. QED
  BY <1>1, <1>2, <1>3

LEMMA RcvStepKeepsReceivers ==
  ASSUME NoTypeShared, IInv, LInv, Asked, TInv, RInv, NEW r \in Receivers,
         RcvStep(r) \/ RcvWaitNotLocked(r) \/ LookInterrupted(r)
  PROVE  RInv'
<1>. USE DEF At, Labels, AfterFLOCK, Announcing
<1>0. r \in Procs /\ r \notin Senders /\ DOMAIN arg = Procs
  BY ProcsAssumption DEF Procs, Asked
<1>1. CASE LookAtWaiters(r)
  <2>1. ASSUME Steady(r), NEW k \in DOMAIN rcvq, NEW e, e = rcvq[k] PROVE e.mtype # arg[r].key
    <3>1. ShowsType(e) /\ e.of \in Receivers \cup {NoProc}
      BY <2>1, Owners DEF TInv
    <3>2. arg[r].key \in AsksFor[r]
      BY <1>1 DEF LookAtWaiters, Asked, RcvArg
    <3>3. PICK q \in Receivers : q # r /\ e.mtype \in AsksFor[q]
      <4>1. CASE e.of = NoProc
        BY <2>1, <3>1, <4>1 DEF ShowsType
      <4>2. CASE e.of # NoProc
        <5>1. e.of \in Receivers /\ e.of \in Waiting
          BY <2>1, <3>1, <4>2, EntryWaits
        <5>2. e.of # r
          BY <1>1, <5>1 DEF LookAtWaiters, LInv, Entries, OnIts
        <5>. QED
          BY <3>1, <4>2, <5>1, <5>2 DEF ShowsType
      <4>. QED
        BY <4>1, <4>2
    <3>. QED
      BY <3>2, <3>3, NobodyElseAsks
  <2>2. UNCHANGED <<rcvq, target, arg, msgs>> /\ pc[r] = "look"
    BY <1>1 DEF LookAtWaiters
  <2>3. PICK to \in {"ask0", "ask"} : Goto(r, to) /\ (Steady(r) => to = "ask")
    BY <1>1, <2>1 DEF LookAtWaiters
  <2>. QED
    BY <1>0, <2>2, <2>3, ReceiverGoesOn
<1>2. CASE RcvWaitLock(r) \/ RcvWaitNotLocked(r) \/ RcvWaitRelock(r)
  <2>1. PICK to \in {"look", "ask"} : Goto(r, to)
    BY <1>2 DEF RcvWaitLock, RcvWaitNotLocked, RcvWaitRelock
  <2>2. UNCHANGED <<rcvq, target, arg, msgs>> /\ pc[r] \in {"rcvlock", "rcvwait"}
    BY <1>2 DEF RcvWaitLock, RcvWaitNotLocked, RcvWaitRelock
  <2>. QED
    BY <1>0, <2>1, <2>2, ReceiverGoesOn
<1>3. CASE FoundNothing(r)
  <2>1. UNCHANGED <<rcvq, target, arg, msgs>> /\ Goto(r, "enq") /\ pc[r] = "scan" /\ Wanted(r) = {}
    BY <1>3, SearchFinds DEF FoundNothing
  <2>2. Wanted(r)' = {}
    BY <2>1 DEF Wanted
  <2>. QED
    BY <1>0, <2>1, <2>2, ReceiverGoesOn
<1>4. CASE Receive(r)
  <2>1. PICK to \in {"wakesnd", "idle"} : Goto(r, to)
    BY <1>4 DEF Receive, Return
  <2>2. \A x \in Procs \ {r} : arg'[x] = arg[x]
    BY <1>0, <1>4 DEF Receive, Return
  <2>3. PICK k \in DOMAIN msgs : msgs' = Without(msgs, k)
    BY <1>4, SearchFinds DEF Receive
  <2>4. \A x \in Receivers : arg'[x] = arg[x] /\ Wanted(x)' # {} => Wanted(x) # {}
    BY <2>3, FewerWanted
  <2>5. UNCHANGED <<rcvq, target>> /\ pc[r] = "scan"
    BY <1>4 DEF Receive
  <2>6. Holding(r) /\ to \notin Locked
    BY <2>5 DEF Holding, Locked
  <2>. QED
    BY <1>0, <2>1, <2>2, <2>4, <2>5, <2>6, ReceiversAlone DEF Procs
<1>5. CASE TooLong(r) \/ NoMsg(r) \/ RcvInterrupted(r) \/ RcvWaitFailed(r) \/ LookInterrupted(r) \/ (WaitForRcv(r) /\ TableFull)
  <2>1. /\ UNCHANGED <<rcvq, target, msgs>> /\ Return(r)
        /\ pc[r] \in {"scan", "rcvfail", "enq", "rcvwait", "look"}
    BY <1>5 DEF TooLong, NoMsg, RcvInterrupted, RcvWaitFailed, LookInterrupted, WaitForRcv, WaitForRcvFails
  <2>2. Goto(r, "idle") /\ (\A x \in Procs \ {r} : arg'[x] = arg[x])
    BY <1>0, <2>1 DEF Return
  <2>. QED
    BY <1>0, <2>1, <2>2, ReceiverGoesOn
<1>6. CASE WaitForRcv(r) /\ ~TableFull
  <2>1. /\ UNCHANGED <<target, arg, msgs>> /\ Goto(r, "open") /\ pc[r] = "enq"
        /\ rcvq' = Append(rcvq, RcvEntry(r)) /\ lock = NoProc
    BY <1>6 DEF WaitForRcv
  <2>2. Steady(r) => Wanted(r)' = {}
    BY <2>1 DEF RInv, EmptyHanded, Wanted
  <2>3. ~OnList(r, rcvq)
    BY <1>0, <2>1 DEF LInv, Entries, Waiting, OnIts
  <2>4. RcvEntry(r) \in RcvEntries /\ RcvEntry(r).of = r
    BY <2>1, ArgsAssumption DEF Asked, RcvArg, RcvEntry, RcvEntries
  <2>5. \A x \in Receivers \ {r} : OnList(x, rcvq)' => OnList(x, rcvq)
    BY <2>1, <2>3, <2>4, AppendOnce DEF LInv, Lists
  <2>6. \A x \in Procs : pc[x] \notin {"selrcv", "shutrcv"}
    BY <2>1, NobodyWakes DEF Wakers
  <2>7. \A x \in Receivers : Wanted(x)' = Wanted(x)
    BY <2>1 DEF Wanted
  <2>. QED
    BY <1>0, <2>1, <2>2, <2>5, <2>6, <2>7, ReceiversAlone
<1>. QED
  BY <1>1, <1>2, <1>3, <1>4, <1>5, <1>6 DEF RcvStep

(* A waker ends: nobody else it could have woken is waiting.               *)
LEMMA ReceiverWrote ==
  ASSUME NoTypeShared, IInv, LInv, Asked, TInv, RInv, NEW p \in Procs, Readable(p)
  PROVE  RInv'
<1>. USE DEF At, Labels, AfterFLOCK, Announcing
<1>0. pc[p] \in {"selrcv", "selsnd"} /\ HasWritten(InHand(p)) /\ DropTarget(p)
  BY DEF Readable
<1>1. PICK to \in {"wakesnd", "idle"} : Goto(p, to)
  BY DEF Readable, Return
<1>2. \A x \in Procs \ {p} : arg'[x] = arg[x]
  BY DEF Readable, Return, Asked
<1>3. msgs' = msgs /\ (\A x : OnList(x, rcvq)' => OnList(x, rcvq)) /\ \A x \in Receivers \ {p} : Wanted(x)' = Wanted(x)
  BY <1>0, <1>2, StillShown DEF DropTarget, Wakers, Wanted, Procs
<1>4. \A x \in Procs \ {p} : pc[x] \notin {"selrcv", "shutrcv"}
  BY <1>0, OnlyOneWakes DEF Wakers
<1>5. ASSUME pc[p] = "selrcv", NEW x \in Parked \cap Receivers PROVE ~Reaches(arg[p].mtype, x)
  <2>. DEFINE q == InHand(p)
              e == rcvq[target[p]]
  <2>1. target[p] \in DOMAIN rcvq /\ q = e.of /\ q # NoProc /\ q \in Procs
    BY <1>0, <1>5, ProcsAssumption DEF LInv, OneWaker, InHand, HasWritten
  <2>2. q \in Receivers /\ ShowsType(e) /\ Accepts(e.mtype, arg[p].mtype) /\ p \in Senders
    BY <1>5, <2>1, Owners DEF TInv, RInv, AllAddressed, Addressed
  <2>. HIDE DEF q, e
  <2>3. e.mtype \in AsksFor[q]
    BY <2>1, <2>2 DEF ShowsType
  <2>4. x # q /\ x \in Procs /\ pc[x] # "idle"
    BY <1>0 DEF HasWritten, Parked, q
  <2>5. arg[x].key \in AsksFor[x] /\ arg[p].mtype \in Types
    BY <1>5, <2>2, <2>4 DEF Asked, RcvArg, SndArg
  <2>. QED
    BY <2>2, <2>3, <2>4, <2>5, NobodyElseAsks DEF Reaches
<1>. QED
  BY <1>0, <1>1, <1>2, <1>3, <1>4, <1>5, ReceiversAlone

LEMMA AnyStepKeepsReceivers ==
  ASSUME NoTypeShared, IInv, LInv, Asked, TInv, RInv, NEW p \in Procs,
         \/ AnyStep(p) \/ Kill(p)
         \/ FlockInterrupted(p) \/ OpenInterrupted(p) \/ SelectInterrupted(p)
  PROVE  RInv'
<1>. USE DEF At, Labels, AfterFLOCK, Announcing
<1>0. DOMAIN arg = Procs
  BY DEF Asked
<1>1. CASE FLOCK(p) \/ FlockInterrupted(p)
  <2>1. PICK to \in {"find", "sndwait", "sndfail", "enq", "scan", "rcvwait", "rcvfail", "idle"} :
          Goto(p, to) /\ (to = "enq" => pc[p] = "ask0")
    BY <1>1 DEF FLOCK, FlockInterrupted, LooksAtFLOCK, Return
  <2>2. /\ UNCHANGED <<rcvq, target, msgs>> /\ pc[p] \in DOMAIN AfterFLOCK
        /\ \A x \in Procs \ {p} : arg'[x] = arg[x]
    BY <1>0, <1>1 DEF FLOCK, FlockInterrupted, Return
  <2>3. p \in Receivers /\ Steady(p) => to # "enq"
    BY <2>1 DEF RInv, NeverBehind
  <2>. QED
    BY <2>1, <2>2, <2>3, ReceiverGoesOn
<1>2. CASE OpenFifo(p) \/ WriteFifo(p) \/ Kill(p)
  <2>1. PICK to \in {"write", "blocked", "noent", "rnoent", "dead", "woken", "rwoken"} :
          Goto(p, to) /\ (to = "blocked" => pc[p] = "open")
    BY <1>2 DEF OpenFifo, WriteFifo, Kill
  <2>2. UNCHANGED <<rcvq, target, arg, msgs>> /\ pc[p] \in {"open", "blocked", "write"}
    BY <1>2 DEF OpenFifo, WriteFifo, Kill, locks
  <2>. QED
    BY <2>1, <2>2, ReceiverGoesOn
<1>3. CASE WakeupSnd(p) /\ sndq = <<>>
  <2>1. UNCHANGED <<rcvq, target, msgs>> /\ Return(p) /\ pc[p] = "wakesnd"
    BY <1>3 DEF WakeupSnd
  <2>2. Goto(p, "idle") /\ (\A x \in Procs \ {p} : arg'[x] = arg[x])
    BY <1>0, <2>1 DEF Return
  <2>. QED
    BY <2>1, <2>2, ReceiverGoesOn
<1>4. CASE WakeupSnd(p) /\ sndq # <<>>
  <2>1. 1 \in DOMAIN sndq
    BY <1>4, EmptySeq, LenProperties DEF LInv, Lists
  <2>2. sndq[1].of \in Procs \cup {NoProc} /\ (sndq[1].of # NoProc => sndq[1].of \in Waiting)
    BY <2>1, Owners, EntryWaits DEF Procs
  <2>. QED
    BY <1>4, <2>1, <2>2, ReceiverWoken DEF WakeupSnd
<1>5. CASE Readable(p)
  BY <1>5, ReceiverWrote
<1>6. CASE TimedOut(p) \/ SelectInterrupted(p)
  <2>0. GiveUp(p)
    BY <1>6 DEF TimedOut, SelectInterrupted
  <2>1. PICK to \in {"shutrcv", "shutsnd"} : Goto(p, to) /\ (to = "shutrcv" <=> pc[p] = "selrcv")
    BY <2>0 DEF GiveUp
  <2>2. UNCHANGED <<rcvq, target, arg, msgs>> /\ pc[p] \in {"selrcv", "selsnd"}
    BY <2>0 DEF GiveUp
  <2>3. to = "shutrcv" => Addressed(p)'
    BY <2>1, <2>2 DEF RInv, AllAddressed, Addressed
  <2>4. \A x \in Receivers : Wanted(x)' = Wanted(x)
    BY <2>2 DEF Wanted
  <2>. QED
    BY <2>1, <2>2, <2>3, <2>4, ReceiversAlone
<1>7. CASE Shut(p)
  <2>0. pc[p] \in {"shutrcv", "shutsnd"} /\ DropTarget(p)
    BY <1>7 DEF Shut
  <2>1. PICK to \in {"wakercv", "wakesnd"} : Goto(p, to) /\ (to = "wakercv" <=> pc[p] = "shutrcv")
    BY <1>7 DEF Shut
  <2>2. UNCHANGED <<arg, msgs>> /\ (\A x : OnList(x, rcvq)' => OnList(x, rcvq)) /\ \A x \in Receivers : Wanted(x)' = Wanted(x)
    BY <1>7, <2>0, StillShown DEF Shut, DropTarget, Wakers, Wanted
  <2>3. \A x \in Procs \ {p} : pc[x] \notin {"selrcv", "shutrcv"}
    BY <2>0, OnlyOneWakes DEF Wakers
  <2>. QED
    BY <2>0, <2>1, <2>2, <2>3, ReceiversAlone
<1>8. CASE OpenInterrupted(p)
  <2>1. /\ UNCHANGED <<arg, msgs, target>> /\ pc[p] = "blocked" /\ p # NoProc
        /\ rcvq' = Abandoned(rcvq, p) /\ \A x \in Receivers : Wanted(x)' = Wanted(x)
    BY <1>8, ProcsAssumption DEF OpenInterrupted, Wanted
  <2>2. PICK to \in {"noent", "rnoent"} : Goto(p, to)
    BY <1>8 DEF OpenInterrupted
  <2>3. /\ \A k \in DOMAIN rcvq : rcvq'[k].mtype = rcvq[k].mtype
        /\ \A x : x # NoProc => (OnList(x, rcvq)' => OnList(x, rcvq))
    BY <2>1, AbandonOnce DEF LInv, Lists
  <2>4. \A x \in Procs : pc[x] \in {"selrcv", "shutrcv"} => rcvq'[target[x]].mtype = rcvq[target[x]].mtype
    BY <2>3 DEF LInv, OneWaker
  <2>5. \A x \in Receivers : OnList(x, rcvq)' => OnList(x, rcvq)
    BY <2>3, ProcsAssumption DEF Procs
  <2>. QED
    BY <2>1, <2>2, <2>4, <2>5, ReceiversAlone
<1>. QED
  BY <1>1, <1>2, <1>3, <1>4, <1>5, <1>6, <1>7, <1>8 DEF AnyStep

LEMMA StepKeepsReceivers ==
  ASSUME NoTypeShared, SendersRelock
  PROVE  IInv /\ LInv /\ Asked /\ TInv /\ RInv /\ [Next]_vars => RInv'
<1>. SUFFICES ASSUME IInv, LInv, Asked, TInv, RInv, [Next]_vars PROVE RInv'
  OBVIOUS
<1>. USE DEF At, Labels, AfterFLOCK, Announcing
<1>1. ASSUME NEW s \in Senders, NEW a \in SndArg, Snd(s, a) PROVE RInv'
  <2>1. /\ \A x \in Procs \ {s} : arg'[x] = arg[x]
        /\ UNCHANGED <<rcvq, target, msgs>> /\ pc[s] = "idle" /\ Goto(s, "start")
        /\ s \in Procs
    BY <1>1 DEF Snd, Asked, Procs
  <2>. QED
    BY <2>1, ReceiverGoesOn
<1>2. ASSUME NEW r \in Receivers, NEW a \in RcvArg(r), Rcv(r, a) PROVE RInv'
  <2>1. /\ \A x \in Procs \ {r} : arg'[x] = arg[x]
        /\ UNCHANGED <<rcvq, target, msgs>> /\ pc[r] = "idle" /\ Goto(r, "rcvlock")
        /\ r \in Procs
    BY <1>2 DEF Rcv, Asked, Procs
  <2>. QED
    BY <2>1, ReceiverGoesOn
<1>3. ASSUME NEW p \in Procs, Step(p) \/ Kill(p) \/ Interrupted(p) PROVE RInv'
  BY <1>3, SndStepKeepsReceivers, RcvStepKeepsReceivers, AnyStepKeepsReceivers DEF Step, Interrupted
<1>4. CASE UNCHANGED vars
  BY <1>4 DEF vars, RInv, NeverBehind, EmptyHanded, AllAddressed, Addressed, Fetched,
              Announced, Wanted, Reaches, Parked
<1>. QED
  BY <1>1, <1>2, <1>3, <1>4 DEF Next, Call

(* A receiver whose own open is not interrupted does not wait with a       *)
(* message for it on the queue and nobody on the way to wake it, if every  *)
(* receiver asks for types of its own and no sender's request for FLOCK is *)
(* interrupted: any process may be killed or late, and any other call of it*)
(* interrupted.                                                            *)
THEOREM WantedIsFetched ==
  ASSUME NoTypeShared, SendersRelock PROVE Spec => []NoStrandedReceiver
<1>1. IInv /\ LInv /\ Asked /\ TInv /\ RInv /\ [Next]_vars => RInv'
  BY StepKeepsReceivers
<1>2. Spec => []RInv
  BY <1>1, InitReceivers, LocksAlways, ListsAlways, AskedAlways, TypesAlways, PTL DEF Spec
<1>. QED
  BY <1>2, ReceiverNotStranded, PTL
=============================================================================
