----------------------------- MODULE DiskQWait -----------------------------
(***************************************************************************)
(* Processes sending to and receiving from one DiskQ queue: the file lock  *)
(* (FLOCK), the three semaphores (LOCK, SND_WAIT, RCV_WAIT), the two lists *)
(* of waiting processes in shared memory, and the FIFOs through which a    *)
(* waiter is woken.                                                        *)
(*                                                                         *)
(* A waiter makes a FIFO, enters a list, gives up its locks and opens the  *)
(* FIFO for writing, which blocks until a waker opens it too; the waker,   *)
(* holding LOCK, waits at most a second for the waiter's write, unlinks    *)
(* the FIFO and takes the waiter off the list.                             *)
(*                                                                         *)
(* What the operations do to the queue under FLOCK is module DiskQFile's   *)
(* subject; here the queue is a sequence of messages.                      *)
(***************************************************************************)
EXTENDS Integers, Sequences, FiniteSets

CONSTANTS
  Senders, Receivers, NoProc,
  Types,      (* message types in use                                      *)
  Sizes,      (* message lengths in use                                    *)
  QBytes,     (* capacity of the queue                                     *)
  AsksFor,    (* for each receiver the types it may ask for: 0 for any, -t *)
              (* for those up to t                                         *)
  SndFlags,   (* the flag arguments of d_msgsnd in use, sets of flags      *)
  RcvFlags,   (* the same for d_msgrcv                                     *)
  BufSizes,   (* buffer lengths receivers pass                             *)
  MaxWait,    (* MAX_WAIT, waiters the shared memory has room for          *)
  Killable,   (* processes that may be killed while they wait              *)
  Slow,       (* TRUE: a waiter may miss the second its waker gives it     *)
  Signals,    (* TRUE: signals may be pending when the code looks for them *)
  Interrupts  (* pairs of a process and a call that a signal may end       *)

Procs == Senders \cup Receivers

(* A signal that a process catches ends a call that blocks: semop and      *)
(* select in any case, open and F_SETLKW unless the handler is installed   *)
(* with SA_RESTART.                                                        *)
Calls == {"open", "fcntl", "semop", "select"}

ASSUME ProcsAssumption ==
  /\ Senders \cap Receivers = {}
  /\ NoProc \notin Procs

ASSUME ArgsAssumption ==
  /\ Types \subseteq Nat \ {0}
  /\ Sizes \subseteq Nat \ {0} /\ \A n \in Sizes : n <= QBytes
  /\ QBytes \in Nat /\ MaxWait \in Nat
  /\ AsksFor \in [Receivers -> SUBSET Int]
  /\ SndFlags \subseteq SUBSET {"NOWAIT"}
  /\ RcvFlags \subseteq SUBSET {"NOWAIT", "NOERROR"}
  /\ BufSizes \subseteq Nat
  /\ Killable \subseteq Procs
  /\ Slow \in BOOLEAN /\ Signals \in BOOLEAN
  /\ Interrupts \subseteq Procs \X Calls

VARIABLES
  pc,       (* where each process is                                       *)
  arg,      (* the arguments of its call                                   *)
  flag,     (* fcall of d_msgsnd, flag of d_msgrcv: it waited and was woken*)
  site,     (* the call of wait_for_rcv a receiver is in                   *)
  target,   (* the place on its list of the waiter a waker has in hand     *)
  msgs,     (* the messages on the queue, oldest first                     *)
  rcvq,     (* rs .. re, the entries of the receivers waiting              *)
  sndq,     (* ss .. se, those of the senders                              *)
  flock, lock, sndw, rcvw   (* the holders of FLOCK, LOCK, SND_WAIT, RCV_WAIT *)

locks == <<flock, lock, sndw, rcvw>>
vars == <<pc, arg, flag, site, target, msgs, rcvq, sndq, flock, lock, sndw, rcvw>>

SndArg == [mtype : Types, mbytes : Sizes, flags : SndFlags]
RcvArg(r) == [key : AsksFor[r], bufsz : BufSizes, flags : RcvFlags]
NoArg == [flags |-> {}]

(* struct d_msgwait_ds: whose FIFO it names, NoProc once that process has  *)
(* left without it, and the type a receiver waits for.                     *)
SndEntry(s) == [of |-> s]
RcvEntry(r) == [of |-> r, mtype |-> arg[r].key]

Init ==
  /\ pc = [p \in Procs |-> "idle"]
  /\ arg = [p \in Procs |-> NoArg]
  /\ flag = [p \in Procs |-> FALSE]
  /\ site = [r \in Receivers |-> "none"]
  /\ target = [p \in Procs |-> 0]
  /\ msgs = <<>> /\ rcvq = <<>> /\ sndq = <<>>
  /\ flock = NoProc /\ lock = NoProc /\ sndw = NoProc /\ rcvw = NoProc

----------------------------------------------------------------------------
BytesOf(q) ==
  LET upTo[k \in 0 .. Len(q)] ==
        IF k = 0 THEN 0 ELSE upTo[k - 1] + q[k].mbytes
  IN upTo[Len(q)]

Fits(s) == BytesOf(msgs) + arg[s].mbytes <= QBytes

(* What a msgtyp stands for, and the messages a receiver asks for.         *)
Accepts(key, t) == key \in {0, t} \/ (key < 0 /\ -key >= t)

Wanted(r) == {k \in DOMAIN msgs : Accepts(arg[r].key, msgs[k].mtype)}

Without(q, k) == SubSeq(q, 1, k - 1) \o SubSeq(q, k + 1, Len(q))

OnList(p, q) == \E k \in DOMAIN q : q[k].of = p

(* The maker of an entry leaves, and its entry stays.                      *)
Abandoned(q, p) ==
  [k \in DOMAIN q |-> IF q[k].of = p THEN [q[k] EXCEPT !.of = NoProc] ELSE q[k]]

(* Waiters of both kinds share one table.                                  *)
TableFull == Len(rcvq) + Len(sndq) >= MaxWait

At(p, where) == pc[p] = where
Goto(p, where) == pc' = [pc EXCEPT ![p] = where]

(* Return from the call, to a canonical idle state.                        *)
Return(p) ==
  /\ Goto(p, "idle")
  /\ arg' = [arg EXCEPT ![p] = NoArg]
  /\ flag' = [flag EXCEPT ![p] = FALSE]
  /\ site' = IF p \in Receivers THEN [site EXCEPT ![p] = "none"] ELSE site

(* Where FLOCK (F_SETLKW) is asked for, and where the caller goes on.      *)
AfterFLOCK ==
  [start |-> "find", woken |-> "sndwait", noent |-> "sndfail",
   ask0 |-> "enq", ask |-> "scan", rwoken |-> "rcvwait", rnoent |-> "rcvfail"]

(* It is granted again to a process that already has it.                   *)
FLOCK(p) ==
  /\ pc[p] \in DOMAIN AfterFLOCK
  /\ flock \in {NoProc, p}
  /\ flock' = p
  /\ Goto(p, AfterFLOCK[pc[p]])
  /\ UNCHANGED <<arg, flag, site, target, msgs, rcvq, sndq, lock, sndw, rcvw>>

(* The places that look at its result, and return (-7, -7, -9).            *)
LooksAtFLOCK == {"start", "ask0", "ask"}

(* EINTR while another process has it: all other places go on as if FLOCK  *)
(* had been granted.                                                       *)
FlockInterrupted(p) ==
  /\ <<p, "fcntl">> \in Interrupts
  /\ pc[p] \in DOMAIN AfterFLOCK
  /\ flock \notin {NoProc, p}
  /\ IF pc[p] \in LooksAtFLOCK
     THEN Return(p)
     ELSE Goto(p, AfterFLOCK[pc[p]]) /\ UNCHANGED <<arg, flag, site>>
  /\ UNCHANGED <<target, msgs, rcvq, sndq, locks>>

(* FUNLOCK gives up what the caller has, and nothing of another process.   *)
FUNLOCK(p) == flock' = IF flock = p THEN NoProc ELSE flock

(* A process that waits for a semaphore may be interrupted.                *)
SemBusy(p) ==
  \/ pc[p] \in {"find", "full", "look", "enq"} /\ lock # NoProc
  \/ pc[p] \in {"find", "sndwait"} /\ sndw # NoProc
  \/ pc[p] \in {"rcvlock", "rcvwait"} /\ rcvw # NoProc

SemInterrupted(p) == <<p, "semop">> \in Interrupts /\ SemBusy(p)

----------------------------------------------------------------------------
(* d_msgsnd.                                                               *)

Snd(s, a) ==
  /\ At(s, "idle")
  /\ arg' = [arg EXCEPT ![s] = a]
  /\ Goto(s, "start")
  /\ UNCHANGED <<flag, site, target, msgs, rcvq, sndq, locks>>

(* Mutant: a new sender does not look at those who wait.                   *)
FindSndWaitNot(s) ==
  /\ At(s, "find")
  /\ sndw = NoProc /\ lock = NoProc
  /\ Goto(s, "main")
  /\ UNCHANGED <<arg, flag, site, target, msgs, rcvq, sndq, locks>>

(* FindSndWait: a sender that finds others waiting goes to wait itself.    *)
FindSndWait(s) ==
  /\ At(s, "find")
  /\ sndw = NoProc /\ lock = NoProc
  /\ Goto(s, IF sndq = <<>> THEN "main" ELSE "full")
  /\ UNCHANGED <<arg, flag, site, target, msgs, rcvq, sndq, locks>>

(* It cannot look: d_msgsnd returns, with FLOCK.                           *)
FindInterrupted(s) ==
  /\ At(s, "find")
  /\ SemInterrupted(s)
  /\ Return(s)
  /\ UNCHANGED <<target, msgs, rcvq, sndq, locks>>

(* Mutant: SND_WAIT is released only after a message was sent.             *)
LeaveSndForgets(s, next) ==
  /\ sndw' = IF flag[s] /\ next = "wakercv" THEN NoProc ELSE sndw
  /\ FUNLOCK(s)
  /\ Goto(s, next)
  /\ UNCHANGED <<arg, flag, site, target, rcvq, lock, rcvw>>

(* The end of the loop: the locks are given up (SND_WAIT, which knows no   *)
(* owner, even if another has it); a message sent is first announced to a  *)
(* receiver, and every call ends by waking a sender.                       *)
LeaveSnd(s, next) ==
  /\ sndw' = IF flag[s] THEN NoProc ELSE sndw
  /\ FUNLOCK(s)
  /\ Goto(s, next)
  /\ UNCHANGED <<arg, flag, site, target, rcvq, lock, rcvw>>

(* Mutant: only the first message on an empty queue is announced.          *)
SndMainQuiet(s) ==
  /\ At(s, "main")
  /\ Fits(s)
  /\ msgs' = Append(msgs, [mtype |-> arg[s].mtype, mbytes |-> arg[s].mbytes])
  /\ LeaveSnd(s, IF msgs = <<>> THEN "wakercv" ELSE "wakesnd")
  /\ UNCHANGED sndq

(* d_msgsnd_main finds room.                                               *)
SndMain(s) ==
  /\ At(s, "main")
  /\ Fits(s)
  /\ msgs' = Append(msgs, [mtype |-> arg[s].mtype, mbytes |-> arg[s].mbytes])
  /\ LeaveSnd(s, "wakercv")
  /\ UNCHANGED sndq

(* It finds none (EAGAIN).                                                 *)
SndNoRoom(s) ==
  /\ At(s, "main")
  /\ ~Fits(s)
  /\ Goto(s, "full")
  /\ UNCHANGED <<arg, flag, site, target, msgs, rcvq, sndq, locks>>

(* A pending signal (EINTR).                                               *)
SndInterrupted(s) ==
  /\ Signals
  /\ At(s, "main")
  /\ Fits(s)
  /\ LeaveSnd(s, "wakesnd")
  /\ UNCHANGED <<msgs, sndq>>

(* wait == 1 and IPC_NOWAIT (EAGAIN).                                      *)
SndNoWait(s) ==
  /\ At(s, "full")
  /\ "NOWAIT" \in arg[s].flags
  /\ LeaveSnd(s, "wakesnd")
  /\ UNCHANGED <<msgs, sndq>>

(* wait_for_snd up to FUNLOCK: in at the tail, or at the head after having *)
(* been woken in vain.                                                     *)
WaitForSnd(s) ==
  /\ At(s, "full")
  /\ "NOWAIT" \notin arg[s].flags
  /\ lock = NoProc
  /\ IF TableFull
     THEN LeaveSnd(s, "wakesnd") /\ UNCHANGED sndq
     ELSE /\ sndq' = IF flag[s] THEN <<SndEntry(s)>> \o sndq ELSE Append(sndq, SndEntry(s))
          /\ LeaveSnd(s, "open")
  /\ UNCHANGED msgs

(* wait_for_snd after the write: FLOCK, then SND_WAIT_LOCK.                *)
SndWaitLock(s) ==
  /\ At(s, "sndwait")
  /\ sndw = NoProc
  /\ sndw' = s
  /\ flag' = [flag EXCEPT ![s] = TRUE]
  /\ Goto(s, "main")
  /\ UNCHANGED <<arg, site, target, msgs, rcvq, sndq, flock, lock, rcvw>>

(* wait_for_snd could not open its FIFO, and asked for FLOCK.              *)
SndWaitFailed(s) ==
  /\ At(s, "sndfail")
  /\ LeaveSnd(s, "wakesnd")
  /\ UNCHANGED <<msgs, sndq>>

(* wait_for_snd waited for LOCK or SND_WAIT.                               *)
SndWaitInterrupted(s) ==
  /\ At(s, "sndwait") \/ (At(s, "full") /\ "NOWAIT" \notin arg[s].flags)
  /\ SemInterrupted(s)
  /\ LeaveSnd(s, "wakesnd")
  /\ UNCHANGED <<msgs, sndq>>

----------------------------------------------------------------------------
(* d_msgrcv.                                                               *)

Rcv(r, a) ==
  /\ At(r, "idle")
  /\ arg' = [arg EXCEPT ![r] = a]
  /\ Goto(r, "rcvlock")
  /\ UNCHANGED <<flag, site, target, msgs, rcvq, sndq, locks>>

RcvWaitLock(r) ==
  /\ At(r, "rcvlock")
  /\ rcvw = NoProc
  /\ rcvw' = r
  /\ Goto(r, "look")
  /\ UNCHANGED <<arg, flag, site, target, msgs, rcvq, sndq, flock, lock, sndw>>

(* EINTR: the result is not looked at.                                     *)
RcvWaitNotLocked(r) ==
  /\ At(r, "rcvlock")
  /\ SemInterrupted(r)
  /\ Goto(r, "look")
  /\ UNCHANGED <<arg, flag, site, target, msgs, rcvq, sndq, locks>>

(* The look at the waiters before the first scan: behind an entry for the  *)
(* same type the receiver goes to wait without looking at the queue.  What *)
(* is given back at the end may be the RCV_WAIT of another.                *)
LookAtWaiters(r) ==
  /\ At(r, "look")
  /\ lock = NoProc
  /\ IF \E k \in DOMAIN rcvq : rcvq[k].mtype = arg[r].key
     THEN /\ flag' = [flag EXCEPT ![r] = TRUE]
          /\ site' = [site EXCEPT ![r] = "look"]
          /\ Goto(r, "ask0")
     ELSE Goto(r, "ask") /\ UNCHANGED <<flag, site>>
  /\ rcvw' = NoProc
  /\ UNCHANGED <<arg, target, msgs, rcvq, sndq, flock, lock, sndw>>

LookInterrupted(r) ==
  /\ At(r, "look")
  /\ SemInterrupted(r)
  /\ rcvw' = NoProc
  /\ Return(r)
  /\ UNCHANGED <<target, msgs, rcvq, sndq, flock, lock, sndw>>

(* read_data refuses a message longer than the buffer unless the flag      *)
(* argument is MSG_NOERROR and nothing else.                               *)
Takes(r, k) == msgs[k].mbytes <= arg[r].bufsz \/ arg[r].flags = {"NOERROR"}

(* The message the search of d_msgrcv stops at: the oldest of those asked  *)
(* for, and for a negative msgtyp the oldest of some type (which one is    *)
(* DiskQSelect's subject), be it one that was asked for or not.            *)
Oldest(K) == {k \in K : \A j \in K : k <= j}

OfType(t) == {k \in DOMAIN msgs : msgs[k].mtype = t}

Found(r) ==
  IF arg[r].key < 0 THEN UNION {Oldest(OfType(t)) : t \in Types} ELSE Oldest(Wanted(r))

(* Mutant: a receive ends without waking a sender.                         *)
ReceiveQuiet(r) ==
  /\ At(r, "scan")
  /\ \E k \in Found(r) : Takes(r, k) /\ msgs' = Without(msgs, k)
  /\ rcvw' = IF flag[r] THEN NoProc ELSE rcvw
  /\ FUNLOCK(r)
  /\ Return(r)
  /\ UNCHANGED <<target, rcvq, sndq, lock, sndw>>

Receive(r) ==
  /\ At(r, "scan")
  /\ \E k \in Found(r) : Takes(r, k) /\ msgs' = Without(msgs, k)
  /\ rcvw' = IF flag[r] THEN NoProc ELSE rcvw
  /\ FUNLOCK(r)
  /\ \/ Goto(r, "wakesnd") /\ UNCHANGED <<arg, flag, site>>
     \/ Signals /\ Return(r)                                   \* EINTR
  /\ UNCHANGED <<target, rcvq, sndq, lock, sndw>>

(* E2BIG: the return forgets RCV_WAIT.                                     *)
TooLong(r) ==
  /\ At(r, "scan")
  /\ \E k \in Found(r) : ~Takes(r, k)
  /\ FUNLOCK(r)
  /\ Return(r)
  /\ UNCHANGED <<target, msgs, rcvq, sndq, lock, sndw, rcvw>>

(* Whether a receiver that found nothing waits: the flag argument is       *)
(* compared in one place, and tested for its bit in the other.             *)
Waits(r) ==
  IF msgs = <<>> THEN "NOWAIT" \notin arg[r].flags
  ELSE arg[r].flags # {"NOWAIT"}

FoundNothing(r) ==
  /\ At(r, "scan")
  /\ Found(r) = {} /\ Waits(r)
  /\ site' = [site EXCEPT ![r] = IF msgs = <<>> THEN "empty" ELSE "scan"]
  /\ Goto(r, "enq")
  /\ UNCHANGED <<arg, flag, target, msgs, rcvq, sndq, locks>>

(* ENOMSG: RCV_WAIT is forgotten here too.                                 *)
NoMsg(r) ==
  /\ At(r, "scan")
  /\ Found(r) = {} /\ ~Waits(r)
  /\ FUNLOCK(r)
  /\ Return(r)
  /\ UNCHANGED <<target, msgs, rcvq, sndq, lock, sndw, rcvw>>

(* EINTR: and FLOCK as well when there were messages of other types.       *)
RcvInterrupted(r) ==
  /\ Signals
  /\ At(r, "scan")
  /\ Found(r) = {} /\ Waits(r)
  /\ IF msgs = <<>> THEN FUNLOCK(r) ELSE UNCHANGED flock
  /\ Return(r)
  /\ UNCHANGED <<target, msgs, rcvq, sndq, lock, sndw, rcvw>>

(* What the three callers of wait_for_rcv do when it fails: the one that   *)
(* found the queue empty releases both locks, the others return with FLOCK.*)
WaitForRcvFails(r) ==
  /\ IF site[r] = "empty" THEN FUNLOCK(r) ELSE UNCHANGED flock
  /\ Return(r)
  /\ UNCHANGED <<target, msgs, rcvq, sndq, lock, sndw>>

(* wait_for_rcv up to FUNLOCK: always in at the tail.                      *)
WaitForRcv(r) ==
  /\ At(r, "enq")
  /\ lock = NoProc
  /\ IF TableFull
     THEN rcvw' = NoProc /\ WaitForRcvFails(r)
     ELSE /\ rcvq' = Append(rcvq, RcvEntry(r))
          /\ rcvw' = IF flag[r] /\ site[r] # "look" THEN NoProc ELSE rcvw
          /\ FUNLOCK(r)
          /\ Goto(r, "open")
          /\ UNCHANGED <<arg, flag, site, target, msgs, sndq, lock, sndw>>

(* wait_for_rcv after the write: FLOCK, then RCV_WAIT_LOCK; the caller     *)
(* asks for FLOCK once more and scans again.                               *)
RcvWaitRelock(r) ==
  /\ At(r, "rcvwait")
  /\ rcvw = NoProc
  /\ rcvw' = r
  /\ flag' = [flag EXCEPT ![r] = TRUE]
  /\ Goto(r, "ask")
  /\ UNCHANGED <<arg, site, target, msgs, rcvq, sndq, flock, lock, sndw>>

(* wait_for_rcv could not open its FIFO and asked for FLOCK, or waited for *)
(* LOCK or RCV_WAIT and was interrupted.                                   *)
RcvWaitFailed(r) ==
  /\ At(r, "rcvfail") \/ (pc[r] \in {"enq", "rcvwait"} /\ SemInterrupted(r))
  /\ rcvw' = IF site[r] = "empty" THEN NoProc ELSE rcvw
  /\ WaitForRcvFails(r)

----------------------------------------------------------------------------
(* The waiter's side of its FIFO, outside all locks.                       *)

Waiting == {p \in Procs : OnList(p, rcvq) \/ OnList(p, sndq)}

(* Whom a waker has in hand.                                               *)
InHand(w) ==
  IF pc[w] \in {"selrcv", "shutrcv"} THEN rcvq[target[w]].of ELSE sndq[target[w]].of

HasReader(p) == \E w \in Procs : pc[w] \in {"selrcv", "selsnd"} /\ InHand(w) = p

(* open(O_WRONLY): the FIFO exists while its maker is on a list.           *)
OpenFifo(p) ==
  /\ At(p, "open")
  /\ Goto(p, IF HasReader(p) THEN "write"
             ELSE IF p \in Waiting THEN "blocked"
             ELSE IF p \in Senders THEN "noent" ELSE "rnoent")
  /\ UNCHANGED <<arg, flag, site, target, msgs, rcvq, sndq, locks>>

(* EINTR: the process leaves its FIFO and its entry to the next waker.     *)
OpenInterrupted(p) ==
  /\ <<p, "open">> \in Interrupts
  /\ At(p, "blocked")
  /\ rcvq' = Abandoned(rcvq, p) /\ sndq' = Abandoned(sndq, p)
  /\ Goto(p, IF p \in Senders THEN "noent" ELSE "rnoent")
  /\ UNCHANGED <<arg, flag, site, target, msgs, locks>>

(* write: with the reader gone SIGPIPE ends the process.                   *)
WriteFifo(p) ==
  /\ At(p, "write")
  /\ Goto(p, IF ~HasReader(p) THEN "dead"
             ELSE IF p \in Senders THEN "woken" ELSE "rwoken")
  /\ UNCHANGED <<arg, flag, site, target, msgs, rcvq, sndq, locks>>

Kill(p) ==
  /\ p \in Killable
  /\ pc[p] \in {"open", "blocked"}
  /\ Goto(p, "dead")
  /\ UNCHANGED <<arg, flag, site, target, msgs, rcvq, sndq, locks>>

----------------------------------------------------------------------------
(* wakeup_rcv and wakeup_snd, holding LOCK throughout.                     *)

(* Mutant: a waiter for type 0 or a range of types is not thought of.      *)
InterestedSame(t) == {k \in DOMAIN rcvq : rcvq[k].mtype = t}

Interested(t) == {k \in DOMAIN rcvq : Accepts(rcvq[k].mtype, t)}

(* LOCK, and the open of the FIFO of p, at place k of its list, which lets *)
(* its own open go on.                                                     *)
OpenWith(w, k, p, where) ==
  /\ lock' = w
  /\ target' = [target EXCEPT ![w] = k]
  /\ pc' = [x \in Procs |-> IF x = w THEN where
                             ELSE IF x = p /\ At(x, "blocked") THEN "write" ELSE pc[x]]
  /\ UNCHANGED <<arg, flag, site, msgs, rcvq, sndq, flock, sndw, rcvw>>

WakeupRcv(s) ==
  /\ At(s, "wakercv")
  /\ lock = NoProc
  /\ LET found == Interested(arg[s].mtype) IN
     IF found = {}
     THEN /\ Goto(s, "wakesnd")
          /\ UNCHANGED <<arg, flag, site, target, msgs, rcvq, sndq, locks>>
     ELSE \E k \in Oldest(found) : OpenWith(s, k, rcvq[k].of, "selrcv")

WakeupSnd(p) ==
  /\ At(p, "wakesnd")
  /\ lock = NoProc
  /\ IF sndq = <<>>
     THEN Return(p) /\ UNCHANGED <<target, msgs, rcvq, sndq, locks>>
     ELSE OpenWith(p, 1, sndq[1].of, "selsnd")

(* The waiter wrote: its FIFO is removed, it leaves its list, LOCK is      *)
(* released.  A call is over once it has woken a sender.                   *)
HasWritten(p) == p \in Procs /\ pc[p] \notin {"open", "blocked", "write", "dead"}

DropTarget(w) ==
  /\ IF pc[w] \in {"selrcv", "shutrcv"}
     THEN rcvq' = Without(rcvq, target[w]) /\ UNCHANGED sndq
     ELSE sndq' = Without(sndq, target[w]) /\ UNCHANGED rcvq
  /\ target' = [target EXCEPT ![w] = 0]
  /\ lock' = NoProc
  /\ UNCHANGED <<msgs, flock, sndw, rcvw>>

Readable(w) ==
  /\ pc[w] \in {"selrcv", "selsnd"}
  /\ HasWritten(InHand(w))
  /\ DropTarget(w)
  /\ IF At(w, "selrcv")
     THEN Goto(w, "wakesnd") /\ UNCHANGED <<arg, flag, site>>
     ELSE Return(w)

(* select ends without it: the FIFO is closed, and removed in a second     *)
(* step.                                                                   *)
GiveUp(w) ==
  /\ pc[w] \in {"selrcv", "selsnd"}
  /\ ~HasWritten(InHand(w))
  /\ Goto(w, IF At(w, "selrcv") THEN "shutrcv" ELSE "shutsnd")
  /\ UNCHANGED <<arg, flag, site, target, msgs, rcvq, sndq, locks>>

(* The second is over.                                                     *)
TimedOut(w) ==
  /\ GiveUp(w)
  /\ Slow \/ InHand(w) = NoProc \/ At(InHand(w), "dead")

(* EINTR counts as a time-out.                                             *)
SelectInterrupted(w) == <<w, "select">> \in Interrupts /\ GiveUp(w)

(* Mutant: the waiter that was given up stays on its list.                 *)
ShutKeepsEntry(w) ==
  /\ pc[w] \in {"shutrcv", "shutsnd"}
  /\ target' = [target EXCEPT ![w] = 0]
  /\ lock' = NoProc
  /\ Goto(w, IF At(w, "shutrcv") THEN "wakercv" ELSE "wakesnd")
  /\ UNCHANGED <<arg, flag, site, msgs, rcvq, sndq, flock, sndw, rcvw>>

(* The caller tries the next waiter.                                       *)
Shut(w) ==
  /\ pc[w] \in {"shutrcv", "shutsnd"}
  /\ DropTarget(w)
  /\ Goto(w, IF At(w, "shutrcv") THEN "wakercv" ELSE "wakesnd")
  /\ UNCHANGED <<arg, flag, site>>

----------------------------------------------------------------------------
Call ==
  \/ \E s \in Senders, a \in SndArg : Snd(s, a)
  \/ \E r \in Receivers : \E a \in RcvArg(r) : Rcv(r, a)

SndStep(s) ==
  \/ FindSndWait(s) \/ SndMain(s) \/ SndNoRoom(s) \/ SndInterrupted(s)
  \/ SndNoWait(s) \/ WaitForSnd(s) \/ SndWaitLock(s) \/ SndWaitFailed(s)
  \/ WakeupRcv(s)

RcvStep(r) ==
  \/ RcvWaitLock(r) \/ LookAtWaiters(r)
  \/ Receive(r) \/ TooLong(r) \/ FoundNothing(r) \/ NoMsg(r) \/ RcvInterrupted(r)
  \/ WaitForRcv(r) \/ RcvWaitRelock(r) \/ RcvWaitFailed(r)

AnyStep(p) ==
  \/ FLOCK(p) \/ OpenFifo(p) \/ WriteFifo(p)
  \/ WakeupSnd(p) \/ Readable(p) \/ TimedOut(p) \/ Shut(p)

Step(p) ==
  \/ p \in Senders /\ SndStep(p)
  \/ p \in Receivers /\ RcvStep(p)
  \/ AnyStep(p)

(* A signal comes while a call blocks.  (A waker whose LOCK is interrupted *)
(* only asks again.)                                                       *)
Interrupted(p) ==
  \/ p \in Senders /\ (FindInterrupted(p) \/ SndWaitInterrupted(p))
  \/ p \in Receivers /\ (RcvWaitNotLocked(p) \/ LookInterrupted(p))
  \/ FlockInterrupted(p) \/ OpenInterrupted(p) \/ SelectInterrupted(p)

Next ==
  \/ Call
  \/ \E p \in Procs : Step(p) \/ Kill(p) \/ Interrupted(p)

Spec == Init /\ [][Next]_vars

(* A process inside a call keeps running, and a lock that is released again*)
(* and again is granted in the end: the kernel queues those who wait.      *)
Fairness == \A p \in Procs : SF_vars(Step(p))

FairSpec == Spec /\ Fairness

----------------------------------------------------------------------------
Labels ==
  DOMAIN AfterFLOCK \cup
  {"idle", "find", "main", "full", "open", "blocked", "write", "dead",
   "sndwait", "sndfail", "rcvlock", "look", "scan", "enq", "rcvwait",
   "rcvfail", "wakercv", "selrcv", "shutrcv", "wakesnd", "selsnd", "shutsnd"}

(* Every variable has its type.                                            *)
TypeOK ==
  /\ pc \in [Procs -> Labels]
  /\ \A s \in Senders : arg[s] \in SndArg \cup {NoArg}
  /\ \A r \in Receivers : arg[r] \in RcvArg(r) \cup {NoArg}
  /\ flag \in [Procs -> BOOLEAN]
  /\ site \in [Receivers -> {"none", "look", "scan", "empty"}]
  /\ target \in [Procs -> Nat]
  /\ msgs \in Seq([mtype : Types, mbytes : Sizes])
  /\ rcvq \in Seq([of : Receivers \cup {NoProc}, mtype : Int])
  /\ sndq \in Seq([of : Senders \cup {NoProc}])
  /\ {flock, lock, sndw, rcvw} \subseteq Procs \cup {NoProc}

Parked == {p \in Procs : pc[p] \in {"open", "blocked"}}

Reaches(t, r) == Accepts(arg[r].key, t)

(* A receiver waits only while there is no message for it on the queue, or *)
(* the sender of one is about to wake a receiver of its type, or one that  *)
(* was woken is on its way to take it (wait_for_rcv: "blocking when there  *)
(* is nothing to read").  Left out are receivers whose own open may have   *)
(* been interrupted: behind the entry of its earlier call a receiver waits *)
(* without a look at the queue.  The senders' FLOCK must not be            *)
(* interrupted either, nor may receivers share a type: README, "Where code *)
(* and comments part".                                                     *)
RcvOnItsWay(q) ==
  \/ pc[q] \in {"write", "rwoken", "rcvwait"}
  \/ flag[q] /\ pc[q] \in {"ask", "scan"}

NoStrandedReceiver ==
  \A r \in Parked \cap Receivers :
    OnList(r, rcvq) /\ Wanted(r) # {} /\ <<r, "open">> \notin Interrupts =>
      \/ \E s \in Senders : /\ pc[s] \in {"wakercv", "selrcv", "shutrcv"}
                            /\ Reaches(arg[s].mtype, r)
      \/ \E q \in Receivers : RcvOnItsWay(q) /\ Wanted(q) \cap Wanted(r) # {}

(* The sender at the head of the list waits only while its message does    *)
(* not fit, or someone is about to wake it, or a woken sender is on its way*)
(* to retry and will wake it or wait in front of it (d_msgsnd: "blocking   *)
(* until there is room").                                                  *)
OnItsWay(s) ==
  \/ pc[s] \in {"write", "woken", "sndwait"}
  \/ flag[s] /\ pc[s] \in {"main", "full"}

AtHead(s) == sndq # <<>> /\ sndq[1].of = s

NoStrandedSender ==
  \A s \in Parked \cap Senders : AtHead(s) /\ Fits(s) =>
    \/ \E p \in Procs : pc[p] \in {"wakercv", "selrcv", "shutrcv",
                                   "wakesnd", "selsnd", "shutsnd"}
    \/ \E t \in Senders : OnItsWay(t)

(* While LOCK is free, whoever an entry names is waiting by that entry or  *)
(* was killed there, and has no other; all who wait are named by one,      *)
(* unless their waker gave up on them too early.  So what a kill or an     *)
(* interrupted open leaves behind is all that a waker tries in vain.       *)
Once(q) == \A i, j \in DOMAIN q : q[i].of = q[j].of /\ q[i].of # NoProc => i = j

Hasty == Slow \/ \E w \in Procs : <<w, "select">> \in Interrupts

EntriesNameWaiters ==
  lock = NoProc =>
    /\ \A p \in Waiting : pc[p] \in {"open", "blocked", "dead"}
    /\ Once(rcvq) /\ Once(sndq)
    /\ Hasty \/ Parked \subseteq Waiting

(* SND_WAIT is never left behind, and a sender that has it has FLOCK, on   *)
(* every error path, unless its own request for FLOCK may be interrupted   *)
(* (wait_for_snd does not look at the result), whatever becomes of the     *)
(* others.  RCV_WAIT is not so lucky: its holder may be out of d_msgrcv    *)
(* (TooLong, NoMsg, RcvInterrupted, FlockInterrupted).                     *)
SndWaitUnderFLOCK ==
  sndw # NoProc =>
    /\ pc[sndw] \in {"main", "full"} /\ flag[sndw]
    /\ <<sndw, "fcntl">> \notin Interrupts => flock = sndw

(* A sender that has not waited sends only when no one is waiting to, if no*)
(* sender's FLOCK is interrupted.                                          *)
NewcomersQueue ==
  [][\A s \in Senders : SndMain(s) /\ ~flag[s] => sndq = <<>>]_vars

(* IPC_NOERROR cuts a long message instead of refusing it (the header      *)
(* comment of d_msgrcv).                                                   *)
(* Does not hold: README, "Where code and comments part".                  *)
NoErrorTruncates ==
  [][\A r \in Receivers : TooLong(r) => "NOERROR" \notin arg[r].flags]_vars

(* d_msgrcv with IPC_NOWAIT does not block (its header comment).           *)
(* Does not hold: README, "Where code and comments part".                  *)
NowaitReceiveNeverWaits ==
  \A r \in Parked \cap Receivers : "NOWAIT" \notin arg[r].flags

(* d_msgsnd with IPC_NOWAIT does not block (its header comment).           *)
NowaitSendReturns ==
  \A s \in Senders :
    "NOWAIT" \in arg[s].flags ~> "NOWAIT" \notin arg[s].flags

(* A waiting receiver with a message on the queue returns.                 *)
ReceiverServed ==
  \A r \in Receivers :
    (r \in Parked /\ Wanted(r) # {}) ~> (pc[r] \in {"idle", "dead"})

(* The sender at the head of the list does not stay there with room for    *)
(* its message: it goes, or another takes the room or the place before it. *)
Servable(s) == s \in Parked /\ AtHead(s) /\ Fits(s)

SenderServed == \A s \in Senders : Servable(s) ~> ~Servable(s)

=============================================================================
