# Verification of the Common and Jupiter libraries

TLA+ models of the programs in this repository: DiskQ, a message queue in
files that several processes share; the Jupiter libraries for journal files,
sequence files and external programs; the file transfer of ComLib; and
`jpcomd`, Jupiter's scheduling daemon. The modules are translations of the C
source. TLC checks them on small instances, and TLAPS proves for every instance
that DiskQ's control file implements an abstract queue, that a sender killed
after its first write leaves it as it was, that its waiters are served, that
the data file keeps its messages while they are moved about in it, and that a
file sent over a connection arrives whole or not at all, and theorems about
journal files, sequence files, calls of external programs, the scheduler
and its pid file.

Source paths below are relative to `src/`. The comments of the source are in
Korean (EUC-KR); what is quoted of them is translated.

## 1. The system

### DiskQ (`Common/DiskQ`, `Common/inc/DiskQ.h`)

A queue has a control file (queue header, then an array of message headers),
a data file, and System V shared memory and semaphores. Any number of
processes open it with `d_msgget` and call `d_msgsnd` and `d_msgrcv`. No
server runs: the processes wake each other.

| Part | State | Operations | What makes it correct |
|---|---|---|---|
| Control file | `d_msqid_ds`: bytes, number, head and tail of the message list (`ds`, `de`) and of the empty list (`es`, `ee`), counter; `d_msghd_ds`: type, length, id, `nextid` | `d_msgsnd_main`, the walk of `d_msgrcv`, `read_data`, `msg_rm`, `MakeControlFile` | every slot on exactly one list, both lists proper, counts right; messages delivered once, in order among those of a type |
| The same, killed between writes | what is on disk after each `write` | as above | a killed call leaves the queue as before it or as after it |
| Waiting and waking | `FLOCK` on the control file, semaphores `LOCK`, `SND_WAIT`, `RCV_WAIT`; two lists of waiters in shared memory; one FIFO per waiter | `FindSndWait`, `wait_for_snd`, `wait_for_rcv`, `wakeup_snd`, `wakeup_rcv` | nobody waits for what is there; no overtaking; no lock left behind; no waiter entry left behind |
| Negative `msgtyp` | the list of types and the arrays around it | two loops in `d_msgrcv` | the message chosen can be unlinked, the walk ends, it is the smallest type |
| Data file | the offset and length in each message header; a map of gaps and messages, built anew by each send | `FindSpace` and the compressions it calls, `MoveOneData`, `SaveData`, `read_data` | ranges are disjoint; a message that fits finds room; moving loses no data; the search ends |
| Opening, administration | files, shared memory, the table of open queues | `d_msgget`, `d_msgctl`, `rm_list` | one initialisation; a change of the size is not undone and undoes nothing |

Interaction: `d_msgsnd` takes `FLOCK`, sends or enters the list of waiting
senders, releases the lock, wakes a receiver, then a sender; `d_msgrcv`
likewise. Between the release of the lock and the wait the world may change.

### Jupiter libraries (`Jupiter/lib`)

| Part | State | Operations | What makes it correct |
|---|---|---|---|
| Journal (`journal_file.c`) | a data file, an index file of (offset, length, flag) | `jpjn_write`, `jpjn_read`, `jpjn_init`, `jpjn_init_daily` | the number returned keeps naming the record that was written |
| Sequence (`sequence_file.c`) | one line: name and number | `jpsq_read`, `jpsq_init` | no number is given twice |
| External programs (`external_call.c`) | a listening socket, the child | `jpec_call`, `jpec_open/recv/send` | the answer is this child's, or an error after the time-out |

### jpcomd (`Jupiter/plf`)

One loop: look at blocked signals (`CheckSignal`), read the configuration again
on SIGUSR1, reap children on SIGCHLD, initialise the state of batch jobs when
day, week, month or year change, start the jobs of the minute, then start or
stop scheduled programs by their windows (`CheckSchdDaly`). SIGTERM leads to
`TermProc`. `jpcomd start` guards against a second daemon with a locked pid
file; `jpcomd stop` and `reload` signal the pid in it.

| Part | State | Operations | What makes it correct |
|---|---|---|---|
| Scheduler | the tables of programs and jobs, signal flags, the clock of this round and the last | `ProcMain` and what it calls | every child known, once; a program runs in its window and not outside; jobs run when due; signals heeded |
| Pid file | the file, its content, its lock | `main`, `ReadPID`, `SavePID`, `LockFile`, `DelePID` | one daemon at a time; a stale file keeps nobody out; stop reaches the daemon |
| Configuration | files under `conf` | `ConfigParse`, `GetConfig`, `RunProgramList` | parsing; not modelled |

### ComLib (`Common/ComLib`)

Wrappers used by all of the above: locks and whole reads and writes (`File.c`),
pid files and children (`Process.c`), logs (`Log.c`), sockets and file
transfer (`Network.c`), IPC (`IPC.c`), strings and dates. `SEED_32bit` is a
vendored cipher. `Jupiter/etc` has test programs.

| Part | State | Operations | What makes it correct |
|---|---|---|---|
| File transfer (`Network.c`) | a stream socket, the file being sent, the file being made | `SendFile`, `RecvFile`, `Sendn`, `Recvn` | a file arrives whole or not at all; headers and bytes are not taken for one another; both ends come to an end |

### Hard behaviours

Concurrency between processes with four kinds of locks, two of them per
process and silently re-entrant (`fcntl`); waking by FIFO with a time-out of
one second; kills between two writes; signals that are looked for at certain
points, and that end whatever call blocks elsewhere, often with nobody looking
at its result; initialisations without a lock; a clock that is read in two
parts and compared between rounds; a pid file that is written before it is locked; messages moved
about in a file while others rely on where they are; connections that break and
answers that come too late. PROJECT.json
lists them line by line under `hazards`, with the properties that would catch
each going wrong.

## 2. Modules

| Module | Models | Uses |
|---|---|---|
| `DiskQFile` | control file, one operation at a time; a walk of the list is a step per slot | |
| `MsgQueue` | the abstract queue: a sequence of typed messages | |
| `DiskQSelect` | the choice of a message for `msgtyp < 0`, on the lists of `DiskQFile` | `DiskQFile` |
| `DiskQRefinement` | what the control file says to a walk of its list; the refinement of `MsgQueue` by `DiskQSelect` and `DiskQFile` | `DiskQSelect`, `MsgQueue` |
| `MCDiskQFile` | instance | `DiskQRefinement` |
| `DiskQCrash` | send and receive write by write, with kills | `DiskQFile`, `MsgQueue` |
| `DiskQFile_proofs` | theorems about the control file: its lists, the refinement, the selection, kills | `DiskQRefinement`, `DiskQCrash` |
| `DiskQSpace`, `MCDiskQSpace` | data file: the map of gaps, the search, the moves | |
| `DiskQSpace_proofs` | theorems about `DiskQSpace` | `DiskQSpace` |
| `DiskQWait`, `MCDiskQWait` | locks, waiters, FIFOs, several processes | |
| `DiskQWait_proofs` | theorems about `DiskQWait` | `DiskQWait` |
| `Journal`, `MCJournal` | journal files of several processes | |
| `Journal_proofs` | theorems about `Journal`, and one about `Sequence` | `Journal`, `Sequence` |
| `Sequence`, `MCSequence` | sequence files of several processes | |
| `ExternalCall`, `MCExternalCall` | calls of external programs by several processes | |
| `ExternalCall_proofs` | theorem about `ExternalCall` | `ExternalCall` |
| `FileTransfer`, `MCFileTransfer` | files sent over one connection | |
| `FileTransfer_proofs` | theorems about `FileTransfer` | `FileTransfer` |
| `Scheduler`, `MCScheduler` | `ProcMain` with its children, signals, clock | |
| `Scheduler_proofs` | theorems about `Scheduler` | `Scheduler` |
| `PidFile`, `MCPidFile` | starts and stops of `jpcomd` | |
| `PidFile_proofs` | theorems about `PidFile` | `PidFile` |

Operators that begin with the comment "Mutant:" are not part of a
specification. Each is a plausible mistake in the operator it stands before;
PROJECT.json pairs it with a property that must fail when the mistake is made,
so that the property is known to say something about the code.

### How state and actions correspond to the code

**DiskQFile.** `qh` is `struct d_msqid_ds`, `mh` the array of
`struct d_msghd_ds`, `nslots` its length on disk, `scan` the cursor of a walk
(`nextid`, `beforeid`). `Send` is `d_msgsnd_main`, split by its three writes
into `Linked`, `SlotWritten` and `HeadSent`, so that `DiskQCrash` can use the
same operators one at a time. `BeginRecv`, `ScanNext`, `ScanFound`, `ScanEnd`
are the loop of `d_msgrcv` (and of `msg_rm`), `Take` is `read_data` with its
two writes `SlotsTaken` and `HeadTaken`, `TooBig` its E2BIG. A slot number is
an index; -1 is `NIL`. Send and receive times and process ids are left out,
nothing depends on them. A send without a last message writes at the offset of
slot -1, which is the tail of the queue header; the header is then written
over it, so only `DiskQCrash` sees it.

**DiskQWait.** The queue is a sequence of messages (that it may be is what
`DiskQRefinement` shows). `pc` names the call a process is in. An action ends where
a lock is requested or released or another process can act: `Snd`,
`FindSndWait`, `SndMain`, `WaitForSnd`, ... up to `WakeupSnd`, in which every
call that does not fail early ends. `OpenFifo`, `WriteFifo` are the waiter's
side and `WakeupRcv`/`WakeupSnd`, `Readable`, `TimedOut`, `Shut` the waker's.
`fcntl` locks are granted again to the process that has them. The semaphores
have SEM_UNDO, so those of a killed process are given back; a process is killed
only while it waits for its FIFO (`Killable`), when it has none. `Slow` lets a
live waiter miss its second, after which its write meets a FIFO without a
reader and SIGPIPE ends it.

Signals come in two ways. `Signals` has them found pending where the code looks
(`is_sig_catch`). `Interrupts` names which call of which process one may end:
`"open"` (`OpenInterrupted`: the process leaves, its FIFO and its entry stay, so
an entry's `of` becomes `NoProc`, and the process may enter the list anew),
`"fcntl"` (`FlockInterrupted`: three places look at the result and return, the
others go on as if they had FLOCK), `"semop"` (`FindInterrupted`,
`SndWaitInterrupted`, `RcvWaitNotLocked`, `LookInterrupted`, and in
`RcvWaitFailed`) and `"select"` (`SelectInterrupted`: taken for a time-out).
`mkfifoname` looks for a name that no FIFO has, so a new entry and one left
behind have FIFOs of their own. Which calls may be interrupted is a constant,
because what holds depends on whose call it is. `SND_WAIT_UNLOCK` and
`RCV_WAIT_UNLOCK` set the semaphore free whoever has it, and FUNLOCK gives up
the caller's own lock only.

**DiskQCrash.** SIGKILL between two writes; all other signals are blocked there
(`lock_sig_all`). One `write` lands whole. `Committed` is what a walk from `ds`
that stops at `de` finds; the run and the theorems have receives of any type
(`Keys` = {0}), which take the message at `ds`.

**DiskQSelect.** `sel` holds the variables of the two walks; they run over the
lists that `DiskQFile` makes, with slots of earlier messages behind the end. A
walk that leaves the list reads the header at index -1, in front of the
allocated array; `Garbage` has the values it may find as a type there. The
message chosen is taken by `DiskQFile`'s operators.

**DiskQSpace.** `msgs` are the message headers, `dat` says of each byte of the
data file whose it is, `op` is the send in progress with its map: blocks for
messages and gaps, linked both ways by numbers, as the code links its nodes. `FindSpace` is the
search up to a decision: a gap, a move, or EAGAIN. `MoveData` and `MoveHead`
are the two writes of `MoveOneData`, `WriteData` and `WriteHead` those of the
send; `Kill` comes between them. The list of messages has no part in it, so a
receive removes any message.

**ExternalCall.** A call is a pair of caller and number; so are its listening
socket (`sock`), its program (`prog`) and its program's connection (`conn`).
`Bind`, `RunProg`, `Accept`, `SendRequest`, `Recvw` and `Return` are the steps
of `jpec_call`; `Open`, `Recv` and `SendAnswer` the library's side of the
program. A listening socket has no FD_CLOEXEC, so the program inherits it
(`Inherited`) and it lasts until both have closed it. Seconds are not counted:
a time-out is a step that may be taken while nothing has arrived.

**FileTransfer.** `wire` is the stream in units, `snd` and `rcv` the positions
of the two ends, `dst` the receiver's files. A header is `HdLen` units and a
length; `Sendn` and `Recvn` move a part at a time. `skew` is a history variable
that says that what is in the stream no longer is what the header announced: it
is set when a length does not fit the header, when a packet reaches behind that
length or the file ends before it, and when the caller goes on after a failure.

**Journal.** `dat` is the data file byte by byte, `idx` the index file entry by
entry, `torn` a part of an entry at its end. Each `read`, `write`, `stat`,
`ftruncate` is a step. `raced` and `acked` are history variables.

**Sequence.** `file` is the number, `buf` what the process has read. Numbers
wrap at `Half` as an int would.

**Scheduler.** One action per part of a round, in the order of `ProcMain`. A
child is an entry of `child[x]`, its pid its index. Signals are blocked in the
code and looked for once a round, so `pending` is a set. `conf` is what the
file says now; a reload may find it unreadable. A table is by
line: `<<p, i>>` is the i-th line that names `p`, a program with its arguments.
`reLoadSchdDaly` carries pids over by name as the code does, so that all entries
of a program feed its first line and the last one of them wins. `Once` are the
programs that no configuration names twice; the properties that this breaks are
said of them. `ReadWeek` and `CheckSignal` are the two readings of the clock,
`dTempWeek` and `this`, between which a minute may pass; so are those before the
loop. Minutes and days are short. `jpmnth.c` and `jpyear.c` are
`jpweek.c` and `jpdaly.c` with other fields of the date: a job is given by its
period.

**PidFile.** A file and its name are different things: `path` says which file
has the name, `lock` is per file. A fork inherits no `fcntl` lock
(`ToBackground`).

## 3. Checks

| Run | Instance | Shows |
|---|---|---|
| `file` | 2 types, 2 lengths, capacity 3, 2 slots at first, counter wraps after 1 | `SlotsConserved`: every slot on one list; `BytesAccounted`; `OldestAskedFor`: a receive by type takes the oldest of its type, a removal its slot; `ImplementsMsgQueue`; `ChosenIsUnlinkable` and, under fairness, `SelectionEnds` for a negative type |
| `crash` | the same, killed after the first write of a send; receives of any type | `KilledSendLeavesNoTrace`, `HeaderCountsMessages` |
| `space` | 4 messages of 1 to 4 bytes in a file of 7, kills after the bytes of a move or of the message | `MessagesKept`, `RoomIsFound`, `MovesBounded` |
| `wait_senders` | 2 senders with long and short messages, 1 receiver | `NoStrandedSender`, `NewcomersQueue`, and under fairness `SenderServed`, `ReceiverServed` |
| `wait_errors` | 1 sender, 2 receivers, one for a type and one for a negative msgtyp; slow waiters, a killed one, IPC_NOWAIT, messages too long, 2 places to wait in; signals pending, and ending every call but the sender's `fcntl` and one receiver's `open` | `NoStrandedReceiver`, `EntriesNameWaiters`, `SndWaitUnderFLOCK` |
| `wait_too_long` | 1 sender with IPC_NOWAIT, 2 receivers with short buffers | finding: `NowaitSendReturns` fails |
| `journal` | 2 writers, 1 reader, 1 initialisation, 3 entries, 2 days, kills, full disk | `AckedAreStored`, `RecordsContiguous`, `RecordsDisjoint`, `ReadsAreWhole` |
| `sequence` | 2 readers, 1 initialisation, kills | `TakenOnce`, and under fairness `LockComesFree` |
| `extcall` | 2 processes, one of which calls again; programs that die, are not executed, or answer in two pieces; forks that fail | `AnswerIsOwn`, and under fairness `CallReturns` |
| `transfer` | 4 files of 3, 0, 1 and 2 bytes, one refused; packets of 1 and 2; kills, a broken connection, a full disk, one change of a file | `FilesArriveWhole`, `FramingKept`, and under fairness `TransferEnds` |
| `sched` | a program that ignores SIGTERM on one line and another on two, a daily and a weekly job; all listed, none listed, unreadable; a reload; forks that fail | `ProcessesKnown`, `ProgramsEndToo`, `PidsAreChildren`, `DueJobsRun`, and under fairness `StraysEnd`, `WantedRun`, `StopIsHeeded`, `ProgramsReaped` |
| `pid` | 3 starts, 2 stops, kills, full disk, with and without a stale file | `RunsOnce`, `SomeoneRuns` |

Each module has one type invariant. It is checked in the run `file`; elsewhere
it was checked while the module was written and is not part of a run.

### Bounds

- `file`: with capacity 3 and lengths 1 and 2 up to three messages are on the
  queue. That covers a list of none, one, two and more elements and removal
  at the head, in the middle and at the tail; the control file starts with 2
  slots and grows; the counter wraps at every second message. The walks for a
  negative type meet all lists up to three messages with unused slots behind
  them. The proofs do away with these bounds for all five safety properties.
- `space`: four messages in seven bytes leave up to four gaps, so that a gap
  may be at the front, at the end, between two messages, too small, or of just
  the size, and each of the three compressions is made. The headers' order
  does not matter, so messages are symmetric. One way to lose a message is
  beyond the bound: the layout at which it was found has five messages in 14
  bytes (the table below). It came out of the proof, which has no bound.
- `wait_*`: with three processes a list of waiters can be empty, have one or
  two entries, a waker can meet a newcomer, and a process woken can lose what
  it was woken for. MaxWait is 4 where it must not bind and 2 where it must.
- `journal`: three entries allow a record before, at and behind one that was
  cut off.
- `extcall`: a second call of one process meets the late program of its first,
  while another process takes the port between. The proof does away with the
  bound for `AnswerIsOwn`.
- `transfer`: files of none, one, two and more packets, and a last packet that
  is not whole; a buffer smaller than a file with its header, so that the
  sender has to wait.
- `sched`: KillAfter is 0 for the code's 3 and RetryEvery 2 for its 10; both
  are thresholds that are reached and passed. The first process of the program
  and the second of the daily job may end by itself, so the program is
  restarted and the job reaped after its state was initialised. A day has two
  minutes and a week two days; the minutes 1 to 6 hold the weekly job's minute
  twice, at 2 and at 6, with the change of the week between, and the daily job's
  three times. With two lines of one program a reload carries over the pid of
  the one that runs, or loses it to the one that does not.
- `pid`: three starts, so that two race while a third follows; three files
  may be made under the name.

CHECK_DEADLOCK is FALSE where the system does stop: in `space` (no id is left,
or the search goes round), `wait_errors` and `wait_too_long` (every process
killed, or all waiting on a lock left behind), `extcall` and `transfer` (all
calls made, all files sent), `sched` (the daemon has ended) and `pid` (everyone
has left).

### Fairness

`DiskQWait`: strong fairness for each process inside a call. A process keeps
running, and the kernel serves those who wait for a lock or semaphore in turn.
Nothing is assumed of calls being made. `Sequence`: weak fairness of the steps
of a call; a poller is not assumed to hit the moment the lock is free.
`Scheduler`: weak fairness of the loop, and a program that was told to end
does. `DiskQSelect`: the loop goes on. `ExternalCall`: a caller goes on in its
call, and the time it waits passes; of the programs nothing is assumed.
`FileTransfer`: both processes go on, and a caller of `RecvFile` does not try
for ever. A connection that breaks is noticed at both ends; a network that falls
silent without a break is not modelled, and `Recvn`, which has no time-out, would
wait in it for ever. `DiskQFile`, `DiskQSpace`, `DiskQCrash`, `Journal` and `PidFile` have
safety properties only.

### Where code and comments part

Each row is a property that states what a comment of the code says and that
fails with the change to the run's .cfg in the last column; a property that the run
does not name is added to it. The first one is a run of its own.

| Property | The code | Comment | To see it |
|---|---|---|---|
| `NowaitSendReturns` | `d_msgrcv.c:350`: E2BIG returns with RCV_WAIT held; the next waiter asks for it with FLOCK held, and every sender waits for FLOCK | `d_msgsnd.c:1244` IPC_NOWAIT does not block | run `wait_too_long` |
| `NoStrandedReceiver` | `d_msgrcv.c:182`: a receiver waits behind another of its type without a look at the queue | `d_msgrcv.c:681` blocks when there is nothing to read | `wait_errors`, AsksFor <- SameType |
| `NowaitReceiveNeverWaits` | the same place, with IPC_NOWAIT | `d_msgrcv.c:57` returns at once | the same |
| `NoStrandedSender` | `d_msgrcv.c:290`: a receive that a signal interrupts after it took its message wakes no sender | `d_msgsnd.c:1365` blocks until there is room | `wait_senders`, Signals = TRUE |
| `NoStrandedSender` | `d_msgsnd.c:1348`: a sender queues behind the entry of a killed process | the same | `wait_senders`, Killable = {s1} |
| `NoStrandedReceiver` | `d_msgsnd.c:1159`: an interrupted request for FLOCK is not noticed, and a woken sender sends without FLOCK between a receiver's look and its entry | `d_msgrcv.c:681` blocks when there is nothing to read | `wait_errors`, Interrupts = all pairs but (r2, open) |
| `NoStrandedReceiver` without the exception for an interrupted open | `d_msgrcv.c:767-774`: the entry of a receiver whose open was interrupted stays, and the same receiver's next call waits behind it without a look at the queue | the same | `wait_errors` |
| `NoStrandedSender` | `d_msgsnd.c:1141-1148`: the same of a sender; a newcomer queues behind the entry that is nobody's, with room for its message | `d_msgsnd.c:1365` blocks until there is room | `wait_senders`, Interrupts = {(s1, open)} |
| `NoStrandedSender` | `d_msgsnd.c:1159`: as above, a message is sent, or a sender joins the list, without FLOCK | the same | `wait_senders`, Interrupts = {(s1, fcntl)} |
| `NoStrandedSender` | `d_msgrcv.c:852-861`: an interrupted select is taken for a time-out, and the waiter loses its FIFO | the same | `wait_senders`, Interrupts = {(r1, select)} |
| `NewcomersQueue` | `d_msgsnd.c:1159`: a woken sender without FLOCK goes back to the list between a newcomer's look and its send | `d_msgsnd.c:1348` a sender that finds others waiting waits | `wait_senders`, Interrupts = {(s1, fcntl)} |
| `SndWaitUnderFLOCK` without its condition | the same place: SND_WAIT is taken and the queue written without FLOCK | | the same |
| `NoErrorTruncates` | `d_msgrcv.c:598`: flags compared, not tested for their bit | `d_msgrcv.c:59` cuts the message | `wait_errors`, RcvFlags = {{"NOWAIT", "NOERROR"}} |
| `HeaderCountsMessages` | `d_msgsnd.c:881`: the slot is linked before the header counts it | `DiskQ.h:59` number of messages on the queue | `crash`, CrashAt = {"slot"} |
| `HeaderCountsMessages` | `d_msgrcv.c:636`: the slot is unlinked before the header knows | the same | `crash`, CrashAt = {"take"} |
| `KilledSendLeavesNoTrace` | `d_msgsnd.c:848`: the link is written first; a receive by type follows that of a killed sender past the last message, delivers again a message that was taken, and the one on the queue is lost | `d_msgrcv.c:316` the message that came first of those with the type | `crash`, Keys = {0, 1, 2}, QBytes = 2, Sizes = {1}, InitSlots = 3 |
| `SmallestTypeTaken` | `d_msgrcv.c:437`: the walk advances over smaller types only | `d_msgrcv.c:444` the smallest type | `file` |
| `BoundRespected` | `d_msgrcv.c:434`: the bound is overwritten with the first type | `d_msgrcv.c:428` smaller than the absolute value | `file` |
| `AckedAreStored` | `journal_file.c:165`: the result of the lock request is not looked at, it may have been interrupted (a handler without SA_RESTART) or refused (EDEADLK, ENOLCK) | `journal_file.c:136` returns the number of the entry | `journal`, Interrupts = TRUE |
| `DailyIsFresh` | `journal_file.c:56`: st_ctime is the last change, not the making | `journal_file.c:15` when the day it was made differs | `journal` |
| `AddsOne` | `sequence_file.c:150`: digits left in the array follow those read | `sequence_file.c:99` increases by 1 | `sequence`, Digits = {NoDigit, 7}, no Initers |
| `DueJobsRun` | `jpcomd.c:408`: a week change is seen only as Saturday, then Sunday | `jpcomd.c:407` when the week changes | `sched`, Pauses = TRUE, MaxSignals = 0 |
| `DueJobsRun` without the exception `Parted` | `jpcomd.c:337-338`: midnight falls between the readings of the weekday and of the time; a weekly job due at 00:00 is compared with the old day (`jpweek.c:114`), and the minute is not looked at again (a job of the old day that has not run is started instead) | `jpcomd.c:337` sets the weekday and the time of now | `sched` |
| `ProcessesKnown`, `ProgramsEndToo`, `StraysEnd` of `Progs` for `Once` | `jpdaly.c:243-250`: of a program with its arguments on two lines the reload gives the first line the pid of the later entry, perhaps none; the process of the first is forgotten and a second one started | `jpcomd.c:268` all processes | `sched`, with `Once == Progs` |
| `MovedApart` | `d_msgsnd.c:300`: a message is moved to the gap beside it; it may be written over, or the blocks are linked in a circle and the search goes round with FLOCK held | `d_msgsnd.c:271` to a gap that is not next to it | `space` |
| `MessagesKept` without `op.head` in `MoveData`; `MovesBounded` without `op.head` | `d_msgsnd.c:379-411`: when the message of the map's first block is moved, that block becomes the rest of the gap it went to, and the block behind the rest keeps the `prev` it had; a later move follows that link, writes over a message, and is made again and again with FLOCK held | `d_msgsnd.c:271` to a gap that is not next to it | QBytes = 14, Sizes = {4}, and an Init with messages A at 0, D at 4, E at 5, Y (2 bytes) at 8 and W at 11: the send moves A to 6, Y to 12, then Y to 6, over A |
| `RoomIsFound` | `d_msgsnd.c:653`: the block moved was the first of the map, from which the search goes on: EAGAIN with room | `d_msgsnd.c:1244` EAGAIN for want of room | `space`, without the disjunct `op.head` |
| `RoomIsFound` | a message without bytes at offset 0: its last byte is at -1, which is the largest unsigned int | the same | `space`, QBytes = 4, Sizes = {0, 2} |
| `FilesArriveWhole` | `Network.c:885`: nothing is sent of an empty file, and the receiver, which is given the name of a file, stores the next file under it | a call of `RecvFile` receives one file | `transfer`, ByName = FALSE |
| `ProgramsEnd` | `external_call.c:80`: a program that connects after the caller has given up has inherited the listening socket it connects to, and waits in `jpec_recv` for ever | `external_call.c:80` waits until the program dies and SIGCHLD comes | `extcall`, SPECIFICATION BusySpec |
| `ReturnsOnce` | `Process.c:147-179`: where exec fails the new process returns from `RunProg` with -2 and is a second copy of the caller | `Process.c:140` a pid, or -1 | `extcall` |
| `EverythingEndsToo` | `jpcomd.c:247-269`: goes through the programs, not the jobs | `jpcomd.c:268` all processes | `sched` |
| `JobsReaped` | `jpdaly.c:135`: the pid of a job that still runs is cleared | `jpcomd.c:380` handles ended processes | `sched` |
| `PidFileNamesIt` | `Process.c:39`: truncated and written before it is locked | `jpcomd.c:497` signals the running process | `pid` |
| `RunsOnce` without its premise | `Process.c:55`: a pid that cannot be written removes the file | `jpcomd.c:527` to prevent it from running twice | `pid` |

## 4. Proofs

Eight modules hold proofs; every theorem is about the specification that the
runs check, with every value of its constants that the named assumptions and
premises allow.

| Theorem | Says | Assumptions and premises |
|---|---|---|
| `DiskQFile_proofs!TypeCorrect` | `Spec => []TypeOK` | `ConstantsAssumption` |
| `DiskQFile_proofs!ListsStayProper` | `Spec => []SlotsConserved` | the same |
| `DiskQFile_proofs!QueueImplemented` | `SSpec => ImplementsMsgQueue` | `ConstantsAssumption`, `SelectAssumption` |
| `DiskQFile_proofs!BytesStayAccounted` | `SSpec => []BytesAccounted` | the same |
| `DiskQFile_proofs!SecondWalkEndsOnTheList` | `SSpec => []ChosenIsUnlinkable` | the same |
| `DiskQFile_proofs!OldestIsTaken` | `SSpec => OldestAskedFor` | the same |
| `DiskQFile_proofs!ListsStayProperUnderSelection` | `SSpec => [](TypeOK /\ SlotsConserved)` | the same |
| `DiskQFile_proofs!KilledSendersLeaveNoTrace` | `CSpec => KilledSendLeavesNoTrace` | `ConstantsAssumption`, `SendersKilledEarly` |
| `DiskQFile_proofs!HeaderKeepsCount` | `CSpec => []HeaderCountsMessages` | the same |
| `DiskQSpace_proofs!MessagesAreKept` | `Spec => []MessagesKept` | `SpaceAssumption`, `0 \notin Sizes` |
| `DiskQSpace_proofs!RoomIsAlwaysFound` | `Spec => []RoomIsFound` | the same |
| `DiskQSpace_proofs!MovesAreBounded` | `Spec => []MovesBounded` | the same |
| `DiskQSpace_proofs!SpaceInvariant` | `Spec => []IInv` | the same |
| `DiskQWait_proofs!SndWaitReleased` | `Spec => []SndWaitUnderFLOCK` | `ProcsAssumption` |
| `DiskQWait_proofs!EntriesStayTrue` | `Spec => []EntriesNameWaiters` | `ProcsAssumption`, `ArgsAssumption` |
| `DiskQWait_proofs!NewcomersWait` | `Spec => NewcomersQueue` | the same, `SendersRelock` |
| `DiskQWait_proofs!HeadOfLineServed` | `Spec => []NoStrandedSender` | `ProcsAssumption`, `ArgsAssumption`, `Calm` |
| `DiskQWait_proofs!WantedIsFetched` | `Spec => []NoStrandedReceiver` | `ProcsAssumption`, `ArgsAssumption`, `NoTypeShared`, `SendersRelock` |
| `ExternalCall_proofs!OwnAnswers` | `Spec => []AnswerIsOwn` | `CallAssumption` |
| `FileTransfer_proofs!HeadersToldApart` | `Spec => []FramingKept` | `TransferAssumption` |
| `FileTransfer_proofs!FilesWholeOrNotAtAll` | `Spec => []FilesArriveWhole` | the same, `ByName` |
| `FileTransfer_proofs!WholeFilesOnly` | `Spec => []NoneCutShort` | `TransferAssumption` |
| `Journal_proofs!WritesAreStored` | `Spec => []AckedAreStored` | `JournalAssumption`, `~Interrupts` |
| `Journal_proofs!RecordsInLine` | `Spec => []RecordsContiguous` | the same |
| `Journal_proofs!ReadsGetRecords` | `Spec => ReadsAreWhole` | the same |
| `Journal_proofs!RecordsApart` | `Spec => []RecordsDisjoint` | the same |
| `Journal_proofs!NumbersTakenOnce` | `Sq!Spec /\ []SqNoWrap => Sq!TakenOnce`, with `Sq` an instance of `Sequence` | `SequenceParameters` of `Sequence`, `SqArrayClear` |
| `PidFile_proofs!OneRunsAtATime` | `Spec => []RunsOnce` | `PidFileAssumption` |
| `PidFile_proofs!OneIsLeft` | `Spec => []SomeoneRuns` | the same |
| `Scheduler_proofs!ChildrenKnown` | `Spec => []ProcessesKnown` | `SchedulerAssumption` |
| `Scheduler_proofs!PidsAreOwn` | `Spec => []PidsAreChildren` | the same |
| `Scheduler_proofs!NoProgramOutlives` | `Spec => []ProgramsEndToo` | the same |
| `Scheduler_proofs!JobsRunWhenDue` | `Spec => DueJobsRun` | the same, `~Pauses \/ Weekly = {}` |

Each premise is where a property stops being true of the code, and the table
"Where code and comments part" has the run that shows it: a lock request that
is interrupted (`Interrupts` of `Journal`), a sender's request for FLOCK that is
(`SendersRelock`), a round longer than a minute with weekly jobs
(`Pauses`), signals, slow waiters, killed and interrupted senders, a waker's
interrupted select (`Calm`, which for a plain statement also excludes a sender's
interrupted semop and select, harmless in the run), receivers that
share a type (`NoTypeShared`), kills after a later write and receives by type
after a kill (`SendersKilledEarly`), numbers at the largest int (`SqNoWrap`), an array
that was not clear (`SqArrayClear`), messages of no bytes (`0 \notin Sizes`), a receiver that is told the name of each
file instead of taking it from the header (`ByName`).

**DiskQFile.** `SlotsConserved` says that two sequences of slots exist, without
repetition and together covering the file, along which `nextid` runs from `ds`
to `de` and from `es` to `ee`, that `qnum` is the length of the first, that
`alive` agrees, and that the cursor of a walk stands on the first with its
predecessor behind it. The part about the cursor is what makes it inductive:
`read_data` unlinks with the cursor's `beforeid`, and a wrong predecessor would
cut the list. It is inductive together with `TypeOK`. Initially the message
list is empty and the empty list is 0, 1, ..., InitSlots - 1. For each action
the proof names the two sequences after it. A send appends `DesId` to the
messages; it takes the head of the empty list, or, when that is empty, slot
`qnum`, which is new because all slots are messages then. `Take` removes the
cursor's position from the messages and appends the slot to the empty list. A
step of the walk changes neither. Each case shows that the new sequences are
the lists of the new headers, link by link; lemmas on appending to, removing
from and splitting a sequence carry the index arithmetic.

**The refinement.** The abstract queue is what a walk from `ds` finds
(`Live`), as messages. `Live` and the sum of the lengths are recursive
functions, so their facts need induction: the library's induction theorems take
a predicate, which the provers cannot instantiate, but the minimum of a
non-empty set of naturals is a fact about sets, and `SetInduction` follows from
it. With it, a walk along a proper list finds that list (`WalkFinds`), and the
sum over a sequence is one more term for one more message and one less for one
less (`BytesOfLonger`, `BytesOfWithout`). The invariant `SInv` is that of
`DiskQFile` with the walks of a selection on the same list (`WalkOn`), the
types of messages and receives in `Types` (so that 0 may mean any), and
`BytesAccounted`. Its parts need each other: a message can be taken by the
selection's cursor only if that is on the list, and bytes are subtracted once
only if the slot is on the list once. The refinement has three facts: the
initial state is an empty queue (`InitSInv`); a `Send` is `Put` and a `Take` is
`Receive` or `Remove` of the abstract queue (`SendRefines`, `TakeRefines`); a step
of a walk or of a selection leaves the abstract queue alone. `OldestAskedFor`
follows from what the cursor has passed (`ScanOn`).

**DiskQCrash.** Between two writes the lists are not proper, and after a kill
they stay so. The invariant (`CInv`) says what is left of them: the messages
are linked up to the tail, whose own link may lead anywhere (`MessagesAre`);
the empty slots are linked, but a sender may have written the first, or one past
the last slot of the file (`EmptyAre`). Of a send in progress it says that the
header still to be written is right for the lists with the new message
(`SendReady`), and of a receive that it stands on the first message
(`OnFirst`): that is where a receive of any type goes, and why it never meets
the link of a killed sender. `Committed` is then the list of messages after
every write (`CommittedIs`, by the lemma on walks), so that each write can be
shown to leave it, and only the third of a send and the first of a receive to
change it by one message.

**DiskQWait.** For `SndWaitUnderFLOCK` the invariant (`IInv`) adds who has
FLOCK for sure (`Holding`): a process behind a place that looks at the result, a
sender that has not been woken, and in the loops everyone whose own request is
not interrupted (`Relocks`); and that the holder of SND_WAIT is a sender in its
loop with its flag set (`HolderWillRelease`). The flag is what each way out
tests before it releases SND_WAIT, so the property needs that nobody has
SND_WAIT without it. Steps that touch neither lock are covered by one lemma,
ways out by one for senders and one for receivers.

`EntriesNameWaiters` holds while LOCK is free; with LOCK held one waker is at
work, with an entry in hand (`OneWaker`), and the process of that entry is the
one exception: it may be on a list although it no longer waits (`Entries`). No
process is named twice on a list (`Lists`), whatever entries are left that name
nobody: who enters a list was on none, because an interrupted open takes the
name off its entry. Lemmas say what joining at either end, removing an entry and
abandoning one do to the places and names. Unless a waker may be hasty, only
entries of the dead or of nobody are given up, so that whoever waits is on a
list (`NoneForgotten`). `NewcomersQueue` rests on FLOCK: a sender finds the list
of waiters empty and sends under one FLOCK (`NewcomerAlone`), which keeps out
those who join the list as long as they have FLOCK themselves (`SendersRelock`).

`NoStrandedSender` needs all of it, and why its premises are needed shows in
the invariant (`SInv`). `HeadCared` says that while the head of the line fits
somebody is on the way to wake it or has been woken. A waker hands over to the
process it has in hand, which retries and wakes the next or puts itself in front
again (`WokenHead`, `TriedInVain`); this chain breaks when the woken process is
killed or loses its FIFO (`Alive`), leaves with EINTR, or when the entry is
nobody's (`Named`). A newcomer that joins an empty list although it fits does so
only after it has seen others there, of whom one is awake (`Newcomer`).

`NoStrandedReceiver` needs less of the senders' calm: a sender wakes the
receivers of its type one after the other, so that one that is dead, late or
gone is passed over. It needs that a receiver looks at the queue before it waits
(`NeverBehind`), which is `NoTypeShared` and, since an entry that is nobody's
shows a type too (`ShowsType`), that its own open is not interrupted (`Steady`);
that what it saw is so when it joins the list (`EmptyHanded`), by the FLOCK of
both sides; and that a waker's hand holds an entry of its type (`AllAddressed`).

**DiskQSpace.** The properties say what holds when the lock is free or the
search is over; the invariant (`IInv`) has to say what the map is worth in
between. A map just made tiles the file: its blocks lie one behind the other in
the order of their links, no two gaps side by side, and each message has its
block (`Fresh`). That needs `MakeDataArray`, which is a fold over the messages
in any order; each one is cut out of the gap it lies in, and what is left still
tiles the file. So every byte no message has is in some gap, and since no more
bytes are taken than `cbytes` counts, the gaps together are large enough.

From there the three compressions go different ways, and `Step` is what each
may rely on. The first two make one move in a map just made, after which a gap
that is large enough is on the walk (`Fits`) and no gap on the walk holds a
byte of a message (`Safe`); the next round therefore writes, and the map need
not be a good one otherwise. It is not: after `MoveOneData` some `prev` links
are stale, which is why a second such move could do harm, and does when the
file's first block was the one that moved. The third pushes a gap back
through the file. What is in front of it is a chain of data blocks, of which
only the links forward are right; what is behind it is still the map as it was
made (`Chain`). In front of the gap no byte is free (`Covered`), so that when
it reaches the end of the file it holds all that is free. Each move sets one
more message in front of the gap, which bounds the number of moves by the
number of those messages (`Before`), and proves `MovesBounded`.

`KeptInv` is about the bytes: a message lies in the file clear of the others
with its bytes in its place, and between the two writes of a move in the new
place and, unless the two overlap, still in the old one. The place a move or
a send writes to is clear of all other messages, by `Step` and `FoundInv`. All
this is said of sends that have not made one of the wrong moves (`Strayed`);
after one the send puts all messages at risk (`RiskInv`). A
walk along `next` is a recursive function over positions. Its facts come from
induction on the naturals (`LeastNat`), and from a rank that grows along the
links: from it follow that a walk ends, and which blocks it meets.

**ExternalCall.** The invariant says that no two open sockets listen on a port
(`DistinctPorts`) and that a program that lives has the socket of its own call
open, on the port it was given (`PortHeld`). So the port of a late program is
not given to another call, the program reaches its own call's socket or none,
and requests, answers and connections are those of one call (`OwnQueue`,
`OwnRequest`, `OwnPeer`). That the program inherits the listening socket is
needed: the mutant `InheritedNot` refutes the property.

**FileTransfer.** The invariant is about the whole stream, from what the
receiver's `Recvn` has over what is under way to what the sender's `Sendn`
still has (`Carries`). One function `p` numbers its units; `p[0]` is the last
unit the receiver is done with. Each unit is a part of a header or a byte of a
file that was begun (`IsUnit`), and each is the one that has to follow the one
before (`InOrder`): header parts in order, then the bytes of that file, then
the next header. What the receiver is done with agrees with `p[0]` (`Had`), and
what the sender has given to `Sendn` with the last unit (`Given`). So a step at
either end only has to be right about one unit: `Sendn` and `Recvn` move the
marks along the same `p`, a kill or a break cuts `p` short, a header or packet
read from a file continues it (`GivingAgrees`), and what is opened or written
takes a piece off its front (`TakingAgrees`). Two runs along the stream, by
`SetInduction`, say what that piece is: behind the end of a file a header
(`HeaderRun`), within a file the bytes that come next (`BytesRun`). Nothing of
this depends on how large the pieces are. A file is begun once, since its name
is once in the queue, so that its length is not looked up again while its units
are under way (`Stable`). The invariant holds while `skew` is not set; what
holds in any case are the shapes of the two calls and that files that were
there before stay (`ShapesStep`). Without `ByName` it still gives
`NoneCutShort`: under whatever name, all of a file or nothing.

**Journal.** The first three properties are about histories in which no
initialisation was cut off or ran beside another call (`~raced`, a flag that is
never cleared), and so is the invariant. Who is inside `jpjn_write` or
`jpjn_read` has the lock (`Locked`: here no lock request may be interrupted,
see the table above), and an initialisation that is between the two files is
alone (`InitsAlone`). The index lies in line and no record reaches behind the
end of the last one (`InLine`), each number that was returned has its bytes
(`Kept`), and each entry was returned (`AllAcked`), which makes what a reader
finds a record that somebody wrote. A writer that has read the size of the
index writes at exactly that number and behind the last record
(`WriterReady`), whatever a killed or failed writer left behind in the data
file; one lemma about writing into a file (`WrittenPlaces`) serves both files.

`RecordsDisjoint` is not limited to such histories, and has an invariant of its
own (`Placed`): a writer in the lock holds an offset behind all records of the
index, or the index has been emptied under it (`Ahead`). An initialisation only
shortens the index, and to nothing, so that what is left of the order stays.

**PidFile.** A process that runs has the lock of the file that has the name
(`NameIsLocked`); there is one name, and one lock per file. Others remove the
name, but only after they failed to write a pid, which is the premise of
`RunsOnce`, or when they run themselves. `SomeoneRuns` needs the converse, for
histories without mishap or stop (`Undisturbed`): a lock is held only on the
file that has the name and by a process that will run, and as soon as one start
has given way another is on the way to run or runs.

**Scheduler.** The invariant `IInv` is `ProcessesKnown` and `PidsAreChildren`
with the shape of the tables (`Types`: a pid in a table is that of a process
that was started). They need each other. A program is started only when its
entry has no pid, and by `ProcessesKnown` all its processes have then been
waited for, so that the new one is the only one; a signal or a wait goes to a
process that by `PidsAreChildren` has not been waited for. That no two entries
have one pid is needed when ended processes are taken out of the table. For a
program on several lines and for batch jobs there is no `ProcessesKnown`: a
reload or `InitBats` may forget a process, and only the other half is kept. Of a
program on one line a reload carries over the pid of its only entry. One lemma
(`Frame`) covers the steps that wait for nobody and start nobody; the reload has
its own, since entries move from line to line. One round restarts a program or
signals it, never both, because the sets are told apart by the pid.
`ProgramsEndToo` follows: `TermProc` ends when it has signalled every pid of the
table, and every process of such a program that was not waited for has an entry.

`DueJobsRun` has an invariant about time (`JInv`). `Clock` orders the
readings of time; unless `Pauses`, rounds are a minute apart at most and each
weekday is that of the minute of its time or of the one before (`Prompt`).
Two readings stand for one minute: a time just after midnight with the weekday
before it for the last minute of the old day (`Minute`). In those minutes a job
that counts as run was due at or before the minute of its period the round
stands for (`RunsKnown`). A new day, month or year is seen by its number, a new
week by the two weekdays (`NewPeriodSeen`, which needs that no round passes over
a day, hence the premise); both clear the flag. So at a minute when the job is
due the flag is clear: if it had run, it would have been due earlier in the same
period, and a job is due once in a period.

**Sequence.** The theorem is in `Journal_proofs`, about an instance of
`Sequence` with its own constants and variables. The number in the file is larger than all that were taken since
the last initialisation, and so is the number read by a reader that has the
lock and is about to write (`SqFileIsAhead`, `SqWriterIsAhead`). The premises are
two rows of the table above: numbers below the largest int, and an array that
was clear.

**Only model-checked.** Every liveness property (fairness and ENABLED are
outside what the provers do). Every invariant and every action property that a
passing run checks is a theorem, and so is the refinement.

## 5. Not modelled

- `d_msgget` by two processes at once, `d_msgctl` (IPC_SET, IPC_RMID) and
  `msg_rm` beside senders: they take other locks than the senders or none, so
  that nothing is kept apart and there is no property but the loss, which
  PROJECT.json lists as hazards.
- `LogRotate`: the same; two processes that rotate a log at once lose a
  generation.
- Sockets beyond file transfer and external programs (`Network.c`), `IPC.c`
  (not used by the rest): wrappers of single system calls.
- Parsing of configuration (`ConfigParse`, `GetConfig`), `RunProgramList`,
  formatting, dates and strings (`String.c`, `DateTime.c`, `System.c`),
  `WriteLog`: conversions without state.
- The SEED cipher (vendored, a pure function on 128 bits), the test programs.

What would come next: the refinement of `DiskQFile`'s byte count by
`DiskQSpace`, so that a send of the one is a search and a write of the other.
