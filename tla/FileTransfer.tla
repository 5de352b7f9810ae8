---------------------------- MODULE FileTransfer ----------------------------
(***************************************************************************)
(* SendFile and RecvFile of ComLib: files sent one after the other over a  *)
(* stream socket, each as a header and then its bytes in packets.  There   *)
(* is no answer and no mark at the end of a file: the receiver finds its   *)
(* place in the stream by the length in the header alone.                  *)
(*                                                                         *)
(* The stream is a sequence of units, the parts of headers and the bytes   *)
(* of files; the sockets' buffers hold Room of them.  A file may change    *)
(* while it is sent, the disk may be full, either process may be killed    *)
(* and the connection may break.                                           *)
(***************************************************************************)
EXTENDS Integers, Sequences, SequencesExt

CONSTANTS
  Queue,      (* the names of the files to send, in order, each once       *)
  Lengths,    (* their lengths at first                                    *)
  MaxLen,     (* bound on the length a file grows to                       *)
  PkSizes,    (* pksize, as SendFile's caller may choose it                *)
  HdLen,      (* the length of a header in units                           *)
  LenRange,   (* 2^32: htonl keeps so much of a length                     *)
  Room,       (* what the buffers of the connection hold                   *)
  ByName,     (* fpath is a directory, and not the name of a file          *)
  Old,        (* names at the receiver that exist already                  *)
  Changes,    (* how often files may change while they are sent            *)
  Faults      (* of "kill", "break", "disk"                                *)

Names == Range(Queue)

ASSUME TransferAssumption ==
  /\ Lengths \in [Names -> 0 .. MaxLen]
  /\ Queue \in Seq(Names) /\ Queue # <<>> /\ IsInjective(Queue) /\ MaxLen \in Nat
  /\ PkSizes \subseteq Nat \ {0} /\ PkSizes # {}
  /\ HdLen \in Nat \ {0} /\ LenRange \in Nat \ {0} /\ Room \in Nat \ {0}
  /\ ByName \in BOOLEAN /\ Old \subseteq Names /\ Changes \in Nat
  /\ Faults \subseteq {"kill", "break", "disk"}

VARIABLES
  src,       (* the length of each file at the sender                      *)
  changed,   (* how often files have changed                               *)
  snd,       (* the sender: where it is in Queue, and its SendFile         *)
  wire,      (* the units sent and not yet received                        *)
  up,        (* the connection is open at the sender's, the receiver's end *)
  rcv,       (* the receiver: its calls so far, and its RecvFile           *)
  dst,       (* the files at the receiver, by name                         *)
  stat,      (* history: the length of each file when SendFile looked      *)
  skew       (* history: the stream and the headers no longer agree        *)

vars == <<src, changed, snd, wire, up, rcv, dst, stat, skew>>

(* The units of a header, the bytes of a file from one offset to another.  *)
Hd(n, len, pk) == [k \in 1 .. HdLen |->
                      [n |-> n, at |-> 0, part |-> k, len |-> len, pk |-> pk]]
Bytes(n, from, to) == [k \in 1 .. to - from |-> [n |-> n, at |-> from + k]]
OldFile == <<"old">>

Init ==
  /\ src = Lengths /\ changed = 0
  /\ snd = [pc |-> "idle", i |-> 1]
  /\ wire = <<>>
  /\ up = [snd |-> TRUE, rcv |-> TRUE]
  /\ rcv = [pc |-> "header", call |-> 1, buf |-> <<>>]
  /\ dst = [n \in Old |-> OldFile]
  /\ stat = [n \in Names |-> 0]
  /\ skew = FALSE

----------------------------------------------------------------------------
(* The sender.                                                             *)

Sending == Queue[snd.i]
Returned == [pc |-> "idle", i |-> snd.i + 1]

(* SendFile up to its first send.  Nothing is sent of an empty file.       *)
Start ==
  /\ snd.pc = "idle" /\ snd.i <= Len(Queue)
  /\ \E pk \in PkSizes :
       LET n == Sending
           len == src[n]
       IN snd' = IF len = 0 THEN Returned
                 ELSE [pc |-> "sendn", i |-> snd.i, len |-> len, pk |-> pk, nsend |-> 0,
                       out |-> Hd(n, len % LenRange, pk)]
  /\ stat' = [stat EXCEPT ![Sending] = src[Sending]]
  /\ skew' = (skew \/ src[Sending] >= LenRange)
  /\ UNCHANGED <<src, changed, wire, up, rcv, dst>>

(* Sendn: one send, of as much as there is room for; it does not always    *)
(* tell that the receiver has closed its end.                              *)
Sendn ==
  /\ snd.pc = "sendn" /\ up.snd
  /\ up.rcv => Len(wire) < Room
  /\ LET k == IF up.rcv THEN Min({Len(snd.out), Room - Len(wire)}) ELSE Len(snd.out) IN
       /\ wire' = IF up.rcv THEN wire \o SubSeq(snd.out, 1, k) ELSE wire
       /\ snd' = IF k = Len(snd.out) THEN [snd EXCEPT !.pc = "read", !.out = <<>>]
                 ELSE [snd EXCEPT !.out = SubSeq(@, k + 1, Len(@))]
  /\ UNCHANGED <<src, changed, up, rcv, dst, stat, skew>>

(* The loop: until as much is sent as the file had at first, or the file   *)
(* ends.  A whole packet is read even where it goes past that length.      *)
Read ==
  /\ snd.pc = "read"
  /\ LET n == Sending
         got == Min({snd.pk, src[n] - snd.nsend})
         ends == snd.nsend >= snd.len \/ got <= 0
     IN /\ snd' = IF ends THEN Returned
                  ELSE [snd EXCEPT !.pc = "sendn", !.nsend = @ + got,
                                   !.out = Bytes(n, snd.nsend, snd.nsend + got)]
        /\ skew' = (skew \/ IF ends THEN snd.nsend # snd.len
                             ELSE snd.nsend + got > snd.len)
  /\ UNCHANGED <<src, changed, wire, up, rcv, dst, stat>>

(* A send on a connection that is gone: SendFile returns, the sender       *)
(* closes its end; and so it does behind the last file.                    *)
Close ==
  /\ up.snd
  /\ \/ snd.pc = "sendn" /\ ~up.rcv
     \/ snd.pc = "idle" /\ snd.i > Len(Queue)
  /\ snd' = [pc |-> "closed", i |-> snd.i]
  /\ up' = [up EXCEPT !.snd = FALSE]
  /\ UNCHANGED <<src, changed, wire, rcv, dst, stat, skew>>

----------------------------------------------------------------------------
(* The receiver, which calls RecvFile until there is nothing more.         *)

Path(hd) == IF ByName THEN hd.n ELSE Queue[rcv.call]
NextCall ==
  IF ByName \/ rcv.call < Len(Queue)
  THEN [pc |-> "header", call |-> rcv.call + 1, buf |-> <<>>]
  ELSE [pc |-> "leaving", call |-> rcv.call]
Failed(pc) == [pc |-> pc, call |-> rcv.call]
Remaining == rcv.len - Len(dst[rcv.name])

(* Mutant: the last packet is taken to be a whole one.                     *)
WantPacket == IF rcv.pc = "header" THEN HdLen ELSE IF Remaining = 0 THEN 0 ELSE rcv.pk

(* How much the Recvn in progress is for: the header, or a packet.         *)
Want == IF rcv.pc = "header" THEN HdLen ELSE Min({Remaining, rcv.pk})

(* Recvn: one recv, of what there is.                                      *)
Recvn ==
  /\ rcv.pc \in {"header", "data"}
  /\ Len(rcv.buf) < Want /\ wire # <<>>
  /\ LET k == Min({Want - Len(rcv.buf), Len(wire)}) IN
       /\ rcv' = [rcv EXCEPT !.buf = @ \o SubSeq(wire, 1, k)]
       /\ wire' = SubSeq(wire, k + 1, Len(wire))
  /\ UNCHANGED <<src, changed, snd, up, dst, stat, skew>>

Full == Len(rcv.buf) = Want

(* Mutant: Recvn goes on at the end of the stream.                         *)
EndOfStreamNot == FALSE

(* Recvn returns with less than it is for.                                 *)
EndOfStream == ~Full /\ wire = <<>> /\ ~up.snd

IsHd(u) == u[1].at = 0 /\ u = Hd(u[1].n, u[1].len, u[1].pk)

(* The header is there.  Anything else that is taken for one sends the     *)
(* receiver astray; a name that exists is refused (O_EXCL).                *)
Open ==
  /\ rcv.pc = "header" /\ Full
  /\ LET hd == rcv.buf[1]
         name == Path(hd)
         refused == name \in DOMAIN dst
     IN IF ~IsHd(rcv.buf)
        THEN rcv' = Failed("astray") /\ UNCHANGED dst
        ELSE /\ rcv' = IF refused THEN Failed("failed")
                       ELSE [pc |-> "data", call |-> rcv.call, buf |-> <<>>, name |-> name,
                             len |-> hd.len, pk |-> hd.pk]
             /\ dst' = IF refused THEN dst
                       ELSE [n \in DOMAIN dst \cup {name} |->
                               IF n = name THEN <<>> ELSE dst[n]]
  /\ UNCHANGED <<src, changed, snd, wire, up, stat, skew>>

(* No header, or a packet that does not come: the file is unlinked.        *)
NoMore ==
  /\ rcv.pc = "header" \/ (rcv.pc = "data" /\ rcv.buf = <<>>)
  /\ EndOfStream
  /\ rcv' = Failed("leaving")
  /\ dst' = IF rcv.pc = "data" THEN Restrict(dst, DOMAIN dst \ {rcv.name}) ELSE dst
  /\ UNCHANGED <<src, changed, snd, wire, up, stat, skew>>

(* A packet is written, a last one that is too short for all.  The file is *)
(* complete when it has the length of the header.                          *)
Write ==
  /\ rcv.pc = "data" /\ rcv.buf # <<>>
  /\ Full \/ EndOfStream
  /\ dst' = [dst EXCEPT ![rcv.name] = @ \o rcv.buf]
  /\ rcv' = [rcv EXCEPT !.buf = <<>>]
  /\ UNCHANGED <<src, changed, snd, wire, up, stat, skew>>

Complete ==
  /\ rcv.pc = "data" /\ Remaining = 0
  /\ rcv' = NextCall
  /\ UNCHANGED <<src, changed, snd, wire, up, dst, stat, skew>>

(* Mutant: the file is left behind.                                        *)
WriteFailsKeeps ==
  /\ "disk" \in Faults
  /\ rcv.pc = "data" /\ rcv.buf # <<>> /\ (Full \/ EndOfStream)
  /\ rcv' = Failed("failed")
  /\ UNCHANGED <<src, changed, snd, wire, up, dst, stat, skew>>

(* The disk is full (or, for no packet yet, malloc fails).                 *)
WriteFails ==
  /\ "disk" \in Faults
  /\ rcv.pc = "data" /\ rcv.buf # <<>> /\ (Full \/ EndOfStream)
  /\ dst' = Restrict(dst, DOMAIN dst \ {rcv.name})
  /\ rcv' = Failed("failed")
  /\ UNCHANGED <<src, changed, snd, wire, up, stat, skew>>

(* After a failure the caller closes the connection, or calls RecvFile for *)
(* the next file, with what is left of this one still to come.             *)
Again ==
  /\ rcv.pc = "failed"
  /\ rcv' = NextCall
  /\ skew' = TRUE
  /\ UNCHANGED <<src, changed, snd, wire, up, dst, stat>>

Leave ==
  /\ rcv.pc \in {"leaving", "failed", "astray"}
  /\ rcv' = Failed("left")
  /\ up' = [up EXCEPT !.rcv = FALSE]
  /\ UNCHANGED <<src, changed, snd, wire, dst, stat, skew>>

----------------------------------------------------------------------------
(* What may happen to them.                                                *)

(* Somebody else appends to a file or truncates it.                        *)
Change(n) ==
  /\ changed < Changes
  /\ snd.pc \in {"sendn", "read"} /\ n = Sending
  /\ \E len \in 0 .. MaxLen \ {src[n]} : src' = [src EXCEPT ![n] = len]
  /\ changed' = changed + 1
  /\ UNCHANGED <<snd, wire, up, rcv, dst, stat, skew>>

(* A process is killed.  What it had sent still arrives.                   *)
KillSender ==
  /\ "kill" \in Faults /\ up.snd
  /\ snd' = [pc |-> "closed", i |-> snd.i]
  /\ up' = [up EXCEPT !.snd = FALSE]
  /\ UNCHANGED <<src, changed, wire, rcv, dst, stat, skew>>

KillReceiver ==
  /\ "kill" \in Faults /\ up.rcv
  /\ rcv' = IF rcv.pc = "data" THEN [rcv EXCEPT !.pc = "killed"] ELSE Failed("left")
  /\ up' = [up EXCEPT !.rcv = FALSE]
  /\ UNCHANGED <<src, changed, snd, wire, dst, stat, skew>>

(* The connection breaks, and some of what is under way is lost.           *)
Break ==
  /\ "break" \in Faults /\ up.snd
  /\ \E k \in 0 .. Len(wire) : wire' = SubSeq(wire, 1, k)
  /\ snd' = [pc |-> "closed", i |-> snd.i]
  /\ up' = [up EXCEPT !.snd = FALSE]
  /\ UNCHANGED <<src, changed, rcv, dst, stat, skew>>

SendFile == Start \/ Sendn \/ Read \/ Close
RecvFile == Recvn \/ Open \/ NoMore \/ Write \/ Complete \/ Again \/ Leave

Next ==
  \/ SendFile \/ RecvFile \/ WriteFails
  \/ \E n \in Names : Change(n)
  \/ KillSender \/ KillReceiver \/ Break

Spec == Init /\ [][Next]_vars

(* Both processes run on; a caller of RecvFile does not try for ever.      *)
FairSpec == Spec /\ WF_vars(SendFile) /\ WF_vars(RecvFile)

----------------------------------------------------------------------------
Receiving(n) == rcv.pc \in {"data", "killed"} /\ rcv.name = n

(* A file at the receiver is there whole, with the bytes of the file of    *)
(* that name at the sender and as long as that was when SendFile looked,   *)
(* or it is being received, or its receiver was killed; a file that was    *)
(* there before stays as it was.  So whether the sender is killed, the     *)
(* connection breaks or the disk is full, nothing shorter is left to be    *)
(* taken for the file.  The premise is that stream and headers agree       *)
(* (skew): the file did not end early or grow into a last packet, its      *)
(* length fits the header, and the caller gives up after a failure.        *)
FilesArriveWhole ==
  \A n \in DOMAIN dst :
    \/ Receiving(n)
    \/ n \in Old /\ dst[n] = OldFile
    \/ n \notin Old /\ (skew \/ (dst[n] # <<>> /\ dst[n] = Bytes(n, 0, Len(dst[n]))
                                  /\ Len(dst[n]) = stat[n]))

(* The receiver never takes bytes of a file for a header, or a header for  *)
(* bytes, under the same premise.                                          *)
FramingKept ==
  rcv.pc = "astray" \/ (\E n \in DOMAIN dst \ Old : \E k \in DOMAIN dst[n] : dst[n][k].at = 0)
    => skew

(* The transfer comes to an end, whatever fails: the receiver does not     *)
(* wait for a sender that is gone, nor the sender for a receiver.  A break *)
(* is seen by both ends; of a network that falls silent without one, which *)
(* Recvn would wait on for ever, nothing is said.                          *)
TransferEnds == <>(snd.pc = "closed" /\ rcv.pc \in {"left", "killed"})
=============================================================================
