---------------------------- MODULE ExternalCall ----------------------------
(***************************************************************************)
(* jpec_call: a process starts a program, gives it a port number, and      *)
(* exchanges one request and one answer with it over the local socket it   *)
(* listens on.  Several processes make calls, each one call at a time, and *)
(* call again after a failure.  A program may be slow, fail, or never be   *)
(* executed; the caller waits a limited time for its connection and for    *)
(* its answer.                                                             *)
(*                                                                         *)
(* A call is known by its caller and its number, and so are the listening  *)
(* socket, the program and the request of the call.                        *)
(***************************************************************************)
EXTENDS Integers, Sequences, FiniteSets, SequencesExt

CONSTANTS
  Callers,    (* processes that call                                       *)
  MaxCalls,   (* bound on the calls of each                                *)
  Faults      (* of "dies", a program that fails; "exec", one that cannot  *)
              (* be executed; "fork"; "split", an answer that arrives in   *)
              (* two pieces                                                *)

ASSUME CallAssumption ==
  /\ IsFiniteSet(Callers) /\ MaxCalls \in [Callers -> Nat]
  /\ Faults \subseteq {"dies", "exec", "fork", "split"}

Calls == UNION {{p} \X (1 .. MaxCalls[p]) : p \in Callers}
NoCall == <<>>

VARIABLES
  caller,   (* where each process is, in which call, and what it returned  *)
  sock,     (* the listening socket of each call: its port, the processes  *)
            (* that have it open, the connections not yet accepted         *)
  prog,     (* the program of each call                                    *)
  conn      (* the connection each program has made: to which call, who    *)
            (* has it open, the request in it, the pieces of the answer    *)

vars == <<caller, sock, prog, conn>>

NoSock == [port |-> 0, open |-> {}, queue |-> <<>>]
NoConn == [to |-> NoCall, open |-> {}, req |-> NoCall, pieces |-> 0]
Pieces == IF "split" \in Faults THEN {1, 2} ELSE {2}

Init ==
  /\ caller = [p \in Callers |-> [pc |-> "idle", n |-> 0, peer |-> NoCall]]
  /\ sock = [k \in Calls |-> NoSock]
  /\ prog = [k \in Calls |-> [pc |-> "none", port |-> 0, req |-> NoCall]]
  /\ conn = [k \in Calls |-> NoConn]

Call(p) == <<p, caller[p].n>>
At(p, pc) == caller[p].pc = pc
Goes(p, pc) == caller' = [caller EXCEPT ![p].pc = pc]

UsedPorts == {sock[k].port : k \in {j \in Calls : sock[j].open # {}}}

----------------------------------------------------------------------------
(* The caller.                                                             *)

(* jpec_bind, at the first call, or at another after one that returned:    *)
(* the first port that is free.                                            *)
Bind(p) ==
  /\ caller[p].pc \in {"idle", "ok", "error"} /\ caller[p].n < MaxCalls[p]
  /\ caller' = [caller EXCEPT ![p] = [pc |-> "bound", n |-> @.n + 1, peer |-> NoCall]]
  /\ \E port \in 1 .. Cardinality(Calls) + 1 :
       /\ port \notin UsedPorts /\ 1 .. port - 1 \subseteq UsedPorts
       /\ sock' = [sock EXCEPT ![<<p, caller[p].n + 1>>] =
                     [port |-> port, open |-> {"caller"}, queue |-> <<>>]]
  /\ UNCHANGED <<prog, conn>>

(* Mutant: the listening socket is closed on exec.                         *)
InheritedNot == {}

(* What the program has open of the call's listening socket, which has no  *)
(* FD_CLOEXEC.                                                             *)
Inherited == {"program"}

(* RunProg.  Where exec fails the new process goes on as a second copy of  *)
(* the caller and returns from jpec_call as well, with -2.                 *)
RunProg(p) ==
  /\ At(p, "bound")
  /\ \E fails \in {"no"} \cup (Faults \cap {"exec", "fork"}) :
       LET k == Call(p) IN
       /\ prog' = [prog EXCEPT
            ![k].pc = CASE fails = "no" -> "run" [] fails = "exec" -> "copy" [] OTHER -> @,
            ![k].port = sock[k].port]
       /\ sock' = [sock EXCEPT ![k].open = IF fails = "no" THEN @ \cup Inherited ELSE @]
       /\ Goes(p, IF fails = "fork" THEN "fails" ELSE "accept")
  /\ UNCHANGED conn

(* Accept: a connection is waiting, or one second passes.                  *)
Accept(p) ==
  /\ At(p, "accept")
  /\ LET k == Call(p) IN
       /\ sock[k].queue # <<>>
       /\ caller' = [caller EXCEPT ![p].pc = "send", ![p].peer = Head(sock[k].queue)]
       /\ conn' = [conn EXCEPT ![Head(sock[k].queue)].open = @ \cup {"caller"}]
       /\ sock' = [sock EXCEPT ![k].queue = Tail(@)]
  /\ UNCHANGED prog

(* Mutant: it waits for ever.                                              *)
AcceptTimedOutNot(p) ==
  /\ At(p, "accept") /\ sock[Call(p)].queue = <<>> /\ prog[Call(p)].pc = "ended"
  /\ Goes(p, "fails")
  /\ UNCHANGED <<sock, prog, conn>>

AcceptTimedOut(p) ==
  /\ At(p, "accept") /\ sock[Call(p)].queue = <<>>
  /\ Goes(p, "fails")
  /\ UNCHANGED <<sock, prog, conn>>

(* Sendn: the request fits the socket's buffer.                            *)
SendRequest(p) ==
  /\ At(p, "send")
  /\ LET peer == caller[p].peer
         gone == "program" \notin conn[peer].open
     IN \/ gone /\ Goes(p, "fails") /\ UNCHANGED conn
        \/ Goes(p, "recv") /\ conn' = [conn EXCEPT ![peer].req = Call(p)]
  /\ UNCHANGED <<sock, prog>>

(* Recvw: one recv of what has arrived, or nothing more arrives in time.   *)
Recvw(p) ==
  /\ At(p, "recv")
  /\ LET c == conn[caller[p].peer] IN
       \/ c.pieces > 0 /\ Goes(p, IF c.pieces = 2 THEN "answered" ELSE "fails")
       \/ c.pieces = 0 /\ Goes(p, "fails")
  /\ UNCHANGED <<sock, prog, conn>>

(* Both sockets are closed on each way out; with the last process that has *)
(* it open a listening socket goes, and what waits there is reset.         *)
Closed(k, who) ==
  [sock EXCEPT ![k] = IF sock[k].open \subseteq {who} THEN NoSock
                      ELSE [sock[k] EXCEPT !.open = sock[k].open \ {who}]]

(* A connection both have closed is gone.                                  *)
Shut(k, who) ==
  [conn EXCEPT ![k] = IF conn[k].open \subseteq {who} THEN NoConn
                      ELSE [conn[k] EXCEPT !.open = conn[k].open \ {who}]]

Return(p) ==
  /\ caller[p].pc \in {"answered", "fails"}
  /\ sock' = Closed(Call(p), "caller")
  /\ conn' = IF caller[p].peer = NoCall THEN conn
             ELSE Shut(caller[p].peer, "caller")
  /\ Goes(p, IF At(p, "answered") THEN "ok" ELSE "error")
  /\ UNCHANGED prog

----------------------------------------------------------------------------
(* The program k.                                                          *)

Ends(k) ==
  /\ prog' = [prog EXCEPT ![k].pc = "ended", ![k].port = 0]
  /\ sock' = Closed(k, "program")
  /\ conn' = Shut(k, "program")

(* jpec_open connects to whoever listens on the port it was given.         *)
Open(k) ==
  /\ prog[k].pc = "run"
  /\ LET to == {j \in Calls : sock[j].open # {} /\ sock[j].port = prog[k].port} IN
       \/ to = {} /\ Ends(k)
       \/ \E j \in to :
            /\ prog' = [prog EXCEPT ![k].pc = "recv"]
            /\ sock' = [sock EXCEPT ![j].queue = Append(@, k)]
            /\ conn' = [conn EXCEPT ![k] = [NoConn EXCEPT !.to = j, !.open = {"program"}]]
  /\ UNCHANGED caller

(* jpec_recv: the request, or the end of a connection that was closed.  A  *)
(* connection nobody accepts stays as long as somebody has the listening   *)
(* socket open, be it the program itself.                                  *)
Recv(k) ==
  /\ prog[k].pc = "recv"
  /\ \/ /\ conn[k].req # NoCall
        /\ prog' = [prog EXCEPT ![k].pc = "work", ![k].req = conn[k].req]
        /\ UNCHANGED <<sock, conn>>
     \/ /\ conn[k].req = NoCall /\ "caller" \notin conn[k].open
        /\ ~Contains(sock[conn[k].to].queue, k)
        /\ Ends(k)
  /\ UNCHANGED caller

(* jpec_send: the answer, or the caller has closed; then the program ends. *)
SendAnswer(k) ==
  /\ prog[k].pc = "work"
  /\ IF conn[k].pieces = 2 \/ "caller" \notin conn[k].open THEN Ends(k)
     ELSE /\ \E n \in Pieces : n > conn[k].pieces /\ conn' = [conn EXCEPT ![k].pieces = n]
          /\ UNCHANGED <<sock, prog>>
  /\ UNCHANGED caller

Die(k) ==
  /\ "dies" \in Faults
  /\ prog[k].pc \in {"run", "recv", "work"}
  /\ Ends(k)
  /\ UNCHANGED caller

Caller(p) ==
  \/ RunProg(p) \/ Accept(p) \/ AcceptTimedOut(p)
  \/ SendRequest(p) \/ Recvw(p) \/ Return(p)

Program(k) == Open(k) \/ Recv(k) \/ SendAnswer(k)

Next ==
  \/ \E p \in Callers : Bind(p) \/ Caller(p)
  \/ \E k \in Calls : Program(k) \/ Die(k)

Spec == Init /\ [][Next]_vars

(* A caller runs on inside its call, and its clock does; nothing is        *)
(* assumed of the programs.                                                *)
FairSpec == Spec /\ \A p \in Callers : WF_vars(Caller(p))

----------------------------------------------------------------------------
(* A call that succeeds has the answer of the program it started, to its   *)
(* own request, however late the programs of earlier calls come, of this   *)
(* process or of others, with the port number they were given.  (Such a    *)
(* program has inherited the socket that listened there, so that the port  *)
(* is not given to a call again while it lives.)                           *)
AnswerIsOwn ==
  \A p \in Callers :
    caller[p].pc \in {"answered", "ok"} =>
      caller[p].peer = Call(p) /\ prog[Call(p)].req = Call(p)

(* Every call returns, whatever its program and those of others do.        *)
CallReturns ==
  \A p \in Callers : At(p, "bound") ~> caller[p].pc \in {"ok", "error"}

(* With programs that run on as well.                                      *)
BusySpec == FairSpec /\ \A k \in Calls : WF_vars(Program(k))

(* "Waits until the program started dies": the comment over the sleep at   *)
(* the end; and so it should for a call that failed.                       *)
(* Does not hold, even of BusySpec: README, "Where code and comments       *)
(* part".                                                                  *)
ProgramsEnd ==
  \A k \in Calls :
    prog[k].pc = "recv" /\ caller[k[1]].n = k[2] /\ caller[k[1]].pc = "error"
      ~> prog[k].pc = "ended"

(* A call whose program cannot be executed returns once.                   *)
(* Does not hold: README, "Where code and comments part".                  *)
ReturnsOnce == \A k \in Calls : prog[k].pc # "copy"
=============================================================================
