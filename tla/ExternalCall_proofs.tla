------------------------ MODULE ExternalCall_proofs -------------------------
(***************************************************************************)
(* For any number of callers and calls, whatever fails: a call of jpec_call*)
(* that succeeds has the answer of its own program to its own request.     *)
(***************************************************************************)
EXTENDS ExternalCall, TLAPS

Places == {"idle", "bound", "accept", "send", "recv", "answered", "fails", "ok", "error"}
Living == {"run", "recv", "work"}
Stages == Living \cup {"none", "copy", "ended"}
Who == {"caller", "program"}
Ports == {0} \cup 1 .. Cardinality(Calls) + 1
MaybeCall == Calls \cup {NoCall}

Types ==
  /\ caller \in [Callers -> [pc : Places, n : Nat, peer : MaybeCall]]
  /\ sock \in [Calls -> [port : Ports, open : SUBSET Who, queue : Seq(Calls)]]
  /\ prog \in [Calls -> [pc : Stages, port : Ports, req : MaybeCall]]
  /\ conn \in [Calls -> [to : MaybeCall, open : SUBSET Who, req : MaybeCall, pieces : 0 .. 2]]

(* A process that has called is in a call within the bound; of the calls   *)
(* to come no program runs.                                                *)
Counted ==
  \A p \in Callers :
    /\ caller[p].n <= MaxCalls[p]
    /\ caller[p].pc # "idle" => caller[p].n >= 1
    /\ \A n \in 1 .. MaxCalls[p] : n > caller[p].n => prog[<<p, n>>].pc = "none"

(* No two sockets listen on a port, and while a program lives it holds the *)
(* socket of its own call open, on the port it was given.                  *)
DistinctPorts ==
  \A j, k \in Calls :
    sock[j].open # {} /\ sock[k].open # {} /\ sock[j].port = sock[k].port => j = k

PortHeld ==
  \A k \in Calls : prog[k].pc \in Living =>
    "program" \in sock[k].open /\ (prog[k].pc = "run" => prog[k].port = sock[k].port)

(* So every connection is between a caller and the program of its call.    *)
OwnQueue == \A k \in Calls : \A i \in DOMAIN sock[k].queue : sock[k].queue[i] = k

OwnRequest ==
  \A k \in Calls :
    /\ conn[k].req \in {NoCall, k} /\ prog[k].req \in {NoCall, k}
    /\ prog[k].pc = "work" \/ conn[k].pieces > 0 => prog[k].req = k

(* A caller that has not started its program has its socket open.          *)
Listening ==
  \A p \in Callers : caller[p].pc = "bound" => "caller" \in sock[Call(p)].open

OwnPeer ==
  \A p \in Callers :
    /\ caller[p].peer \in {NoCall, Call(p)}
    /\ caller[p].pc \in {"send", "recv", "answered", "ok"} => caller[p].peer = Call(p)
    /\ caller[p].pc \in {"answered", "ok"} => prog[Call(p)].req = Call(p)

IInv ==
  Types /\ Counted /\ DistinctPorts /\ PortHeld /\ OwnQueue /\ OwnRequest /\ Listening /\ OwnPeer

----------------------------------------------------------------------------
LEMMA CallsOf == \A p \in Callers : \A n \in 1 .. MaxCalls[p] : <<p, n>> \in Calls
BY DEF Calls

LEMMA CallIsCall ==
  ASSUME Types, Counted, NEW p \in Callers, caller[p].pc # "idle"
  PROVE  Call(p) \in Calls
<1>1. caller[p].n \in 1 .. MaxCalls[p]
  BY CallAssumption DEF Types, Counted
<1>. QED
  BY <1>1, CallsOf DEF Call

LEMMA CallsDiffer ==
  \A p, q \in Callers : p # q => Call(p) # Call(q)
BY DEF Call

LEMMA InitInv == Init => IInv
<1>. SUFFICES ASSUME Init PROVE IInv
  OBVIOUS
<1>. USE DEF Init, NoSock, NoConn, Living
<1>1. Types
  BY DEF Types, Places, Stages, Who, Ports, MaybeCall
<1>2. Counted
  BY CallAssumption, CallsOf DEF Counted
<1>3. DistinctPorts /\ PortHeld
  BY DEF DistinctPorts, PortHeld
<1>4. OwnQueue /\ OwnRequest /\ Listening /\ OwnPeer
  BY DEF OwnQueue, OwnRequest, Listening, OwnPeer
<1>. QED
  BY <1>1, <1>2, <1>3, <1>4 DEF IInv

(* A process that closes a listening socket takes nothing from another     *)
(* process that has it open.                                               *)
LEMMA ClosedLess ==
  ASSUME Types, NEW k \in Calls, NEW who \in Who
  PROVE  /\ Closed(k, who) \in [Calls -> [port : Ports, open : SUBSET Who, queue : Seq(Calls)]]
         /\ \A j \in Calls :
              /\ j # k => Closed(k, who)[j] = sock[j]
              /\ Closed(k, who)[j].open = sock[j].open \ (IF j = k THEN {who} ELSE {})
              /\ Closed(k, who)[j].open # {} =>
                   Closed(k, who)[j].port = sock[j].port /\ Closed(k, who)[j].queue = sock[j].queue
              /\ Closed(k, who)[j].queue \in {<<>>, sock[j].queue}
<1>1. CASE sock[k].open \subseteq {who}
  BY <1>1 DEF Types, Closed, NoSock, Ports
<1>2. CASE ~(sock[k].open \subseteq {who})
  <2>. DEFINE less == [sock[k] EXCEPT !.open = sock[k].open \ {who}]
  <2>1. Closed(k, who) = [sock EXCEPT ![k] = less]
    BY <1>2 DEF Closed
  <2>2. /\ less \in [port : Ports, open : SUBSET Who, queue : Seq(Calls)]
        /\ less.port = sock[k].port /\ less.queue = sock[k].queue
        /\ less.open = sock[k].open \ {who}
    BY DEF Types
  <2>. HIDE DEF less
  <2>3. Closed(k, who) \in [Calls -> [port : Ports, open : SUBSET Who, queue : Seq(Calls)]]
    BY <2>1, <2>2 DEF Types
  <2>4. Closed(k, who)[k] = less /\ \A j \in Calls : j # k => Closed(k, who)[j] = sock[j]
    BY <2>1 DEF Types
  <2>5. ASSUME NEW j \in Calls, j # k PROVE sock[j].open = sock[j].open \ {}
    OBVIOUS
  <2>. QED
    BY <2>2, <2>3, <2>4, <2>5
<1>. QED
  BY <1>1, <1>2

LEMMA ShutLess ==
  ASSUME Types, NEW k \in Calls, NEW who \in Who
  PROVE  /\ Shut(k, who) \in [Calls -> [to : MaybeCall, open : SUBSET Who, req : MaybeCall, pieces : 0 .. 2]]
         /\ \A j \in Calls :
              /\ Shut(k, who)[j].req \in {NoCall, conn[j].req}
              /\ Shut(k, who)[j].pieces \in {0, conn[j].pieces}
<1>1. CASE conn[k].open \subseteq {who}
  BY <1>1 DEF Types, Shut, NoConn, MaybeCall
<1>2. CASE ~(conn[k].open \subseteq {who})
  <2>. DEFINE less == [conn[k] EXCEPT !.open = conn[k].open \ {who}]
  <2>1. Shut(k, who) = [conn EXCEPT ![k] = less]
    BY <1>2 DEF Shut
  <2>2. /\ less \in [to : MaybeCall, open : SUBSET Who, req : MaybeCall, pieces : 0 .. 2]
        /\ less.req = conn[k].req /\ less.pieces = conn[k].pieces
    BY DEF Types
  <2>. HIDE DEF less
  <2>. QED
    BY <2>1, <2>2 DEF Types
<1>. QED
  BY <1>1, <1>2

(* The caller's actions change its own entry only.                         *)
LEMMA OthersKeep ==
  ASSUME Types, NEW p \in Callers, NEW new, caller' = [caller EXCEPT ![p] = new]
  PROVE  /\ caller'[p] = new
         /\ \A q \in Callers : q # p => caller'[q] = caller[q] /\ Call(q)' = Call(q)
BY DEF Types, Call

LEMMA BindKeeps ==
  ASSUME IInv, NEW p \in Callers, Bind(p)
  PROVE  IInv'
<1>. DEFINE k == <<p, caller[p].n + 1>>
            new == [pc |-> "bound", n |-> caller[p].n + 1, peer |-> NoCall]
<1>1. caller[p].n \in Nat /\ caller[p].n + 1 \in 1 .. MaxCalls[p] /\ k \in Calls
  <2>1. caller[p].n \in Nat /\ MaxCalls[p] \in Nat /\ caller[p].n < MaxCalls[p]
    BY CallAssumption DEF IInv, Types, Bind
  <2>2. caller[p].n + 1 \in 1 .. MaxCalls[p]
    BY <2>1
  <2>. QED
    BY <2>1, <2>2, CallsOf
<1>2. caller' = [caller EXCEPT ![p] = new] /\ UNCHANGED <<prog, conn>>
  BY DEF Bind
<1>3. PICK port \in Ports :
        /\ port \notin UsedPorts
        /\ sock' = [sock EXCEPT ![k] = [port |-> port, open |-> {"caller"}, queue |-> <<>>]]
  BY DEF Bind, Ports
<1>4. prog[k].pc = "none"
  <2>1. caller[p].n + 1 > caller[p].n
    BY <1>1
  <2>. QED
    BY <1>1, <2>1 DEF IInv, Counted
<1>5. new \in [pc : Places, n : Nat, peer : MaybeCall]
  BY <1>1 DEF Places, MaybeCall
<1>6. /\ caller'[p] = new
      /\ \A q \in Callers : q # p => caller'[q] = caller[q] /\ Call(q)' = Call(q)
  BY <1>2, OthersKeep DEF IInv
<1>7. /\ sock'[k] = [port |-> port, open |-> {"caller"}, queue |-> <<>>]
      /\ \A j \in Calls : j # k => sock'[j] = sock[j]
  BY <1>1, <1>3 DEF IInv, Types
<1>. HIDE DEF k, new
<1>8. Types'
  <2>1. [port |-> port, open |-> {"caller"}, queue |-> <<>>]
          \in [port : Ports, open : SUBSET Who, queue : Seq(Calls)]
    BY DEF Who
  <2>. QED
    BY <1>2, <1>3, <1>5, <2>1 DEF IInv, Types
<1>9. Counted'
  BY <1>1, <1>2, <1>6 DEF IInv, Counted, Types, new
<1>10. DistinctPorts'
  BY <1>3, <1>7 DEF IInv, DistinctPorts, UsedPorts
<1>11. PortHeld'
  BY <1>2, <1>4, <1>7 DEF IInv, PortHeld, Living
<1>12. OwnQueue'
  BY <1>7 DEF IInv, OwnQueue
<1>13. OwnRequest'
  BY <1>2 DEF IInv, OwnRequest
<1>14. OwnPeer'
  BY <1>2, <1>6 DEF IInv, OwnPeer, new
<1>15. Listening'
  <2>1. Call(p)' = k
    BY <1>6 DEF Call, new, k
  <2>2. ASSUME NEW q \in Callers, q # p, caller'[q].pc = "bound"
        PROVE  "caller" \in sock'[Call(q)'].open
    <3>1. Call(q) # k /\ Call(q) \in Calls
      BY <1>6, <2>2, CallIsCall DEF IInv, Call, k
    <3>. QED
      BY <1>6, <1>7, <2>2, <3>1 DEF IInv, Listening
  <2>. QED
    BY <1>1, <1>7, <2>1, <2>2 DEF Listening
<1>. QED
  BY <1>8, <1>9, <1>10, <1>11, <1>12, <1>13, <1>14, <1>15 DEF IInv

(* A caller that goes on in its call, while no program does.               *)
LEMMA CallerGoesOn ==
  ASSUME IInv, NEW p \in Callers, caller[p].pc # "idle",
         NEW new \in [pc : Places \ {"idle", "bound"}, n : {caller[p].n}, peer : MaybeCall],
         caller' = [caller EXCEPT ![p] = new]
  PROVE  /\ caller' \in [Callers -> [pc : Places, n : Nat, peer : MaybeCall]]
         /\ Call(p) \in Calls
         /\ \A q \in Callers : Call(q)' = Call(q)
         /\ prog' = prog => Counted'
<1>1. new \in [pc : Places, n : Nat, peer : MaybeCall] /\ new.n = caller[p].n
  BY DEF IInv, Types
<1>2. \A q \in Callers : caller'[q] = IF q = p THEN new ELSE caller[q]
  BY DEF IInv, Types
<1>3. \A q \in Callers : caller'[q].n = caller[q].n
  BY <1>1, <1>2
<1>4. prog' = prog => Counted'
  BY <1>2, <1>3 DEF IInv, Counted
<1>. QED
  BY <1>1, <1>3, <1>4, CallIsCall DEF IInv, Types, Call

LEMMA RunProgKeeps ==
  ASSUME IInv, NEW p \in Callers, RunProg(p)
  PROVE  IInv'
<1>. DEFINE k == Call(p)
<1>1. k \in Calls /\ caller[p].pc = "bound" /\ "caller" \in sock[k].open
  BY CallIsCall DEF IInv, RunProg, At, Listening
<1>2. PICK fails \in {"no", "exec", "fork"} :
        /\ prog' = [prog EXCEPT
             ![k].pc = CASE fails = "no" -> "run" [] fails = "exec" -> "copy" [] OTHER -> @,
             ![k].port = sock[k].port]
        /\ sock' = [sock EXCEPT ![k].open = IF fails = "no" THEN @ \cup {"program"} ELSE @]
        /\ caller' = [caller EXCEPT ![p].pc = IF fails = "fork" THEN "fails" ELSE "accept"]
  BY DEF RunProg, Goes, Inherited
<1>3. conn' = conn
  BY DEF RunProg
<1>. DEFINE new == [caller[p] EXCEPT !.pc = IF fails = "fork" THEN "fails" ELSE "accept"]
<1>4. /\ caller' = [caller EXCEPT ![p] = new]
      /\ new \in [pc : Places \ {"idle", "bound"}, n : {caller[p].n}, peer : MaybeCall]
  BY <1>2 DEF IInv, Types, Places
<1>5. /\ caller'[p].pc \in {"fails", "accept"} /\ caller'[p].peer = caller[p].peer
      /\ \A q \in Callers : q # p => caller'[q] = caller[q]
      /\ \A q \in Callers : caller'[q].n = caller[q].n
  BY <1>4 DEF IInv, Types
<1>6. /\ caller' \in [Callers -> [pc : Places, n : Nat, peer : MaybeCall]]
      /\ \A q \in Callers : Call(q)' = Call(q)
  <2>. HIDE DEF new
  <2>. QED
    BY <1>1, <1>4, CallerGoesOn
<1>7. /\ \A j \in Calls : /\ prog'[j].req = prog[j].req
                          /\ j # k => prog'[j] = prog[j]
      /\ prog'[k].port = sock[k].port
      /\ prog'[k].pc = CASE fails = "no" -> "run" [] fails = "exec" -> "copy" [] OTHER -> prog[k].pc
  BY <1>1, <1>2 DEF IInv, Types
<1>8. /\ \A j \in Calls : /\ sock'[j].port = sock[j].port
                          /\ sock'[j].queue = sock[j].queue
                          /\ j # k => sock'[j] = sock[j]
      /\ sock'[k].open = IF fails = "no" THEN sock[k].open \cup {"program"} ELSE sock[k].open
  BY <1>1, <1>2 DEF IInv, Types
<1>9. Types'
  <2>1. prog' \in [Calls -> [pc : Stages, port : Ports, req : MaybeCall]]
    <3>. DEFINE np == [prog[k] EXCEPT !.port = sock[k].port,
                    !.pc = CASE fails = "no" -> "run" [] fails = "exec" -> "copy" [] OTHER -> prog[k].pc]
    <3>1. prog' = [prog EXCEPT ![k] = np]
      BY <1>1, <1>2 DEF IInv, Types
    <3>2. np \in [pc : Stages, port : Ports, req : MaybeCall]
      BY <1>1 DEF IInv, Types, Stages, Living
    <3>. QED
      BY <3>1, <3>2 DEF IInv, Types
  <2>2. sock' \in [Calls -> [port : Ports, open : SUBSET Who, queue : Seq(Calls)]]
    <3>. DEFINE ns == [sock[k] EXCEPT !.open =
                    IF fails = "no" THEN sock[k].open \cup {"program"} ELSE sock[k].open]
    <3>1. sock' = [sock EXCEPT ![k] = ns]
      BY <1>1, <1>2 DEF IInv, Types
    <3>2. ns \in [port : Ports, open : SUBSET Who, queue : Seq(Calls)]
      BY <1>1 DEF IInv, Types, Who
    <3>. QED
      BY <3>1, <3>2 DEF IInv, Types
  <2>. QED
    BY <1>3, <1>6, <2>1, <2>2 DEF IInv, Types
<1>. HIDE DEF new
<1>10. Counted'
  <2>1. ASSUME NEW q \in Callers, NEW n \in 1 .. MaxCalls[q], n > caller[q].n
        PROVE  <<q, n>> \in Calls /\ <<q, n>> # k
    <3>1. n # caller[q].n
      BY <2>1 DEF IInv, Types
    <3>. QED
      BY <3>1, CallsOf DEF Call
  <2>2. ASSUME NEW q \in Callers, NEW n \in 1 .. MaxCalls[q], n > caller'[q].n
        PROVE  prog'[<<q, n>>].pc = "none"
    <3>1. n > caller[q].n
      BY <1>5, <2>2
    <3>2. prog'[<<q, n>>] = prog[<<q, n>>]
      BY <1>7, <2>1, <3>1
    <3>. QED
      BY <3>1, <3>2 DEF IInv, Counted
  <2>3. \A q \in Callers : caller'[q].pc # "idle" => caller[q].pc # "idle"
    BY <1>1, <1>5
  <2>. QED
    BY <1>5, <2>2, <2>3 DEF IInv, Counted
<1>11. DistinctPorts'
  BY <1>1, <1>8 DEF IInv, DistinctPorts
<1>12. PortHeld'
  BY <1>7, <1>8 DEF IInv, PortHeld, Living
<1>13. OwnQueue'
  BY <1>8 DEF IInv, OwnQueue
<1>14. OwnRequest'
  BY <1>1, <1>3, <1>7 DEF IInv, OwnRequest
<1>15. Listening'
  BY <1>5, <1>6, <1>8, CallIsCall DEF IInv, Listening
<1>16. OwnPeer'
  BY <1>5, <1>6, <1>7, CallIsCall DEF IInv, OwnPeer
<1>. QED
  BY <1>9, <1>10, <1>11, <1>12, <1>13, <1>14, <1>15, <1>16 DEF IInv

----------------------------------------------------------------------------
(* Of the sockets at most that of call k loses one process; the queues and *)
(* the connections stay those of each call's program.                      *)
SockStep(k, who) ==
  /\ sock' \in [Calls -> [port : Ports, open : SUBSET Who, queue : Seq(Calls)]]
  /\ \A j \in Calls :
       /\ \/ sock'[j].open = sock[j].open
          \/ j = k /\ sock'[j].open = sock[j].open \ {who}
       /\ sock'[j].open # {} => sock'[j].port = sock[j].port
  /\ OwnQueue'

ConnStep ==
  /\ conn' \in [Calls -> [to : MaybeCall, open : SUBSET Who, req : MaybeCall, pieces : 0 .. 2]]
  /\ \A j \in Calls : conn'[j].req \in {NoCall, j} /\ (conn'[j].pieces > 0 => prog'[j].req = j)

LEMMA CallerStepKeeps ==
  ASSUME IInv, NEW p \in Callers, caller[p].pc # "idle", UNCHANGED prog,
         NEW new \in [pc : Places \ {"idle", "bound"}, n : {caller[p].n}, peer : MaybeCall],
         caller' = [caller EXCEPT ![p] = new],
         SockStep(Call(p), "caller"), ConnStep,
         new.peer \in {NoCall, Call(p)},
         new.pc \in {"send", "recv", "answered", "ok"} => new.peer = Call(p),
         new.pc \in {"answered", "ok"} => prog[Call(p)].req = Call(p)
  PROVE  IInv'
<1>1. /\ caller' \in [Callers -> [pc : Places, n : Nat, peer : MaybeCall]]
      /\ Call(p) \in Calls
      /\ \A q \in Callers : Call(q)' = Call(q)
      /\ Counted'
  BY CallerGoesOn
<1>2. caller'[p] = new /\ \A q \in Callers : q # p => caller'[q] = caller[q]
  BY DEF IInv, Types
<1>3. Types'
  BY <1>1 DEF IInv, Types, SockStep, ConnStep
<1>4. DistinctPorts'
  BY DEF IInv, DistinctPorts, SockStep
<1>5. PortHeld'
  <2>1. ASSUME NEW j \in Calls, "program" \in sock[j].open PROVE "program" \in sock'[j].open
    BY <2>1 DEF SockStep
  <2>. QED
    BY <2>1 DEF IInv, PortHeld, SockStep
<1>6. OwnRequest'
  BY DEF IInv, OwnRequest, ConnStep
<1>7. Listening'
  <2>1. new.pc # "bound"
    OBVIOUS
  <2>2. ASSUME NEW q \in Callers, q # p, caller[q].pc = "bound"
        PROVE  "caller" \in sock'[Call(q)].open
    <3>1. Call(q) \in Calls /\ Call(q) # Call(p)
      BY <2>2, CallIsCall, CallsDiffer DEF IInv
    <3>. QED
      BY <2>2, <3>1 DEF IInv, Listening, SockStep
  <2>. QED
    BY <1>1, <1>2, <2>1, <2>2 DEF Listening
<1>8. OwnPeer'
  BY <1>1, <1>2 DEF IInv, OwnPeer
<1>. QED
  BY <1>1, <1>3, <1>4, <1>5, <1>6, <1>7, <1>8 DEF IInv, SockStep

LEMMA ProgramStepKeeps ==
  ASSUME IInv, NEW k \in Calls, prog[k].pc \in Living, UNCHANGED caller,
         NEW new \in [pc : Stages \ {"none", "run"}, port : Ports, req : {NoCall, k}],
         prog' = [prog EXCEPT ![k] = new],
         SockStep(k, "program"), ConnStep,
         new.pc \in Living => sock'[k].open = sock[k].open,
         new.pc = "work" \/ prog[k].req = k => new.req = k
  PROVE  IInv'
<1>1. prog'[k] = new /\ \A j \in Calls : j # k => prog'[j] = prog[j]
  BY DEF IInv, Types
<1>2. Types'
  BY DEF IInv, Types, SockStep, ConnStep, MaybeCall
<1>3. \A p \in Callers : Call(p)' = Call(p)
  BY DEF Call
<1>4. Counted'
  <2>1. ASSUME NEW p \in Callers, NEW n \in 1 .. MaxCalls[p], n > caller[p].n
        PROVE  prog'[<<p, n>>].pc = "none"
    <3>1. <<p, n>> \in Calls /\ prog[<<p, n>>].pc = "none"
      BY <2>1, CallsOf DEF IInv, Counted
    <3>. QED
      BY <1>1, <3>1 DEF Living
  <2>. QED
    BY <2>1 DEF IInv, Counted
<1>5. DistinctPorts'
  BY DEF IInv, DistinctPorts, SockStep
<1>6. PortHeld'
  <2>1. ASSUME NEW j \in Calls, j # k, "program" \in sock[j].open
        PROVE  "program" \in sock'[j].open /\ sock'[j].port = sock[j].port
    BY <2>1 DEF SockStep
  <2>2. ASSUME new.pc \in Living PROVE "program" \in sock'[k].open
    BY <2>2 DEF IInv, PortHeld
  <2>. QED
    BY <1>1, <2>1, <2>2 DEF IInv, PortHeld
<1>7. OwnRequest'
  BY <1>1 DEF IInv, OwnRequest, ConnStep
<1>8. Listening'
  <2>1. ASSUME NEW p \in Callers, caller[p].pc = "bound" PROVE Call(p) \in Calls
    BY <2>1, CallIsCall DEF IInv
  <2>2. ASSUME NEW p \in Callers, caller[p].pc = "bound"
        PROVE  "caller" \in sock'[Call(p)].open
    BY <2>1, <2>2 DEF IInv, Listening, SockStep
  <2>. QED
    BY <1>3, <2>2 DEF Listening
<1>9. OwnPeer'
  <2>1. ASSUME NEW p \in Callers, caller[p].pc \in {"answered", "ok"}
        PROVE  prog'[Call(p)].req = Call(p)
    <3>1. Call(p) \in Calls /\ prog[Call(p)].req = Call(p)
      BY <2>1, CallIsCall DEF IInv, OwnPeer
    <3>. QED
      BY <1>1, <3>1
  <2>. QED
    BY <1>3, <2>1 DEF IInv, OwnPeer
<1>. QED
  BY <1>2, <1>4, <1>5, <1>6, <1>7, <1>8, <1>9 DEF IInv, SockStep

(* What stays is as it was.                                                *)
LEMMA StepsIdle ==
  ASSUME IInv, NEW k, NEW who
  PROVE  /\ UNCHANGED sock => SockStep(k, who)
         /\ UNCHANGED <<conn, prog>> => ConnStep
BY DEF IInv, Types, SockStep, ConnStep, OwnQueue, OwnRequest

LEMMA ClosedStep ==
  ASSUME IInv, NEW k \in Calls, NEW who \in Who, sock' = Closed(k, who)
  PROVE  SockStep(k, who)
<1>1. OwnQueue'
  BY ClosedLess DEF IInv, OwnQueue
<1>. QED
  <2>1. \A j \in Calls : j # k => sock'[j] = sock[j]
    BY ClosedLess DEF IInv
  <2>2. sock'[k].open = sock[k].open \ {who}
    BY ClosedLess DEF IInv
  <2>. QED
    BY <1>1, <2>1, <2>2, ClosedLess DEF IInv, SockStep

LEMMA ShutStep ==
  ASSUME IInv, NEW k \in Calls, NEW who \in Who, conn' = Shut(k, who),
         \A j \in Calls : prog[j].req = j => prog'[j].req = j
  PROVE  ConnStep
<1>1. ASSUME NEW j \in Calls
      PROVE  conn'[j].req \in {NoCall, j} /\ (conn'[j].pieces > 0 => prog'[j].req = j)
  <2>1. conn'[j].req \in {NoCall, conn[j].req} /\ conn'[j].pieces \in {0, conn[j].pieces}
    BY ShutLess DEF IInv
  <2>2. conn'[j].pieces > 0 => conn[j].pieces > 0
    BY <2>1
  <2>. QED
    BY <2>1, <2>2 DEF IInv, OwnRequest
<1>. QED
  BY <1>1, ShutLess DEF IInv, ConnStep

----------------------------------------------------------------------------
LEMMA AcceptKeeps ==
  ASSUME IInv, NEW p \in Callers, Accept(p)
  PROVE  IInv'
<1>. DEFINE k == Call(p)
<1>1. k \in Calls /\ caller[p].pc = "accept" /\ sock[k].queue \in Seq(Calls) /\ sock[k].queue # <<>>
  BY CallIsCall DEF IInv, Accept, At, Types
<1>2. Head(sock[k].queue) = k
  BY <1>1 DEF IInv, OwnQueue
<1>. DEFINE new == [caller[p] EXCEPT !.pc = "send", !.peer = k]
<1>3. caller' = [caller EXCEPT ![p] = new] /\ UNCHANGED prog
  BY <1>2 DEF Accept, IInv, Types
<1>4. /\ new \in [pc : Places \ {"idle", "bound"}, n : {caller[p].n}, peer : MaybeCall]
      /\ new.pc = "send" /\ new.peer = k
  BY <1>1 DEF IInv, Types, Places, MaybeCall
<1>5. SockStep(k, "caller")
  <2>. DEFINE ns == [sock[k] EXCEPT !.queue = Tail(sock[k].queue)]
  <2>1. sock' = [sock EXCEPT ![k] = ns]
    BY <1>1 DEF Accept, IInv, Types
  <2>2. /\ ns \in [port : Ports, open : SUBSET Who, queue : Seq(Calls)]
        /\ ns.open = sock[k].open /\ ns.port = sock[k].port /\ ns.queue = Tail(sock[k].queue)
    <3>1. Tail(sock[k].queue) \in Seq(Calls)
      BY <1>1
    <3>. DEFINE rest == Tail(sock[k].queue)
    <3>2. ns = [sock[k] EXCEPT !.queue = rest] /\ rest \in Seq(Calls)
      BY <3>1
    <3>. HIDE DEF rest, ns
    <3>3. /\ ns \in [port : Ports, open : SUBSET Who, queue : Seq(Calls)]
          /\ ns.open = sock[k].open /\ ns.port = sock[k].port /\ ns.queue = rest
      BY <1>1, <3>2 DEF IInv, Types
    <3>. QED
      BY <3>3 DEF rest
  <2>3. \A i \in DOMAIN Tail(sock[k].queue) : Tail(sock[k].queue)[i] = k
    BY <1>1 DEF IInv, OwnQueue
  <2>. HIDE DEF ns
  <2>4. sock'[k] = ns /\ \A j \in Calls : j # k => sock'[j] = sock[j]
    BY <1>1, <2>1 DEF IInv, Types
  <2>5. sock' \in [Calls -> [port : Ports, open : SUBSET Who, queue : Seq(Calls)]]
    BY <2>1, <2>2 DEF IInv, Types
  <2>6. OwnQueue'
    BY <2>2, <2>3, <2>4 DEF IInv, OwnQueue
  <2>. QED
    BY <2>2, <2>4, <2>5, <2>6 DEF SockStep
<1>6. ConnStep
  <2>. DEFINE nc == [conn[k] EXCEPT !.open = conn[k].open \cup {"caller"}]
  <2>1. conn' = [conn EXCEPT ![k] = nc]
    BY <1>1, <1>2 DEF Accept, IInv, Types
  <2>2. /\ nc \in [to : MaybeCall, open : SUBSET Who, req : MaybeCall, pieces : 0 .. 2]
        /\ nc.req = conn[k].req /\ nc.pieces = conn[k].pieces
    BY <1>1 DEF IInv, Types, Who
  <2>. HIDE DEF nc
  <2>. QED
    BY <1>1, <1>3, <2>1, <2>2 DEF IInv, Types, OwnRequest, ConnStep
<1>. HIDE DEF new
<1>. QED
  BY <1>1, <1>3, <1>4, <1>5, <1>6, CallerStepKeeps

LEMMA GoesKeeps ==
  ASSUME IInv, NEW p \in Callers, caller[p].pc \notin {"idle", "bound"},
         NEW to \in Places \ {"idle", "bound"}, Goes(p, to), UNCHANGED prog,
         SockStep(Call(p), "caller"), ConnStep,
         to \in {"send", "recv", "answered", "ok"} => caller[p].peer = Call(p),
         to \in {"answered", "ok"} => prog[Call(p)].req = Call(p)
  PROVE  IInv'
<1>. DEFINE new == [caller[p] EXCEPT !.pc = to]
<1>1. caller' = [caller EXCEPT ![p] = new]
  BY DEF Goes, IInv, Types
<1>2. /\ new \in [pc : Places \ {"idle", "bound"}, n : {caller[p].n}, peer : MaybeCall]
      /\ new.pc = to /\ new.peer = caller[p].peer
  BY DEF IInv, Types
<1>3. caller[p].peer \in {NoCall, Call(p)}
  BY DEF IInv, OwnPeer
<1>. HIDE DEF new
<1>. QED
  BY <1>1, <1>2, <1>3, CallerStepKeeps

LEMMA CallerKeeps ==
  ASSUME IInv, NEW p \in Callers,
         AcceptTimedOut(p) \/ SendRequest(p) \/ Recvw(p) \/ Return(p)
  PROVE  IInv'
<1>. DEFINE k == Call(p)
<1>. USE DEF At, Places
<1>1. caller[p].pc \notin {"idle", "bound"} /\ k \in Calls
  BY CallIsCall DEF IInv, AcceptTimedOut, SendRequest, Recvw, Return
<1>2. CASE AcceptTimedOut(p)
  BY <1>1, <1>2, GoesKeeps, StepsIdle DEF AcceptTimedOut
<1>3. CASE SendRequest(p)
  <2>1. caller[p].peer = k /\ UNCHANGED <<sock, prog>>
    BY <1>3 DEF SendRequest, IInv, OwnPeer
  <2>2. CASE Goes(p, "fails") /\ UNCHANGED conn
    BY <1>1, <2>1, <2>2, GoesKeeps, StepsIdle
  <2>3. CASE Goes(p, "recv") /\ conn' = [conn EXCEPT ![k].req = k]
    <3>. DEFINE nc == [conn[k] EXCEPT !.req = k]
    <3>1. conn' = [conn EXCEPT ![k] = nc]
      BY <1>1, <2>3 DEF IInv, Types
    <3>2. /\ nc \in [to : MaybeCall, open : SUBSET Who, req : MaybeCall, pieces : 0 .. 2]
          /\ nc.req = k /\ nc.pieces = conn[k].pieces
      BY <1>1 DEF IInv, Types, MaybeCall
    <3>. HIDE DEF nc
    <3>3. ConnStep
      BY <1>1, <2>1, <3>1, <3>2 DEF IInv, Types, OwnRequest, ConnStep
    <3>. QED
      BY <1>1, <2>1, <2>3, <3>3, GoesKeeps, StepsIdle
  <2>. QED
    BY <1>3, <2>1, <2>2, <2>3 DEF SendRequest
<1>4. CASE Recvw(p)
  <2>1. caller[p].peer = k /\ UNCHANGED <<sock, prog, conn>>
    BY <1>4 DEF Recvw, IInv, OwnPeer
  <2>2. CASE Goes(p, "fails")
    BY <1>1, <2>1, <2>2, GoesKeeps, StepsIdle
  <2>3. CASE Goes(p, "answered") /\ conn[k].pieces > 0
    <3>1. prog[k].req = k
      BY <1>1, <2>3 DEF IInv, OwnRequest
    <3>. QED
      BY <1>1, <2>1, <2>3, <3>1, GoesKeeps, StepsIdle
  <2>. QED
    BY <1>4, <2>1, <2>2, <2>3 DEF Recvw
<1>5. CASE Return(p)
  <2>1. SockStep(k, "caller") /\ UNCHANGED prog
    BY <1>1, <1>5, ClosedStep DEF Return, Who
  <2>2. ConnStep
    <3>1. CASE caller[p].peer = NoCall
      BY <1>5, <2>1, <3>1, StepsIdle DEF Return
    <3>2. CASE caller[p].peer # NoCall
      BY <1>1, <1>5, <2>1, <3>2, ShutStep DEF Return, Who, IInv, OwnPeer
    <3>. QED
      BY <3>1, <3>2
  <2>3. CASE caller[p].pc = "answered"
    BY <1>1, <1>5, <2>1, <2>2, <2>3, GoesKeeps DEF Return, IInv, OwnPeer
  <2>4. CASE caller[p].pc = "fails"
    BY <1>1, <1>5, <2>1, <2>2, <2>4, GoesKeeps DEF Return
  <2>. QED
    BY <1>5, <2>3, <2>4 DEF Return
<1>. QED
  BY <1>2, <1>3, <1>4, <1>5

----------------------------------------------------------------------------
(* The end of a program, by itself or not.                                 *)
LEMMA EndsKeeps ==
  ASSUME IInv, NEW k \in Calls, prog[k].pc \in Living, Ends(k), UNCHANGED caller
  PROVE  IInv'
<1>. DEFINE new == [prog[k] EXCEPT !.pc = "ended", !.port = 0]
<1>1. prog' = [prog EXCEPT ![k] = new]
  BY DEF Ends, IInv, Types
<1>2. /\ new \in [pc : Stages \ {"none", "run"}, port : Ports, req : {NoCall, k}]
      /\ new.pc = "ended" /\ new.req = prog[k].req
  BY DEF IInv, Types, OwnRequest, Stages, Living, Ports
<1>. HIDE DEF new
<1>3. \A j \in Calls : prog[j].req = j => prog'[j].req = j
  BY <1>1, <1>2 DEF IInv, Types
<1>4. SockStep(k, "program") /\ ConnStep
  BY <1>3, ClosedStep, ShutStep DEF Ends, Who
<1>. QED
  BY <1>1, <1>2, <1>4, ProgramStepKeeps DEF Living

(* A program that connects reaches the caller that started it.             *)
LEMMA OpenKeeps ==
  ASSUME IInv, NEW k \in Calls, Open(k)
  PROVE  IInv'
<1>1. prog[k].pc = "run" /\ UNCHANGED caller
  BY DEF Open
<1>2. CASE Ends(k)
  BY <1>1, <1>2, EndsKeeps DEF Living
<1>3. ASSUME NEW j \in Calls, sock[j].open # {}, sock[j].port = prog[k].port,
             prog' = [prog EXCEPT ![k].pc = "recv"],
             sock' = [sock EXCEPT ![j].queue = Append(@, k)],
             conn' = [conn EXCEPT ![k] = [NoConn EXCEPT !.to = j, !.open = {"program"}]]
      PROVE  IInv'
  <2>1. j = k
    BY <1>1, <1>3 DEF IInv, PortHeld, DistinctPorts, Living
  <2>. DEFINE new == [prog[k] EXCEPT !.pc = "recv"]
              ns == [sock[k] EXCEPT !.queue = Append(sock[k].queue, k)]
              nc == [NoConn EXCEPT !.to = j, !.open = {"program"}]
  <2>2. prog' = [prog EXCEPT ![k] = new] /\ sock' = [sock EXCEPT ![k] = ns]
    BY <1>3, <2>1 DEF IInv, Types
  <2>3. /\ new \in [pc : Stages \ {"none", "run"}, port : Ports, req : {NoCall, k}]
        /\ new.pc = "recv" /\ new.req = prog[k].req
    BY DEF IInv, Types, OwnRequest, Stages, Living
  <2>4. /\ ns \in [port : Ports, open : SUBSET Who, queue : Seq(Calls)]
        /\ ns.open = sock[k].open /\ ns.port = sock[k].port
        /\ \A i \in DOMAIN ns.queue : ns.queue[i] = k
    <3>1. sock[k] \in [port : Ports, open : SUBSET Who, queue : Seq(Calls)]
      BY DEF IInv, Types
    <3>2. \A i \in DOMAIN sock[k].queue : sock[k].queue[i] = k
      BY DEF IInv, OwnQueue
    <3>3. \A i \in DOMAIN Append(sock[k].queue, k) : Append(sock[k].queue, k)[i] = k
      BY <3>1, <3>2
    <3>4. Append(sock[k].queue, k) \in Seq(Calls)
      BY <3>1
    <3>. DEFINE longer == Append(sock[k].queue, k)
    <3>5. ns = [sock[k] EXCEPT !.queue = longer] /\ longer \in Seq(Calls)
      BY <3>4
    <3>6. \A i \in DOMAIN longer : longer[i] = k
      BY <3>3
    <3>. HIDE DEF longer, ns
    <3>. QED
      BY <3>1, <3>5, <3>6
  <2>5. /\ nc \in [to : MaybeCall, open : SUBSET Who, req : MaybeCall, pieces : 0 .. 2]
        /\ nc.req = NoCall /\ nc.pieces = 0
    <3>1. /\ NoConn \in [to : MaybeCall, open : SUBSET Who, req : MaybeCall, pieces : 0 .. 2]
          /\ NoConn.req = NoCall /\ NoConn.pieces = 0
      BY DEF NoConn, MaybeCall
    <3>. QED
      BY <3>1 DEF MaybeCall, Who
  <2>. HIDE DEF new, ns, nc
  <2>6. sock'[k] = ns /\ \A i \in Calls : i # k => sock'[i] = sock[i]
    BY <2>2 DEF IInv, Types
  <2>7. SockStep(k, "program")
    <3>1. OwnQueue'
      BY <2>4, <2>6 DEF IInv, OwnQueue
    <3>2. sock' \in [Calls -> [port : Ports, open : SUBSET Who, queue : Seq(Calls)]]
      BY <2>2, <2>4 DEF IInv, Types
    <3>. QED
      BY <2>4, <2>6, <3>1, <3>2 DEF SockStep
  <2>8. ConnStep
    <3>1. conn' = [conn EXCEPT ![k] = nc]
      BY <1>3 DEF nc
    <3>2. \A i \in Calls : prog'[i].req = prog[i].req
      BY <2>2, <2>3 DEF IInv, Types
    <3>. QED
      BY <2>5, <3>1, <3>2 DEF IInv, Types, OwnRequest, ConnStep
  <2>. QED
    BY <1>1, <2>2, <2>3, <2>4, <2>6, <2>7, <2>8, ProgramStepKeeps DEF Living
<1>. QED
  BY <1>2, <1>3 DEF Open

LEMMA ProgramKeeps ==
  ASSUME IInv, NEW k \in Calls, Recv(k) \/ SendAnswer(k) \/ Die(k)
  PROVE  IInv'
<1>1. prog[k].pc \in Living /\ UNCHANGED caller
  BY DEF Recv, SendAnswer, Die, Living
<1>2. CASE Ends(k)
  BY <1>1, <1>2, EndsKeeps
<1>3. CASE /\ conn[k].req # NoCall
           /\ prog' = [prog EXCEPT ![k].pc = "work", ![k].req = conn[k].req]
           /\ UNCHANGED <<sock, conn>>
  <2>. DEFINE new == [prog[k] EXCEPT !.pc = "work", !.req = k]
  <2>1. conn[k].req = k
    BY <1>3 DEF IInv, OwnRequest
  <2>2. prog' = [prog EXCEPT ![k] = new]
    BY <1>3, <2>1 DEF IInv, Types
  <2>3. /\ new \in [pc : Stages \ {"none", "run"}, port : Ports, req : {NoCall, k}]
        /\ new.pc = "work" /\ new.req = k
    BY DEF IInv, Types, Stages, Living
  <2>. HIDE DEF new
  <2>4. ConnStep
    BY <1>3, <2>2, <2>3 DEF IInv, Types, OwnRequest, ConnStep
  <2>. QED
    BY <1>1, <1>3, <2>2, <2>3, <2>4, StepsIdle, ProgramStepKeeps
<1>4. ASSUME prog[k].pc = "work", NEW n \in Pieces, conn' = [conn EXCEPT ![k].pieces = n],
             UNCHANGED <<sock, prog>>
      PROVE  IInv'
  <2>. DEFINE nc == [conn[k] EXCEPT !.pieces = n]
  <2>1. conn' = [conn EXCEPT ![k] = nc]
    BY <1>4 DEF IInv, Types
  <2>2. /\ nc \in [to : MaybeCall, open : SUBSET Who, req : MaybeCall, pieces : 0 .. 2]
        /\ nc.req = conn[k].req
    <3>1. n \in 0 .. 2
      BY DEF Pieces
    <3>. QED
      BY <3>1 DEF IInv, Types
  <2>3. prog[k].req = k
    BY <1>4 DEF IInv, OwnRequest
  <2>. HIDE DEF nc
  <2>4. ConnStep
    BY <1>4, <2>1, <2>2, <2>3 DEF IInv, Types, OwnRequest, ConnStep
  <2>5. prog[k] \in [pc : Stages \ {"none", "run"}, port : Ports, req : {NoCall, k}]
        /\ prog' = [prog EXCEPT ![k] = prog[k]]
    BY <1>4, <2>3 DEF IInv, Types
  <2>. QED
    BY <1>1, <1>4, <2>3, <2>4, <2>5, StepsIdle, ProgramStepKeeps
<1>. QED
  BY <1>2, <1>3, <1>4 DEF Recv, SendAnswer, Die

LEMMA StepInv == IInv /\ [Next]_vars => IInv'
<1>. SUFFICES ASSUME IInv, [Next]_vars PROVE IInv'
  OBVIOUS
<1>1. ASSUME NEW p \in Callers, Bind(p) \/ Caller(p) PROVE IInv'
  BY <1>1, BindKeeps, RunProgKeeps, AcceptKeeps, CallerKeeps DEF Caller
<1>2. ASSUME NEW k \in Calls, Program(k) \/ Die(k) PROVE IInv'
  BY <1>2, OpenKeeps, ProgramKeeps DEF Program
<1>3. CASE UNCHANGED vars
  BY <1>3 DEF vars, IInv, Types, Counted, DistinctPorts, PortHeld, OwnQueue, OwnRequest,
              Listening, OwnPeer, Call
<1>. QED
  BY <1>1, <1>2, <1>3 DEF Next

(* Whatever is late, fails or is not executed, and whoever calls besides,  *)
(* a call that succeeds has its own program's answer to its own request.   *)
THEOREM OwnAnswers == Spec => []AnswerIsOwn
<1>1. Init => IInv
  BY InitInv
<1>2. IInv /\ [Next]_vars => IInv'
  BY StepInv
<1>3. IInv => AnswerIsOwn
  BY DEF IInv, OwnPeer, AnswerIsOwn
<1>. QED
  BY <1>1, <1>2, <1>3, PTL DEF Spec
=============================================================================
