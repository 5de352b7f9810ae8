--------------------------- MODULE PidFile_proofs ---------------------------
(***************************************************************************)
(* For any number of starts, stops and pid files: one jpcomd runs at a     *)
(* time as long as every pid could be written, and one is left running     *)
(* where nobody was stopped or killed.                                     *)
(***************************************************************************)
EXTENDS PidFile, FiniteSetTheorems, TLAPS

(* The part of the type invariant the argument needs.                      *)
Types ==
  /\ made \in 0 .. MaxFiles /\ path \in {NoFile} \cup 1 .. made
  /\ pc \in [Starters -> Steps]
  /\ lock \in [Files -> Starters \cup {None}]

(* Whoever has passed LockFile has the file locked that has the name, and  *)
(* so it has until it removes the name itself.                             *)
Guarded == {"unblocked", "main"}
NameIsLocked ==
  "disk" \notin mishaps =>
    \A s \in Starters : pc[s] \in Guarded => path # NoFile /\ lock[path] = s

IInv == Types /\ NameIsLocked

LEMMA InitInv == Init => IInv
<1>. SUFFICES ASSUME Init PROVE IInv
  OBVIOUS
<1>. USE DEF Init, Files, NoFile, Steps
<1>1. MaxFiles \in Nat \ {0}
  BY PidFileAssumption
<1>2. Types
  <2>1. CASE path = NoFile /\ made = 0
    BY <1>1, <2>1 DEF Types
  <2>2. CASE path = 1 /\ made = 1
    BY <1>1, <2>2 DEF Types
  <2>. QED
    BY <2>1, <2>2
<1>3. NameIsLocked
  BY DEF NameIsLocked, Guarded
<1>. QED
  BY <1>2, <1>3 DEF IInv

(* The file locked by one process is not let go by the end of another.     *)
LEMMA UnlockedOthers ==
  ASSUME Types, NEW s \in Starters, NEW t \in Starters, s # t,
         NEW f \in Files, lock[f] = t
  PROVE  Unlocked(s)[f] = t
BY DEF Types, Unlocked

LEMMA StepTypes == Types /\ [Next]_vars => Types'
<1>. SUFFICES ASSUME Types, [Next]_vars PROVE Types'
  OBVIOUS
<1>. USE PidFileAssumption DEF Types, Files, NoFile, Steps
<1>1. ASSUME NEW s \in Starters PROVE Unlocked(s) \in [Files -> Starters \cup {None}]
  BY DEF Unlocked
<1>2. ASSUME NEW s \in Starters, Out(s) PROVE pc' \in [Starters -> Steps] /\ lock' \in [Files -> Starters \cup {None}]
  BY <1>1, <1>2 DEF Out, Goto
<1>3. ASSUME NEW s \in Starters, ReadPID(s) \/ ToBackground(s) \/ BlockSignal(s) \/ Exit(s) \/ Kill(s) \/ DelePID(s)
      PROVE  Types'
  <2>1. CASE ReadPID(s)
    BY <2>1 DEF ReadPID, Goto
  <2>2. CASE ToBackground(s)
    BY <1>1, <2>2 DEF ToBackground, Goto
  <2>3. CASE BlockSignal(s)
    BY <2>3 DEF BlockSignal, Goto
  <2>4. CASE Exit(s)
    BY <1>2, <2>4 DEF Exit
  <2>5. CASE Kill(s)
    BY <1>2, <2>5 DEF Kill
  <2>6. CASE DelePID(s)
    BY <2>6 DEF DelePID, Goto
  <2>. QED
    BY <1>3, <2>1, <2>2, <2>3, <2>4, <2>5, <2>6
<1>4. ASSUME NEW s \in Starters, TryLock(s) \/ unLockFile(s) \/ LockFile(s) PROVE Types'
  <2>1. path # NoFile => path \in Files
    OBVIOUS
  <2>2. CASE TryLock(s)
    BY <1>2, <2>1, <2>2 DEF TryLock, Goto
  <2>3. CASE unLockFile(s)
    BY <2>3 DEF unLockFile, Goto
  <2>4. CASE LockFile(s)
    BY <1>2, <2>1, <2>4 DEF LockFile, Goto
  <2>. QED
    BY <1>4, <2>2, <2>3, <2>4
<1>5. ASSUME NEW s \in Starters, Creat(s) PROVE Types'
  BY <1>5 DEF Creat, Goto
<1>6. ASSUME NEW s \in Starters, WritePid(s) PROVE Types'
  <2>1. CASE /\ Goto(s, "lock")
             /\ UNCHANGED <<path, lock, mishaps>>
    BY <1>6, <2>1 DEF WritePid, Goto
  <2>2. CASE path' = NoFile /\ Out(s)
    BY <1>2, <1>6, <2>2 DEF WritePid
  <2>. QED
    BY <1>6, <2>1, <2>2 DEF WritePid
<1>7. CASE StopRead
  BY <1>7 DEF StopRead
<1>8. CASE StopKill
  <2>. DEFINE hit == {s \in target \cap Starters : pc[s] \notin {"idle", "out"}}
  <2>1. pc' = [s \in Starters |-> IF s \in hit \ termed' THEN "out" ELSE pc[s]]
    BY <1>8 DEF StopKill
  <2>2. lock' = [f \in Files |-> IF lock[f] \in hit \ termed' THEN None ELSE lock[f]]
    BY <1>8 DEF StopKill
  <2>3. UNCHANGED <<path, made>>
    BY <1>8 DEF StopKill
  <2>. QED
    BY <2>1, <2>2, <2>3
<1>9. CASE UNCHANGED vars
  BY <1>9 DEF vars
<1>. QED
  BY <1>3, <1>4, <1>5, <1>6, <1>7, <1>8, <1>9 DEF Next

LEMMA StepNameIsLocked == IInv /\ [Next]_vars => NameIsLocked'
<1>. SUFFICES ASSUME IInv, [Next]_vars,
                     "disk" \notin mishaps',
                     NEW t \in Starters, pc'[t] \in Guarded
              PROVE  path' # NoFile /\ lock'[path'] = t
  BY DEF NameIsLocked
<1>. DEFINE Held == pc[t] \in Guarded /\ path # NoFile /\ path \in Files /\ lock[path] = t
<1>1. path # NoFile => path \in Files
  BY PidFileAssumption DEF IInv, Types, Files, NoFile
<1>2. ASSUME "disk" \notin mishaps, pc[t] \in Guarded PROVE Held
  BY <1>1, <1>2 DEF IInv, NameIsLocked
<1>3. ASSUME NEW s \in Starters, s # t, Held, UNCHANGED path, Out(s)
      PROVE  lock'[path'] = t
  BY <1>3, UnlockedOthers DEF Out, IInv
<1>. USE DEF IInv, Types, Guarded
<1>4. ASSUME NEW s \in Starters, ReadPID(s) \/ ToBackground(s) \/ Exit(s) \/ Kill(s)
      PROVE  path' # NoFile /\ lock'[path'] = t
  <2>1. s # t
    BY <1>4 DEF ReadPID, ToBackground, Exit, Kill, Out, Goto
  <2>2. pc'[t] = pc[t] /\ "disk" \notin mishaps /\ UNCHANGED path
    BY <1>4, <2>1 DEF ReadPID, ToBackground, Exit, Kill, Out, Goto, stopper
  <2>3. Held
    BY <1>2, <2>2
  <2>4. lock' = lock \/ lock' = Unlocked(s)
    BY <1>4 DEF ReadPID, ToBackground, Exit, Kill, Out
  <2>. QED
    BY <2>1, <2>2, <2>3, <2>4, UnlockedOthers
<1>5. ASSUME NEW s \in Starters, TryLock(s) \/ unLockFile(s)
      PROVE  path' # NoFile /\ lock'[path'] = t
  <2>1. s # t
    BY <1>5 DEF TryLock, unLockFile, Out, Goto, At
  <2>2. pc'[t] = pc[t] /\ "disk" \notin mishaps /\ UNCHANGED path
    BY <1>5, <2>1 DEF TryLock, unLockFile, Out, Goto, stopper
  <2>3. Held
    BY <1>2, <2>2
  <2>4. t # None
    BY PidFileAssumption
  <2>5. CASE TryLock(s)
    <3>1. Out(s)
      BY <2>1, <2>3, <2>4, <2>5 DEF TryLock, Free
    <3>. QED
      BY <1>3, <2>1, <2>2, <2>3, <3>1
  <2>6. CASE unLockFile(s)
    BY <2>1, <2>2, <2>3, <2>6 DEF unLockFile
  <2>. QED
    BY <1>5, <2>5, <2>6
<1>6. ASSUME NEW s \in Starters, Creat(s) PROVE path' # NoFile /\ lock'[path'] = t
  <2>1. s # t /\ pc'[t] = pc[t] /\ "disk" \notin mishaps
    BY <1>6 DEF Creat, Goto, stopper
  <2>2. Held
    BY <1>2, <2>1
  <2>. QED
    BY <1>6, <2>2 DEF Creat
<1>7. ASSUME NEW s \in Starters, WritePid(s) PROVE path' # NoFile /\ lock'[path'] = t
  <2>1. UNCHANGED <<path, lock, mishaps>> /\ Goto(s, "lock")
    BY <1>7 DEF WritePid
  <2>2. s # t /\ pc'[t] = pc[t] /\ "disk" \notin mishaps
    BY <2>1 DEF Goto
  <2>. QED
    BY <1>2, <2>1, <2>2
<1>8. ASSUME NEW s \in Starters, LockFile(s) PROVE path' # NoFile /\ lock'[path'] = t
  <2>0. UNCHANGED path /\ "disk" \notin mishaps
    BY <1>8 DEF LockFile, stopper
  <2>1. CASE s = t
    <3>1. path # NoFile /\ lock' = [lock EXCEPT ![path] = s]
      BY <1>8, <2>1 DEF LockFile, Out, Goto
    <3>. QED
      BY <1>1, <2>0, <2>1, <3>1
  <2>2. CASE s # t
    <3>1. pc'[t] = pc[t]
      BY <1>8, <2>2 DEF LockFile, Out, Goto
    <3>2. Held
      BY <1>2, <2>0, <3>1
    <3>3. Out(s)
      BY <1>8, <2>2, <3>2, PidFileAssumption DEF LockFile, Free
    <3>. QED
      BY <1>3, <2>0, <2>2, <3>2, <3>3
  <2>. QED
    BY <2>1, <2>2
<1>9. ASSUME NEW s \in Starters, BlockSignal(s) PROVE path' # NoFile /\ lock'[path'] = t
  <2>1. pc[t] \in Guarded /\ "disk" \notin mishaps /\ UNCHANGED <<path, lock>>
    BY <1>9 DEF BlockSignal, At, Goto, stopper
  <2>. QED
    BY <1>2, <2>1
<1>10. ASSUME NEW s \in Starters, DelePID(s) PROVE path' # NoFile /\ lock'[path'] = t
  <2>1. "disk" \notin mishaps /\ pc[s] = "main" /\ s # t /\ pc'[t] = pc[t]
    BY <1>10 DEF DelePID, At, Goto, stopper
  <2>2. lock[path] = s /\ lock[path] = t
    BY <1>2, <2>1 DEF NameIsLocked
  <2>. QED
    BY <2>1, <2>2
<1>11. CASE StopRead
  BY <1>2, <1>11 DEF StopRead
<1>12. CASE StopKill
  <2>. DEFINE hit == {s \in target \cap Starters : pc[s] \notin {"idle", "out"}}
  <2>1. pc' = [s \in Starters |-> IF s \in hit \ termed' THEN "out" ELSE pc[s]]
    BY <1>12 DEF StopKill
  <2>2. lock' = [f \in Files |-> IF lock[f] \in hit \ termed' THEN None ELSE lock[f]]
    BY <1>12 DEF StopKill
  <2>3. "disk" \notin mishaps /\ UNCHANGED path
    BY <1>12 DEF StopKill
  <2>4. t \notin hit \ termed' /\ pc[t] = pc'[t]
    BY <2>1
  <2>5. Held
    BY <1>2, <2>3, <2>4
  <2>. QED
    BY <2>2, <2>3, <2>4, <2>5
<1>13. CASE UNCHANGED vars
  BY <1>2, <1>13 DEF vars
<1>. QED
  BY <1>4, <1>5, <1>6, <1>7, <1>8, <1>9, <1>10, <1>11, <1>12, <1>13 DEF Next

(* The processes in their main loop all have one lock on one file.         *)
LEMMA InvRunsOnce == IInv => RunsOnce
<1>. SUFFICES ASSUME IInv, "disk" \notin mishaps
              PROVE  Cardinality({s \in Starters : At(s, "main")}) <= 1
  BY DEF RunsOnce
<1>. DEFINE running == {s \in Starters : At(s, "main")}
            holder == lock[path]
<1>1. running \subseteq {holder}
  BY DEF IInv, NameIsLocked, Guarded, At
<1>2. IsFiniteSet({holder}) /\ Cardinality({holder}) = 1
  BY FS_Singleton
<1>3. Cardinality(running) <= Cardinality({holder})
  BY <1>1, <1>2, FS_Subset
<1>. QED
  BY <1>2, <1>3

(* However starts, stops and kills of any number of processes are          *)
(* interleaved, one jpcomd runs at a time while every pid could be written.*)
THEOREM OneRunsAtATime == Spec => []RunsOnce
<1>1. Init => IInv
  BY InitInv
<1>2. IInv /\ [Next]_vars => IInv'
  BY StepTypes, StepNameIsLocked DEF IInv
<1>3. IInv => RunsOnce
  BY InvRunsOnce
<1>. QED
  BY <1>1, <1>2, <1>3, PTL DEF Spec

----------------------------------------------------------------------------
(***************************************************************************)
(* Where nobody was killed or stopped, who gives way does so to a process  *)
(* that has the file with the name locked: it runs, or will go on to a     *)
(* lock of its own, which it misses only for another's.                    *)
(***************************************************************************)
Holding == {"untry"} \cup Guarded
Under == {"untry", "init", "creat", "write", "lock"} \cup Guarded

Undisturbed ==
  /\ stops \in Nat
  /\ mishaps = {} /\ stops = 0 =>
       /\ termed = {} /\ target = {}
       /\ \A s \in Starters : pc[s] # "leave"
       /\ \A s \in Starters : pc[s] \in {"try", "untry", "write", "lock"} \cup Guarded => path # NoFile
       /\ \A f \in Files : lock[f] # None => f = path /\ pc[lock[f]] \in Holding
       /\ (\E s \in Starters : At(s, "out")) => \E s \in Starters : pc[s] \in Under

LEMMA InitUndisturbed == Init => Undisturbed
BY DEF Init, Undisturbed, At, Guarded

(* One step of a process that keeps the names and the locks of the others. *)
LEMMA OneStep ==
  ASSUME Types, Undisturbed, mishaps = {}, stops = 0,
         UNCHANGED <<termed, target, stops>>, NEW s \in Starters, NEW to,
         pc' = [pc EXCEPT ![s] = to], to # "leave",
         path # NoFile => path' = path,
         to \in {"try", "untry", "write", "lock"} \cup Guarded => path' # NoFile,
         \A f \in Files : lock'[f] # None =>
           \/ lock'[f] = s /\ f = path' /\ to \in Holding
           \/ lock'[f] = lock[f] /\ lock[f] # s,
         to \in Under \/ (to # "out" /\ pc[s] \notin Under)
           \/ \E t \in Starters \ {s} : pc[t] \in Under
  PROVE  Undisturbed'
<1>1. pc \in [Starters -> Steps] /\ lock \in [Files -> Starters \cup {None}]
  BY DEF Types
<1>2. /\ pc'[s] = to
      /\ \A t \in Starters \ {s} : pc'[t] = pc[t]
  BY <1>1
<1>3. termed' = {} /\ target' = {} /\ stops' \in Nat
  BY DEF Undisturbed
<1>4. \A t \in Starters : pc'[t] # "leave"
  BY <1>2 DEF Undisturbed
<1>5. \A t \in Starters : pc'[t] \in {"try", "untry", "write", "lock"} \cup Guarded => path' # NoFile
  BY <1>2 DEF Undisturbed
<1>6. ASSUME NEW f \in Files, lock'[f] # None
      PROVE  f = path' /\ pc'[lock'[f]] \in Holding
  <2>1. CASE lock'[f] = s /\ f = path' /\ to \in Holding
    BY <1>2, <2>1
  <2>2. CASE lock'[f] = lock[f] /\ lock[f] # s
    <3>1. lock[f] # None /\ lock[f] \in Starters \ {s}
      BY <1>1, <1>6, <2>2
    <3>2. f = path /\ pc[lock[f]] \in Holding
      BY <3>1 DEF Undisturbed
    <3>3. path # NoFile
      BY <3>1, <3>2 DEF Undisturbed, Holding
    <3>. QED
      BY <1>2, <2>2, <3>1, <3>2, <3>3
  <2>. QED
    BY <1>6, <2>1, <2>2
<1>7. (\E t \in Starters : pc'[t] = "out") => \E t \in Starters : pc'[t] \in Under
  <2>1. CASE to \in Under
    BY <1>2, <2>1
  <2>2. CASE to # "out" /\ pc[s] \notin Under
    <3>. SUFFICES ASSUME NEW t \in Starters, pc'[t] = "out"
                  PROVE  \E u \in Starters : pc'[u] \in Under
      OBVIOUS
    <3>1. pc[t] = "out"
      BY <1>2, <2>2
    <3>2. PICK u \in Starters : pc[u] \in Under
      BY <3>1 DEF Undisturbed, At
    <3>. QED
      BY <1>2, <2>2, <3>2
  <2>3. CASE \E t \in Starters \ {s} : pc[t] \in Under
    BY <1>2, <2>3
  <2>. QED
    BY <2>1, <2>2, <2>3
<1>. QED
  BY <1>3, <1>4, <1>5, <1>6, <1>7 DEF Undisturbed, At

LEMMA StepUndisturbed == Types /\ Undisturbed /\ [Next]_vars => Undisturbed'
<1>. SUFFICES ASSUME Types, Undisturbed, [Next]_vars PROVE Undisturbed'
  OBVIOUS
<1>0. stops \in Nat /\ stops' \in Nat /\ (stops' = 0 => stops = 0)
      /\ (mishaps' = {} => mishaps = {})
  BY DEF Undisturbed, Next, vars, ReadPID, TryLock, unLockFile, ToBackground, Creat, WritePid,
       LockFile, BlockSignal, DelePID, Exit, Kill, StopRead, StopKill, stopper
<1>1. SUFFICES ASSUME mishaps' = {}, stops' = 0 PROVE Undisturbed'
  BY <1>0 DEF Undisturbed
<1>2. mishaps = {} /\ stops = 0
  BY <1>0, <1>1
<1>3. /\ pc \in [Starters -> Steps] /\ lock \in [Files -> Starters \cup {None}]
      /\ path # NoFile => path \in Files
      /\ None \notin Starters
  BY PidFileAssumption DEF Types, Files, NoFile
<1>4. /\ termed = {} /\ target = {}
      /\ \A s \in Starters : pc[s] # "leave"
      /\ \A s \in Starters : pc[s] \in {"try", "untry", "write", "lock"} \cup Guarded => path # NoFile
      /\ \A f \in Files : lock[f] # None => f = path /\ pc[lock[f]] \in Holding
  BY <1>2 DEF Undisturbed
<1>5. CASE UNCHANGED vars
  BY <1>5 DEF vars, Undisturbed, At
<1>6. ~StopRead /\ ~StopKill
  BY <1>1, <1>2, <1>4 DEF StopRead, StopKill
<1>7. ASSUME NEW s \in Starters PROVE ~DelePID(s) /\ ~Exit(s) /\ ~Kill(s)
  BY <1>1, <1>4 DEF DelePID, Exit, Kill, At
<1>8. \A s \in Starters : \A f \in Files : lock[f] = s => f = path /\ pc[s] \in Holding
  BY <1>3, <1>4
<1>9. ASSUME NEW s \in Starters, ReadPID(s) PROVE Undisturbed'
  <2>. DEFINE to == IF path = NoFile THEN "init" ELSE "try"
  <2>1. /\ pc' = [pc EXCEPT ![s] = to] /\ UNCHANGED <<path, lock, termed, target, stops>>
        /\ pc[s] = "idle"
    BY <1>9 DEF ReadPID, Goto, At, stopper
  <2>2. \A f \in Files : lock[f] # s
    BY <1>8, <2>1 DEF Holding, Guarded
  <2>3. to # "leave" /\ to # "out" /\ pc[s] \notin Under
        /\ (to \in {"try", "untry", "write", "lock"} \cup Guarded => path' # NoFile)
    BY <2>1 DEF Under, Guarded
  <2>. HIDE DEF to
  <2>. QED
    BY <1>2, <2>1, <2>2, <2>3, OneStep
(* Who finds the file locked finds somebody who has it locked.             *)
<1>10. ASSUME NEW s \in Starters, path # NoFile, ~Free(s, path)
       PROVE  \E t \in Starters \ {s} : pc[t] \in Under
  BY <1>3, <1>4, <1>10 DEF Free, Holding, Under
<1>11. ASSUME NEW s \in Starters, Out(s), path # NoFile, ~Free(s, path),
              UNCHANGED <<path, termed, target, stops>>
       PROVE  Undisturbed'
  <2>1. pc' = [pc EXCEPT ![s] = "out"] /\ \A f \in Files : lock'[f] = IF lock[f] = s THEN None ELSE lock[f]
    BY <1>11 DEF Out, Goto, Unlocked
  <2>2. \A f \in Files : lock'[f] # None => lock'[f] = lock[f] /\ lock[f] # s
    BY <2>1
  <2>3. \E t \in Starters \ {s} : pc[t] \in Under
    BY <1>10, <1>11
  <2>4. "out" \notin {"try", "untry", "write", "lock"} \cup Guarded
    BY DEF Guarded
  <2>. QED
    BY <1>2, <1>11, <2>1, <2>2, <2>3, <2>4, OneStep
<1>12. ASSUME NEW s \in Starters, TryLock(s) \/ LockFile(s) PROVE Undisturbed'
  <2>1. path # NoFile /\ UNCHANGED <<path, termed, target, stops>>
    BY <1>4, <1>12 DEF TryLock, LockFile, At, stopper
  <2>2. CASE Free(s, path)
    <3>1. PICK to \in {"untry", "unblocked"} :
            lock' = [lock EXCEPT ![path] = s] /\ pc' = [pc EXCEPT ![s] = to]
      BY <1>12, <2>1, <2>2 DEF TryLock, LockFile, Goto
    <3>2. \A f \in Files : lock'[f] # None =>
            \/ lock'[f] = s /\ f = path'
            \/ lock'[f] = lock[f] /\ lock[f] # s
      BY <1>3, <1>8, <2>1, <3>1
    <3>3. to \in Holding /\ to \in Under /\ to # "leave"
      BY <3>1 DEF Holding, Under, Guarded
    <3>. QED
      BY <1>2, <2>1, <3>1, <3>2, <3>3, OneStep
  <2>3. CASE ~Free(s, path)
    BY <1>11, <1>12, <2>1, <2>3 DEF TryLock, LockFile
  <2>. QED
    BY <2>2, <2>3
<1>13. ASSUME NEW s \in Starters, unLockFile(s) \/ ToBackground(s) PROVE Undisturbed'
  <2>1. PICK to \in {"init", "creat"} : pc' = [pc EXCEPT ![s] = to]
    BY <1>13 DEF unLockFile, ToBackground, Goto
  <2>2. UNCHANGED <<path, termed, target, stops>>
    BY <1>13 DEF unLockFile, ToBackground, stopper
  <2>3. \A f \in Files : lock'[f] # None => lock'[f] = lock[f] /\ lock[f] # s
    BY <1>8, <1>13 DEF unLockFile, ToBackground, Unlocked
  <2>4. to \in Under /\ to # "leave" /\ to \notin {"try", "untry", "write", "lock"} \cup Guarded
    BY <2>1 DEF Under, Guarded
  <2>. QED
    BY <1>2, <2>1, <2>2, <2>3, <2>4, OneStep
<1>14. ASSUME NEW s \in Starters, Creat(s) \/ WritePid(s) \/ BlockSignal(s) PROVE Undisturbed'
  <2>1. PICK to \in {"write", "lock", "main"} :
          /\ pc' = [pc EXCEPT ![s] = to]
          /\ to \in Holding <=> BlockSignal(s)
    <3>1. CASE Creat(s)
      BY <3>1 DEF Creat, Goto, Holding, Guarded, BlockSignal, At
    <3>2. CASE WritePid(s)
      BY <1>1, <3>2 DEF WritePid, Goto, Holding, Guarded, BlockSignal, At
    <3>3. CASE BlockSignal(s)
      BY <3>3 DEF Goto, Holding, Guarded, BlockSignal, At
    <3>. QED
      BY <1>14, <3>1, <3>2, <3>3
  <2>2. UNCHANGED <<lock, termed, target, stops>>
    BY <1>1, <1>14 DEF Creat, WritePid, BlockSignal, stopper
  <2>3. path' # NoFile /\ (path # NoFile => path' = path)
    <3>1. CASE Creat(s)
      BY <3>1, PidFileAssumption DEF Creat, NoFile, Types
    <3>2. CASE WritePid(s) \/ BlockSignal(s)
      BY <1>1, <1>4, <3>2 DEF WritePid, BlockSignal, At, Guarded
    <3>. QED
      BY <1>14, <3>1, <3>2
  <2>4. ASSUME NEW f \in Files, lock'[f] # None
        PROVE  \/ lock'[f] = s /\ f = path' /\ to \in Holding
               \/ lock'[f] = lock[f] /\ lock[f] # s
    <3>1. CASE lock[f] # s
      BY <2>2, <3>1
    <3>2. CASE lock[f] = s
      <4>1. f = path /\ pc[s] \in Holding
        BY <1>8, <3>2
      <4>2. BlockSignal(s)
        BY <1>14, <4>1 DEF Creat, WritePid, At, Holding, Guarded
      <4>. QED
        BY <2>1, <2>2, <3>2, <4>1, <4>2 DEF BlockSignal
    <3>. QED
      BY <3>1, <3>2
  <2>5. to \in Under /\ to # "leave"
    BY <2>1 DEF Under, Guarded
  <2>. QED
    BY <1>2, <2>1, <2>2, <2>3, <2>4, <2>5, OneStep
<1>. QED
  BY <1>5, <1>6, <1>7, <1>9, <1>12, <1>13, <1>14 DEF Next

(* main: of processes that are started together, in any number and over    *)
(* any pid file left over, one runs.                                       *)
THEOREM OneIsLeft == Spec => []SomeoneRuns
<1>1. Init => Types /\ Undisturbed
  BY InitInv, InitUndisturbed DEF IInv
<1>2. Types /\ Undisturbed /\ [Next]_vars => Types' /\ Undisturbed'
  BY StepTypes, StepUndisturbed
<1>3. Types /\ Undisturbed => SomeoneRuns
  BY DEF Undisturbed, SomeoneRuns, At, Under, Guarded
<1>. QED
  BY <1>1, <1>2, <1>3, PTL DEF Spec
=============================================================================
