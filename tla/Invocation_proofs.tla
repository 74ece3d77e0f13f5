-------------------------- MODULE Invocation_proofs --------------------------
(***************************************************************************)
(* Theorems about the change lock and the exit code, for any number of     *)
(* processes and of directories that take the path of the change root.     *)
(***************************************************************************)
EXTENDS Invocation, TLAPS

\* A process holds at most the flock of the directory it has open, and only
\* between the lock and its release.
HoldersAreAtWork ==
  \A i \in Inodes, p \in Processes :
    holder[i] = p => pc[p] \in {"running", "closing"} /\ fd[p] = i

\* What a process has checked and opened by the time it gets to a place.
WayToTheLock ==
  \A p \in Processes :
    /\ pc[p] \in InProgress => checked[p] \in Inodes
    /\ pc[p] = "lock" => fd[p] \in Inodes
    /\ pc[p] \in {"running", "closing"} => fd[p] = checked[p] /\ holder[checked[p]] = p

\* As long as no root was replaced, everybody has checked the same directory.
OneRoot ==
  ~ replaced => \A p \in Processes : pc[p] \in InProgress => checked[p] = root

Inv == TypeOK /\ HoldersAreAtWork /\ WayToTheLock /\ OneRoot

\* The steps of one process, whoever causes them.
StepOf(p) ==
  \/ Start(p) \/ ProcessStep(p) \/ Accompany(p)
  \/ SendSignal(p) \/ Crash(p) \/ Again(p)

\* The invariant holds at the start.
LEMMA InitInv == Init => Inv
<1> SUFFICES ASSUME Init PROVE Inv
  OBVIOUS
<1>1. TypeOK
  BY DEF Init, TypeOK, Codes
<1>2. HoldersAreAtWork
  BY NoneAssumption DEF Init, HoldersAreAtWork
<1>3. WayToTheLock /\ OneRoot
  BY DEF Init, WayToTheLock, OneRoot, InProgress
<1> QED BY <1>1, <1>2, <1>3 DEF Inv

\* The exit code that a failed release leaves is one.
LEMMA SpoiledCode ==
  ASSUME TypeOK, NEW p \in Processes
  PROVE  CodeAfterFailedRelease(p) \in Codes
BY DEF TypeOK, CodeAfterFailedRelease, Codes

\* Every step of a process keeps the types.
LEMMA StepType ==
  ASSUME TypeOK, NEW p \in Processes, StepOf(p)
  PROVE  TypeOK'
<1> USE DEF TypeOK, Goto, InProgress, ending
<1>1. CASE Start(p)
  BY <1>1 DEF Start
<1>2. CASE EarlyFailure(p)
  BY <1>2 DEF EarlyFailure, Return, Codes
<1>3. CASE CheckLocalEnvironment(p)
  BY <1>3 DEF CheckLocalEnvironment
<1>4. CASE OpenChangeRoot(p)
  BY <1>4 DEF OpenChangeRoot, Return, Codes
<1>5. CASE LockChangeRoot(p)
  BY <1>5 DEF LockChangeRoot, Return, Codes
<1>6. CASE Accompany(p)
  BY <1>6 DEF Accompany
<1>7. CASE CloseLock(p)
  <2>1. PICK c \in Codes : Return(p, c)
    BY <1>7, SpoiledCode DEF CloseLock
  <2> QED BY <1>7, <2>1 DEF CloseLock, Return
<1>8. CASE ExitWithResult(p) \/ ExitWithSignal(p)
  BY <1>8 DEF ExitWithResult, ExitWithSignal, Exit
<1>9. CASE ReceiveSignal(p)
  BY <1>9 DEF ReceiveSignal, SignalCancels
<1>10. CASE SendSignal(p)
  BY <1>10 DEF SendSignal
<1>11. CASE Crash(p)
  BY <1>11 DEF Crash
<1>12. CASE Again(p)
  BY <1>12 DEF Again, Codes
<1> QED
  BY <1>1, <1>2, <1>3, <1>4, <1>5, <1>6, <1>7, <1>8, <1>9, <1>10, <1>11, <1>12
  DEF StepOf, ProcessStep

\* So does the world.
LEMMA NextType == TypeOK /\ [Next]_vars => TypeOK'
<1> SUFFICES ASSUME TypeOK, [Next]_vars PROVE TypeOK'
  OBVIOUS
<1>1. CASE \E p \in Processes : StepOf(p)
  BY <1>1, StepType
<1>2. CASE ReplaceRoot
  BY <1>2 DEF TypeOK, ReplaceRoot, ending
<1>3. CASE UNCHANGED vars
  BY <1>3 DEF TypeOK, vars, ending
<1> QED BY <1>1, <1>2, <1>3 DEF Next, StepOf

\* Every variable keeps its type, whatever the processes, the signals and the
\* file system do.
THEOREM InvocationTypeCorrect == Spec => []TypeOK
BY InitInv, NextType, PTL DEF Spec, Inv

-----------------------------------------------------------------------------
(* The lock.                                                               *)

\* A process that returns a code lets go of its directory and of the flock.
LEMMA ReturnFrees ==
  ASSUME TypeOK, HoldersAreAtWork, NEW p \in Processes, NEW c, Return(p, c)
  PROVE  /\ pc' = [pc EXCEPT ![p] = "returned"]
         /\ \A i \in Inodes : holder'[i] # p
         /\ \A i \in Inodes, q \in Processes \ {p} : holder'[i] = q <=> holder[i] = q
         /\ \A q \in Processes \ {p} : fd'[q] = fd[q]
BY NoneAssumption DEF Return, Goto, TypeOK

\* A crash does the same.
LEMMA CrashFrees ==
  ASSUME TypeOK, NEW p \in Processes, Crash(p)
  PROVE  /\ pc' = [pc EXCEPT ![p] = "exited"]
         /\ \A i \in Inodes : holder'[i] # p
         /\ \A i \in Inodes, q \in Processes \ {p} : holder'[i] = q <=> holder[i] = q
         /\ \A q \in Processes \ {p} : fd'[q] = fd[q]
BY NoneAssumption DEF Crash, Goto, TypeOK

\* A process that has let go, and has left the others alone, keeps the facts.
LEMMA FreedFacts ==
  ASSUME Inv, NEW p \in Processes, NEW location \in {"returned", "exited"},
         pc' = [pc EXCEPT ![p] = location],
         \A i \in Inodes : holder'[i] # p,
         \A i \in Inodes, q \in Processes \ {p} : holder'[i] = q <=> holder[i] = q,
         \A q \in Processes \ {p} : fd'[q] = fd[q],
         UNCHANGED <<root, checked, replaced>>
  PROVE  HoldersAreAtWork' /\ WayToTheLock' /\ OneRoot'
<1> USE DEF Inv
<1>1. pc'[p] = location /\ \A q \in Processes \ {p} : pc'[q] = pc[q]
  BY DEF TypeOK
<1>2. HoldersAreAtWork'
  BY <1>1 DEF HoldersAreAtWork
<1>3. WayToTheLock'
  BY <1>1 DEF WayToTheLock, InProgress
<1>4. OneRoot'
  BY <1>1 DEF OneRoot, InProgress
<1> QED BY <1>2, <1>3, <1>4

\* Every step of a process keeps the facts about directories and locks.
LEMMA StepFacts ==
  ASSUME Inv, NEW p \in Processes, StepOf(p)
  PROVE  HoldersAreAtWork' /\ WayToTheLock' /\ OneRoot'
<1> USE DEF Inv
<1>1. ASSUME NEW c, Return(p, c), UNCHANGED <<root, checked, replaced>>
      PROVE  HoldersAreAtWork' /\ WayToTheLock' /\ OneRoot'
  BY <1>1, ReturnFrees, FreedFacts
<1>2. CASE EarlyFailure(p) \/ CloseLock(p)
  BY <1>1, <1>2 DEF EarlyFailure, CloseLock
<1>3. CASE Crash(p)
  BY <1>3, CrashFrees, FreedFacts DEF Crash
<1>4. CASE CheckLocalEnvironment(p)
  <2> USE <1>4 DEF CheckLocalEnvironment, Goto, TypeOK, InProgress
  <2>1. HoldersAreAtWork'
    BY DEF HoldersAreAtWork
  <2>2. WayToTheLock'
    BY DEF WayToTheLock
  <2>3. OneRoot'
    BY DEF OneRoot
  <2> QED BY <2>1, <2>2, <2>3
<1>5. CASE OpenChangeRoot(p)
  <2>1. CASE root = None
    BY <1>1, <1>5, <2>1 DEF OpenChangeRoot
  <2>2. CASE root # None
    <3> USE <1>5, <2>2 DEF OpenChangeRoot, Goto, TypeOK, InProgress
    <3>1. HoldersAreAtWork'
      BY DEF HoldersAreAtWork
    <3>2. WayToTheLock'
      BY DEF WayToTheLock
    <3>3. OneRoot'
      BY DEF OneRoot
    <3> QED BY <3>1, <3>2, <3>3
  <2> QED BY <2>1, <2>2
<1>6. CASE LockChangeRoot(p)
  <2>1. CASE ~ SameFile(p) \/ ChangeBusy(p)
    BY <1>1, <1>6, <2>1 DEF LockChangeRoot
  <2>2. CASE SameFile(p) /\ ~ ChangeBusy(p)
    <3> USE <1>6, <2>2 DEF LockChangeRoot, SameFile, ChangeBusy, Goto, TypeOK, InProgress
    <3>1. fd[p] = checked[p] /\ fd[p] \in Inodes /\ holder[fd[p]] = None
      BY DEF WayToTheLock
    <3>2. /\ holder' = [holder EXCEPT ![fd[p]] = p]
          /\ pc' = [pc EXCEPT ![p] = "running"]
          /\ UNCHANGED <<root, checked, fd, replaced>>
      OBVIOUS
    <3>3. HoldersAreAtWork'
      BY <3>1, <3>2 DEF HoldersAreAtWork
    <3>4. WayToTheLock'
      BY <3>1, <3>2, NoneAssumption DEF WayToTheLock
    <3>5. OneRoot'
      BY <3>2 DEF OneRoot
    <3> QED BY <3>3, <3>4, <3>5
  <2> QED BY <1>6, <2>1, <2>2
<1>7. CASE Accompany(p)
  <2> USE <1>7 DEF Accompany, Goto, TypeOK, InProgress
  <2>1. HoldersAreAtWork'
    BY DEF HoldersAreAtWork
  <2>2. WayToTheLock'
    BY DEF WayToTheLock
  <2>3. OneRoot'
    BY DEF OneRoot
  <2> QED BY <2>1, <2>2, <2>3
<1>8. CASE Start(p) \/ ExitWithResult(p) \/ ExitWithSignal(p)
  <2>1. PICK location \in {"environment", "exited"} : pc' = [pc EXCEPT ![p] = location]
    BY <1>8 DEF Start, ExitWithResult, ExitWithSignal, Exit, Goto
  <2>2. /\ pc[p] \in {"idle", "returned"}
        /\ UNCHANGED <<root, holder, checked, fd, replaced>>
    BY <1>8 DEF Start, ExitWithResult, ExitWithSignal, Exit
  <2>3. HoldersAreAtWork'
    BY <2>1, <2>2 DEF HoldersAreAtWork, TypeOK
  <2>4. WayToTheLock'
    BY <2>1, <2>2 DEF WayToTheLock, TypeOK, InProgress
  <2>5. OneRoot'
    BY <2>1, <2>2 DEF OneRoot, TypeOK, InProgress
  <2> QED BY <2>3, <2>4, <2>5
<1>9. CASE ReceiveSignal(p) \/ SendSignal(p)
  <2>1. UNCHANGED <<root, holder, pc, checked, fd, replaced>>
    BY <1>9 DEF ReceiveSignal, SendSignal
  <2> QED BY <2>1 DEF HoldersAreAtWork, WayToTheLock, OneRoot
<1>10. CASE Again(p)
  <2> USE <1>10 DEF Again, Goto, TypeOK, InProgress
  <2>1. HoldersAreAtWork'
    BY DEF HoldersAreAtWork
  <2>2. WayToTheLock'
    BY DEF WayToTheLock
  <2>3. OneRoot'
    BY DEF OneRoot
  <2> QED BY <2>1, <2>2, <2>3
<1> QED
  BY <1>2, <1>3, <1>4, <1>5, <1>6, <1>7, <1>8, <1>9, <1>10 DEF StepOf, ProcessStep

\* A replaced root is remembered when anybody has come past its check.
LEMMA RootFacts ==
  ASSUME Inv, ReplaceRoot
  PROVE  HoldersAreAtWork' /\ WayToTheLock' /\ OneRoot'
<1> USE DEF Inv, ReplaceRoot
<1>1. HoldersAreAtWork' /\ WayToTheLock'
  BY DEF HoldersAreAtWork, WayToTheLock
<1>2. OneRoot'
  <2>1. CASE replaced \/ \E q \in Processes : pc[q] \in InProgress
    BY <2>1 DEF OneRoot, TypeOK
  <2>2. CASE \A q \in Processes : pc[q] \notin InProgress
    BY <2>2 DEF OneRoot
  <2> QED BY <2>1, <2>2
<1> QED BY <1>1, <1>2

\* The invariant is inductive.
LEMMA NextInv == Inv /\ [Next]_vars => Inv'
<1> SUFFICES ASSUME Inv, [Next]_vars PROVE Inv'
  OBVIOUS
<1>1. TypeOK'
  BY NextType DEF Inv
<1>2. CASE \E p \in Processes : StepOf(p)
  BY <1>1, <1>2, StepFacts DEF Inv
<1>3. CASE ReplaceRoot
  BY <1>1, <1>3, RootFacts DEF Inv
<1>4. CASE UNCHANGED vars
  BY <1>1, <1>4 DEF Inv, HoldersAreAtWork, WayToTheLock, OneRoot, vars
<1> QED BY <1>2, <1>3, <1>4 DEF Next, StepOf

\* The facts about directories and locks hold always.
LEMMA Invariant == Spec => []Inv
BY InitInv, NextInv, PTL DEF Spec

\* Whoever accompanies holds the lock of the directory it has checked, however
\* the path was replaced since: AcquireChangeLock and os.SameFile.
THEOREM LockIsOfCheckedDirectory == Spec => []LockIsOfCheckedRoot
<1>1. Inv => LockIsOfCheckedRoot
  BY NoneAssumption DEF Inv, WayToTheLock, LockIsOfCheckedRoot, InProgress
<1> QED BY <1>1, Invariant, PTL

\* Two invocations accompany one change only over a replaced directory: flock.
THEOREM LockSerialises == Spec => []SerialisedUnlessReplaced
<1>1. Inv => SerialisedUnlessReplaced
  <2> SUFFICES ASSUME Inv, ~ replaced, NEW p \in Processes, NEW q \in Processes,
                      pc[p] = "running", pc[q] = "running"
               PROVE  p = q
    BY DEF SerialisedUnlessReplaced
  <2>1. checked[p] = root /\ checked[q] = root
    BY DEF Inv, OneRoot, InProgress
  <2>2. holder[checked[p]] = p /\ holder[checked[q]] = q
    BY DEF Inv, WayToTheLock
  <2> QED BY <2>1, <2>2
<1> QED BY <1>1, Invariant, PTL

-----------------------------------------------------------------------------
(* The exit code.                                                          *)

\* The code c tells how the accompaniment of p and its release have ended.
Tells(p, c) ==
  /\ c = "success" <=> ended[p] = "success" /\ ~ failed[p]
  /\ ended[p] \in {"obstacle", "usage"} => c = ended[p]

\* The code is right at every place it passes: the result of the accompaniment,
\* the named result of the command, the exit code of the process.
CodeIsHandedOn(p) ==
  /\ pc[p] \in {"idle", "environment", "open", "lock", "running"} =>
       ended[p] = "none" /\ ~ failed[p]
  /\ pc[p] = "closing" => ended[p] = result[p] /\ ~ failed[p]
  /\ pc[p] = "returned" => Tells(p, result[p])
  /\ pc[p] = "exited" /\ code[p] # "signal" => ~ cancelled[p] /\ Tells(p, code[p])

CodesAreHandedOn == \A p \in Processes : CodeIsHandedOn(p)

\* A step of one process does not touch the codes of another.
LEMMA StepLeavesOthers ==
  ASSUME TypeOK, NEW p \in Processes, StepOf(p), NEW q \in Processes \ {p}
  PROVE  /\ pc'[q] = pc[q] /\ result'[q] = result[q] /\ code'[q] = code[q]
         /\ ended'[q] = ended[q] /\ failed'[q] = failed[q] /\ cancelled'[q] = cancelled[q]
<1> USE DEF TypeOK, Goto, ending
<1>1. CASE Start(p) \/ CheckLocalEnvironment(p) \/ Accompany(p)
  BY <1>1 DEF Start, CheckLocalEnvironment, Accompany
<1>2. CASE EarlyFailure(p) \/ OpenChangeRoot(p)
  BY <1>2 DEF EarlyFailure, OpenChangeRoot, Return
<1>3. CASE LockChangeRoot(p) \/ CloseLock(p)
  BY <1>3 DEF LockChangeRoot, CloseLock, Return
<1>4. CASE ExitWithResult(p) \/ ExitWithSignal(p)
  BY <1>4 DEF ExitWithResult, ExitWithSignal, Exit
<1>5. CASE ReceiveSignal(p) \/ SendSignal(p)
  BY <1>5 DEF ReceiveSignal, SignalCancels, SendSignal
<1>6. CASE Crash(p) \/ Again(p)
  BY <1>6 DEF Crash, Again
<1> QED BY <1>1, <1>2, <1>3, <1>4, <1>5, <1>6 DEF StepOf, ProcessStep

\* A command that has not accompanied returns no success.
LEMMA RefusalTells ==
  ASSUME TypeOK, NEW p \in Processes, CodeIsHandedOn(p), NEW c \in {"obstacle", "usage"},
         pc[p] \in {"environment", "open", "lock"}, Return(p, c), UNCHANGED ending
  PROVE  CodeIsHandedOn(p)'
BY DEF CodeIsHandedOn, Tells, Return, Goto, TypeOK, ending

\* Every step of a process hands its code on.
LEMMA StepHandsOn ==
  ASSUME TypeOK, NEW p \in Processes, CodeIsHandedOn(p), StepOf(p)
  PROVE  CodeIsHandedOn(p)'
<1> USE DEF TypeOK, Goto, ending
<1>1. CASE Start(p) \/ CheckLocalEnvironment(p) \/ SendSignal(p) \/ Crash(p)
  BY <1>1 DEF CodeIsHandedOn, Tells, Start, CheckLocalEnvironment, SendSignal, Crash
<1>2. CASE EarlyFailure(p)
  BY <1>2, RefusalTells DEF EarlyFailure
<1>3. CASE OpenChangeRoot(p)
  <2>1. CASE root = None
    BY <1>3, <2>1, RefusalTells DEF OpenChangeRoot
  <2>2. CASE root # None
    BY <1>3, <2>2 DEF OpenChangeRoot, CodeIsHandedOn
  <2> QED BY <2>1, <2>2
<1>4. CASE LockChangeRoot(p)
  <2>1. CASE ~ SameFile(p) \/ ChangeBusy(p)
    BY <1>4, <2>1, RefusalTells DEF LockChangeRoot
  <2>2. CASE SameFile(p) /\ ~ ChangeBusy(p)
    BY <1>4, <2>2 DEF LockChangeRoot, CodeIsHandedOn
  <2> QED BY <2>1, <2>2
<1>5. CASE Accompany(p)
  BY <1>5 DEF Accompany, CodeIsHandedOn
<1>6. CASE CloseLock(p)
  <2>1. PICK ok \in BOOLEAN :
          /\ Return(p, IF ok THEN result[p] ELSE CodeAfterFailedRelease(p))
          /\ failed' = [failed EXCEPT ![p] = ~ ok]
    BY <1>6 DEF CloseLock
  <2>2. ended'[p] = result[p] /\ pc'[p] = "returned"
    BY <1>6, <2>1 DEF CloseLock, Return, CodeIsHandedOn
  <2>3. Tells(p, result[p])'
    BY <1>6, <2>1, <2>2 DEF Tells, Return, CodeAfterFailedRelease, Codes
  <2> QED BY <2>2, <2>3 DEF CodeIsHandedOn
<1>7. CASE ExitWithResult(p)
  BY <1>7 DEF ExitWithResult, Exit, CodeIsHandedOn, Tells
<1>8. CASE ExitWithSignal(p)
  BY <1>8 DEF ExitWithSignal, Exit, CodeIsHandedOn
<1>9. CASE ReceiveSignal(p)
  BY <1>9 DEF ReceiveSignal, SignalCancels, CodeIsHandedOn, Tells
<1>10. CASE Again(p)
  BY <1>10 DEF Again, CodeIsHandedOn
<1> QED
  BY <1>1, <1>2, <1>3, <1>4, <1>5, <1>6, <1>7, <1>8, <1>9, <1>10 DEF StepOf, ProcessStep

\* So does the world.
LEMMA NextHandsOn == TypeOK /\ CodesAreHandedOn /\ [Next]_vars => CodesAreHandedOn'
<1> SUFFICES ASSUME TypeOK, CodesAreHandedOn, [Next]_vars, NEW q \in Processes
             PROVE  CodeIsHandedOn(q)'
  BY DEF CodesAreHandedOn
<1>1. CodeIsHandedOn(q)
  BY DEF CodesAreHandedOn
<1>2. CASE StepOf(q)
  BY <1>1, <1>2, StepHandsOn
<1>3. ASSUME NEW p \in Processes, p # q, StepOf(p)
      PROVE  CodeIsHandedOn(q)'
  BY <1>1, <1>3, StepLeavesOthers DEF CodeIsHandedOn, Tells
<1>4. CASE ReplaceRoot \/ UNCHANGED vars
  BY <1>1, <1>4 DEF ReplaceRoot, vars, ending, CodeIsHandedOn, Tells
<1> QED BY <1>2, <1>3, <1>4 DEF Next, StepOf

\* The exit code says what has come of the accompaniment and of its lock, unless
\* a signal takes its place: the deferred function of runPrepareCommits and
\* runWithSignals.
THEOREM ExitCodeIsTrue == Spec => []ExitCodeTellsOutcome
<1>1. Init => CodesAreHandedOn
  BY DEF Init, CodesAreHandedOn, CodeIsHandedOn
<1>2. CodesAreHandedOn => ExitCodeTellsOutcome
  BY DEF CodesAreHandedOn, CodeIsHandedOn, Tells, ExitCodeTellsOutcome
<1> QED BY <1>1, <1>2, NextHandsOn, InvocationTypeCorrect, PTL DEF Spec

-----------------------------------------------------------------------------
(* The promise of the lock, as long as the root stays in place.            *)

\* As long as no root was replaced, the lock of the root is held exactly while
\* somebody accompanies the change or is about to close it.
OwnerIsAtWork ==
  /\ OwnerOfRoot \in Processes \cup {None}
  /\ \A p \in Processes : OwnerOfRoot = p <=> pc[p] \in {"running", "closing"}

\* It follows from the invariant.
LEMMA RootIsOwned == Inv /\ ~ replaced => OwnerIsAtWork
<1> SUFFICES ASSUME Inv, ~ replaced PROVE OwnerIsAtWork
  OBVIOUS
<1> USE NoneAssumption DEF Inv, TypeOK
<1>1. OwnerOfRoot \in Processes \cup {None}
  BY DEF OwnerOfRoot
<1>2. ASSUME NEW p \in Processes, OwnerOfRoot = p
      PROVE  pc[p] \in {"running", "closing"}
  BY <1>2 DEF OwnerOfRoot, HoldersAreAtWork
<1>3. ASSUME NEW p \in Processes, pc[p] \in {"running", "closing"}
      PROVE  OwnerOfRoot = p
  BY <1>3 DEF OwnerOfRoot, WayToTheLock, OneRoot, InProgress
<1> QED BY <1>1, <1>2, <1>3 DEF OwnerIsAtWork

\* How a process comes to the accompaniment and leaves it.
ComesAndGoes(p) ==
  \/ pc[p] \notin {"running", "closing"} /\ pc'[p] \notin {"running", "closing"}
  \/ pc[p] = "lock" /\ pc'[p] = "running" /\ SameFile(p) /\ ~ ChangeBusy(p)
  \/ pc[p] = "running" /\ pc'[p] # "running"
  \/ pc[p] = "closing" /\ pc'[p] \notin {"running", "closing"}
  \/ pc'[p] = pc[p]

\* Every step of a process does one of these and leaves the others alone.
LEMMA StepComesAndGoes ==
  ASSUME TypeOK, NEW p \in Processes, StepOf(p)
  PROVE  /\ \A q \in Processes \ {p} : pc'[q] = pc[q]
         /\ ComesAndGoes(p)
<1> USE DEF ComesAndGoes, Goto, TypeOK
<1>1. CASE Start(p) \/ Accompany(p) \/ SendSignal(p) \/ Crash(p) \/ Again(p)
  BY <1>1 DEF Start, Accompany, SendSignal, Crash, Again
<1>2. CASE EarlyFailure(p) \/ CheckLocalEnvironment(p) \/ OpenChangeRoot(p)
  BY <1>2 DEF EarlyFailure, CheckLocalEnvironment, OpenChangeRoot, Return
<1>3. CASE LockChangeRoot(p)
  BY <1>3 DEF LockChangeRoot, Return
<1>4. CASE CloseLock(p)
  BY <1>4 DEF CloseLock, Return
<1>5. CASE ExitWithResult(p) \/ ReceiveSignal(p) \/ ExitWithSignal(p)
  BY <1>5 DEF ExitWithResult, ReceiveSignal, ExitWithSignal, Exit
<1> QED BY <1>1, <1>2, <1>3, <1>4, <1>5 DEF StepOf, ProcessStep

\* Every step of a process is one of the lock or invisible to it.
LEMMA StepProvides ==
  ASSUME Inv, ~ replaced, OwnerIsAtWork, OwnerIsAtWork', NEW p \in Processes, StepOf(p)
  PROVE  [ProvidedLock!Next]_(ProvidedLock!lock)
<1> DEFINE Owner   == OwnerOfRoot
           Working == {q \in Processes : pc[q] = "running"}
<1>1. /\ Owner \in Processes \cup {None} /\ Owner' \in Processes \cup {None}
      /\ \A q \in Processes : Owner = q <=> pc[q] \in {"running", "closing"}
      /\ \A q \in Processes : Owner' = q <=> pc'[q] \in {"running", "closing"}
  BY DEF OwnerIsAtWork
<1>2. /\ \A q \in Processes \ {p} : pc'[q] = pc[q]
      /\ ComesAndGoes(p)
  BY StepComesAndGoes DEF Inv
<1>3. Working' = {q \in Processes : pc'[q] = "running"}
  OBVIOUS
<1>4. CASE \/ pc[p] \notin {"running", "closing"} /\ pc'[p] \notin {"running", "closing"}
           \/ pc'[p] = pc[p]
  <2>1. Owner' = Owner
    BY <1>1, <1>2, <1>4
  <2>2. Working' = Working
    BY <1>2, <1>3, <1>4
  <2> QED BY <2>1, <2>2 DEF ProvidedLock!lock
<1>5. CASE pc[p] = "lock" /\ pc'[p] = "running" /\ SameFile(p) /\ ~ ChangeBusy(p)
  <2>1. checked[p] = root /\ root # None
    BY <1>5, NoneAssumption DEF Inv, OneRoot, WayToTheLock, InProgress
  <2>2. Owner = None
    BY <1>5, <2>1 DEF SameFile, ChangeBusy, OwnerOfRoot
  <2>3. Owner' = p
    BY <1>1, <1>5
  <2>4. Working' = {p}
    BY <1>1, <1>2, <1>3, <1>5, <2>2, NoneAssumption
  <2>5. ProvidedLock!Take(p)
    BY <2>2, <2>3, <2>4 DEF ProvidedLock!Take
  <2> QED BY <2>5 DEF ProvidedLock!Next
<1>6. CASE pc[p] = "running" /\ pc'[p] # "running"
  <2>1. Owner = p
    BY <1>1, <1>6
  <2>2. Working = {p} /\ Working' = {}
    BY <1>1, <1>2, <1>3, <1>6, <2>1
  <2>3. Owner' \in {p, None}
    BY <1>1, <1>2, <2>1
  <2>4. ProvidedLock!Finish(p)
    BY <2>2, <2>3 DEF ProvidedLock!Finish
  <2> QED BY <2>4 DEF ProvidedLock!Next
<1>7. CASE pc[p] = "closing" /\ pc'[p] \notin {"running", "closing"}
  <2>1. Owner = p
    BY <1>1, <1>7
  <2>2. Working = {} /\ Working' = {}
    BY <1>1, <1>2, <1>3, <1>7, <2>1
  <2>3. Owner' = None
    BY <1>1, <1>2, <1>7, <2>1
  <2>4. ProvidedLock!Release(p)
    BY <2>1, <2>2, <2>3 DEF ProvidedLock!Release
  <2> QED BY <2>4 DEF ProvidedLock!Next
<1> QED BY <1>2, <1>4, <1>5, <1>6, <1>7 DEF ComesAndGoes

\* So is a root that moves while nobody is past its check.
LEMMA RootProvides ==
  ASSUME ~ replaced, ~ replaced', OwnerIsAtWork, OwnerIsAtWork', ReplaceRoot
  PROVE  UNCHANGED ProvidedLock!lock
<1>1. pc' = pc /\ \A p \in Processes : pc[p] \notin {"running", "closing"}
  BY DEF ReplaceRoot, InProgress
<1>2. OwnerOfRoot = None
  BY <1>1 DEF OwnerIsAtWork
<1>3. OwnerOfRoot' = None
  BY <1>1 DEF OwnerIsAtWork
<1> QED BY <1>1, <1>2, <1>3 DEF ProvidedLock!lock

\* The flock on the open directory is a lock of the change, for any number of
\* processes and any signals, crashes and failed releases, as long as the root
\* is not replaced under an invocation: the lock CommitPreparation relies on.
THEOREM LockIsProvided == Spec /\ RootStaysInPlace => ProvidedLock!Spec
<1>1. Init => ProvidedLock!Init
  BY NoneAssumption DEF Init, ProvidedLock!Init, OwnerOfRoot
<1>2. /\ Inv /\ ~ replaced /\ (~ replaced)'
      /\ OwnerIsAtWork /\ OwnerIsAtWork'
      /\ [Next]_vars
      => [ProvidedLock!Next]_(ProvidedLock!lock)
  <2> SUFFICES ASSUME Inv, ~ replaced, ~ replaced', OwnerIsAtWork, OwnerIsAtWork',
                      [Next]_vars
               PROVE  [ProvidedLock!Next]_(ProvidedLock!lock)
    OBVIOUS
  <2>1. CASE \E p \in Processes : StepOf(p)
    BY <2>1, StepProvides
  <2>2. CASE ReplaceRoot
    BY <2>2, RootProvides
  <2>3. CASE UNCHANGED vars
    BY <2>3 DEF vars, ProvidedLock!lock, OwnerOfRoot
  <2> QED BY <2>1, <2>2, <2>3 DEF Next, StepOf
<1> QED
  BY <1>1, <1>2, Invariant, RootIsOwned, PTL DEF Spec, RootStaysInPlace, ProvidedLock!Spec

=============================================================================
