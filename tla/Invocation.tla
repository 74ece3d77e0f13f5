----------------------------- MODULE Invocation -----------------------------
(***************************************************************************)
(* The life of the processes `prepare-commits` for one change, from the    *)
(* arguments to the exit code: the checks before the lock, the flock on    *)
(* the open directory of the change root, the accompaniment (here one      *)
(* step, see CommitPreparation), the deferred release of the lock and the  *)
(* handling of SIGINT and SIGTERM.                                         *)
(*                                                                         *)
(* The lock belongs to a directory, the change to a path: a directory may  *)
(* be replaced at its path while an invocation holds it open.              *)
(***************************************************************************)

CONSTANTS Processes, Inodes, None

ASSUME NoneAssumption == None \notin Processes \cup Inodes

VARIABLES
  root,       \* the directory at the path of the change root, or None
  holder,     \* holder[i]: the process that holds the flock of directory i
  pc,         \* what the process does next
  checked,    \* changeRootInfo of CheckLocalEnvironment
  fd,         \* the directory the process holds open
  result,     \* the exit code the command has computed
  signalled,  \* a signal waits in the channel of the process
  cancelled,  \* the context of the command is cancelled
  code,       \* the exit code of the process
  replaced,   \* history: the root changed under an invocation in progress
  ended,      \* history: the code that the accompaniment ended with, or "none"
  failed      \* history: the release of the lock reported an error

ending == <<ended, failed>>
vars   == <<root, holder, pc, checked, fd, result, signalled, cancelled, code, replaced, ending>>

Codes == {"success", "obstacle", "usage"}

InProgress == {"open", "lock", "running", "closing"}

TypeOK ==
  /\ root \in Inodes \cup {None}
  /\ holder \in [Inodes -> Processes \cup {None}]
  /\ pc \in [Processes -> {"idle", "environment", "returned", "exited"} \cup InProgress]
  /\ checked \in [Processes -> Inodes \cup {None}]
  /\ fd \in [Processes -> Inodes \cup {None}]
  /\ result \in [Processes -> Codes]
  /\ signalled \in [Processes -> BOOLEAN]
  /\ cancelled \in [Processes -> BOOLEAN]
  /\ code \in [Processes -> Codes \cup {"none", "signal"}]
  /\ replaced \in BOOLEAN
  /\ ended \in [Processes -> Codes \cup {"none"}]
  /\ failed \in [Processes -> BOOLEAN]

Init ==
  /\ root \in Inodes
  /\ holder = [i \in Inodes |-> None]
  /\ pc = [p \in Processes |-> "idle"]
  /\ checked = [p \in Processes |-> None]
  /\ fd = [p \in Processes |-> None]
  /\ result = [p \in Processes |-> "obstacle"]
  /\ signalled = [p \in Processes |-> FALSE]
  /\ cancelled = [p \in Processes |-> FALSE]
  /\ code = [p \in Processes |-> "none"]
  /\ replaced = FALSE
  /\ ended = [p \in Processes |-> "none"]
  /\ failed = [p \in Processes |-> FALSE]
-----------------------------------------------------------------------------
(* The command.                                                            *)

Goto(p, location) == pc' = [pc EXCEPT ![p] = location]

\* The command returns a code; its open directory, if any, is closed, and so
\* the flock on it, if any, is given up.
Return(p, c) ==
  /\ Goto(p, "returned")
  /\ result' = [result EXCEPT ![p] = c]
  /\ fd' = [fd EXCEPT ![p] = None]
  /\ holder' = [i \in Inodes |-> IF holder[i] = p THEN None ELSE holder[i]]

Start(p) ==
  /\ pc[p] = "idle"
  /\ Goto(p, "environment")
  /\ UNCHANGED <<root, holder, checked, fd, result, signalled, cancelled, code, replaced, ending>>

\* parseCommand, OpenSpec, the working tree and the configuration: any of them
\* may end the command before the local environment is looked at.
EarlyFailure(p) ==
  /\ pc[p] = "environment"
  /\ \E c \in {"obstacle", "usage"} : Return(p, c)
  /\ UNCHANGED <<root, checked, signalled, cancelled, code, replaced, ending>>

CheckLocalEnvironment(p) ==
  /\ pc[p] = "environment"
  /\ root # None
  /\ checked' = [checked EXCEPT ![p] = root]
  /\ Goto(p, "open")
  /\ UNCHANGED <<root, holder, fd, result, signalled, cancelled, code, replaced, ending>>

OpenChangeRoot(p) ==
  /\ pc[p] = "open"
  /\ \/ /\ root = None
        /\ Return(p, "obstacle")
     \/ /\ root # None
        /\ fd' = [fd EXCEPT ![p] = root]
        /\ Goto(p, "lock")
        /\ UNCHANGED <<holder, result>>
  /\ UNCHANGED <<root, checked, signalled, cancelled, code, replaced, ending>>

\* Mutant: the opened directory is not compared with the checked one.
AnyFile(p) == TRUE

\* os.SameFile(environment.changeRootInfo, info).
SameFile(p) == checked[p] = fd[p]

\* Mutant: a held lock does not turn the invocation away.
NeverBusy(p) == FALSE

\* flock answers EWOULDBLOCK.
ChangeBusy(p) == holder[fd[p]] # None

LockChangeRoot(p) ==
  /\ pc[p] = "lock"
  /\ \/ /\ ~ SameFile(p) \/ ChangeBusy(p)
        /\ Return(p, "obstacle")
     \/ /\ SameFile(p) /\ ~ ChangeBusy(p)
        /\ holder' = [holder EXCEPT ![fd[p]] = p]
        /\ Goto(p, "running")
        /\ UNCHANGED <<fd, result>>
  /\ UNCHANGED <<root, checked, signalled, cancelled, code, replaced, ending>>

\* openPaseo and everything after it, up to the reported outcome.
Accompany(p) ==
  /\ pc[p] = "running"
  /\ \E c \in Codes :
       /\ result' = [result EXCEPT ![p] = c]
       /\ ended' = [ended EXCEPT ![p] = c]
  /\ Goto(p, "closing")
  /\ UNCHANGED <<root, holder, checked, fd, signalled, cancelled, code, replaced, failed>>

\* Mutant: an error of the release leaves the command without a code.
CodeIsLost(p) == "none"

\* Mutant: the result of runPrepareCommits has no name, so that the deferred
\* function assigns to a copy.
CopyIsSpoiled(p) == result[p]

\* The deferred function: an error of the release spoils a success.
CodeAfterFailedRelease(p) == IF result[p] = "success" THEN "obstacle" ELSE result[p]

\* lock.Close: the kernel drops the lock even when close reports an error.
CloseLock(p) ==
  /\ pc[p] = "closing"
  /\ \E ok \in BOOLEAN :
       /\ Return(p, IF ok THEN result[p] ELSE CodeAfterFailedRelease(p))
       /\ failed' = [failed EXCEPT ![p] = ~ ok]
  /\ UNCHANGED <<root, checked, signalled, cancelled, code, replaced, ended>>
-----------------------------------------------------------------------------
(* The process around the command: runWithSignals.                         *)

\* os.Exit, after the command has returned: its directory is closed by now.
Exit(p, c) ==
  /\ Goto(p, "exited")
  /\ code' = [code EXCEPT ![p] = c]
  /\ UNCHANGED <<root, holder, checked, fd, result, signalled, cancelled, replaced, ending>>

\* select takes the result, even when a signal waits too.
ExitWithResult(p) ==
  /\ pc[p] = "returned"
  /\ ~ cancelled[p]
  /\ Exit(p, result[p])

\* Mutant: the signal is consumed and forgotten.
SignalSwallowed(p) == signalled' = [signalled EXCEPT ![p] = FALSE] /\ UNCHANGED cancelled

SignalCancels(p) ==
  /\ signalled' = [signalled EXCEPT ![p] = FALSE]
  /\ cancelled' = [cancelled EXCEPT ![p] = TRUE]

\* select takes the signal; a second one is never read.
ReceiveSignal(p) ==
  /\ pc[p] \notin {"idle", "exited"}
  /\ signalled[p]
  /\ ~ cancelled[p]
  /\ SignalCancels(p)
  /\ UNCHANGED <<root, holder, pc, checked, fd, result, code, replaced, ending>>

\* The code of the command is received and thrown away.
ExitWithSignal(p) ==
  /\ pc[p] = "returned"
  /\ cancelled[p]
  /\ Exit(p, "signal")
-----------------------------------------------------------------------------
(* What the command cannot prevent.                                        *)

SendSignal(p) ==
  /\ pc[p] \notin {"idle", "exited"}
  /\ ~ signalled[p]
  /\ signalled' = [signalled EXCEPT ![p] = TRUE]
  /\ UNCHANGED <<root, holder, pc, checked, fd, result, cancelled, code, replaced, ending>>

\* SIGKILL, a crash: the kernel closes what the process had open.
Crash(p) ==
  /\ pc[p] \notin {"idle", "exited"}
  /\ Goto(p, "exited")
  /\ code' = [code EXCEPT ![p] = "signal"]
  /\ fd' = [fd EXCEPT ![p] = None]
  /\ holder' = [i \in Inodes |-> IF holder[i] = p THEN None ELSE holder[i]]
  /\ UNCHANGED <<root, checked, result, signalled, cancelled, replaced, ending>>

\* The command is started again.
Again(p) ==
  /\ pc[p] = "exited"
  /\ Goto(p, "idle")
  /\ checked' = [checked EXCEPT ![p] = None]
  /\ result' = [result EXCEPT ![p] = "obstacle"]
  /\ signalled' = [signalled EXCEPT ![p] = FALSE]
  /\ cancelled' = [cancelled EXCEPT ![p] = FALSE]
  /\ code' = [code EXCEPT ![p] = "none"]
  /\ ended' = [ended EXCEPT ![p] = "none"]
  /\ failed' = [failed EXCEPT ![p] = FALSE]
  /\ UNCHANGED <<root, holder, fd, replaced>>

\* git checkout, git stash, mv, rm: the path leads to no directory or to one
\* that nobody has open.
ReplaceRoot ==
  /\ \E i \in Inodes \cup {None} :
       /\ i # root
       /\ \A p \in Processes : i # None => fd[p] # i
       /\ root' = i
  /\ replaced' = (replaced \/ \E p \in Processes : pc[p] \in InProgress)
  /\ UNCHANGED <<holder, pc, checked, fd, result, signalled, cancelled, code, ending>>

\* Steps the process takes by itself without waiting for anybody.
ProcessStep(p) ==
  \/ EarlyFailure(p) \/ CheckLocalEnvironment(p) \/ OpenChangeRoot(p) \/ LockChangeRoot(p)
  \/ CloseLock(p) \/ ExitWithResult(p) \/ ReceiveSignal(p) \/ ExitWithSignal(p)

Next ==
  \/ \E p \in Processes :
       \/ Start(p) \/ ProcessStep(p) \/ Accompany(p)
       \/ SendSignal(p) \/ Crash(p) \/ Again(p)
  \/ ReplaceRoot

Spec == Init /\ [][Next]_vars

(***************************************************************************)
(* An accompaniment may last as long as the user and the agent like; once  *)
(* the context is cancelled every wait, pause and child process ends.      *)
(***************************************************************************)
Fairness ==
  \A p \in Processes :
    WF_vars(ProcessStep(p)) /\ WF_vars(ReceiveSignal(p)) /\ WF_vars(cancelled[p] /\ Accompany(p))

FairSpec == Spec /\ Fairness
-----------------------------------------------------------------------------
\* "Replacing the root after its check does not carry the lock to another
\* directory": whoever accompanies holds the lock of the directory it checked.
LockIsOfCheckedRoot ==
  \A p \in Processes :
    pc[p] = "running" => checked[p] # None /\ holder[checked[p]] = p

\* The lock serialises the invocations of one change as long as the directory
\* is not replaced under them.
SerialisedUnlessReplaced ==
  ~ replaced =>
    \A p, q \in Processes : pc[p] = "running" /\ pc[q] = "running" => p = q

\* The exit code tells what has come of the change.  It is success only if the
\* accompaniment succeeded, its lock was released without an error and no signal
\* was taken; an obstacle or a faulty configuration that ended the accompaniment
\* is never hidden by the deferred release of runPrepareCommits.
ExitCodeTellsOutcome ==
  \A p \in Processes :
    pc[p] = "exited" /\ code[p] # "signal" =>
      /\ ~ cancelled[p]
      /\ code[p] = "success" <=> ended[p] = "success" /\ ~ failed[p]
      /\ ended[p] \in {"obstacle", "usage"} => code[p] = ended[p]

\* A signal ends the process.
SignalEndsProcess ==
  \A p \in Processes : signalled[p] ~> (pc[p] \in {"idle", "exited"})

\* "This serialises the instances of the orchestrator of one change."
Serialised ==
  \A p, q \in Processes : pc[p] = "running" /\ pc[q] = "running" => p = q
-----------------------------------------------------------------------------
\* The holder of the lock that the next invocation would ask for.
OwnerOfRoot == IF root = None THEN None ELSE holder[root]

ProvidedLock ==
  INSTANCE ChangeLock WITH owner <- OwnerOfRoot,
                           working <- {p \in Processes : pc[p] = "running"}

\* The root never changes under an invocation in progress.
RootStaysInPlace == [](~ replaced)
=============================================================================
