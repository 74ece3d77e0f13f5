---------------------- MODULE CommitPreparation_proofs ----------------------
(***************************************************************************)
(* Proofs about CommitPreparation for any number of invocations, sessions, *)
(* workspaces and user interventions: its types, its safety properties and *)
(* that it implements Assignment - whatever the order of reads, calls,     *)
(* answers, losses and crashes, the sessions of a change are begun,        *)
(* accompanied, closed and reported as the abstract specification says.    *)
(*                                                                         *)
(* Of CompletionEvidence: success rests on a tree that was read clean      *)
(* after the last turn of the session, unless the user gives work to one   *)
(* that is about to be archived.                                           *)
(*                                                                         *)
(* The step of each invariant is a lemma of its own, so that another loop  *)
(* that shares steps with this one can rest on it.                         *)
(***************************************************************************)
EXTENDS CompletionEvidence, TLAPS

-----------------------------------------------------------------------------
(* Type correctness.                                                       *)

\* The two halves of TypeOK: the state of the command and of what it acts on.
CommandType ==
  /\ owner \in Processes \cup {None}
  /\ pc \in [Processes -> Location]
  /\ run \in [Processes -> Locals]
  /\ call \in [Processes -> Call]
  /\ outcome \in [Processes -> Outcome]
  /\ dispatched \in [Processes -> BOOLEAN]

WorldType ==
  /\ workspace \in [Workspaces -> {"absent", "active", "archived"}]
  /\ session \in [Sessions -> SessionState]
  /\ home \in [Sessions -> Workspaces \cup {None}]
  /\ dirty \in BOOLEAN
  /\ late \in SUBSET Call
  /\ lost \in BOOLEAN
  /\ moves \in 0 .. MaxMoves

\* What an invocation leaves behind when it ends keeps the types.
LEMMA ExitType ==
  ASSUME CommandType, NEW p \in Processes,
         NEW kind \in {"noWork", "completed", "closedWithChanges", "obstacle", "interrupted"},
         NEW s \in Sessions \cup {None},
         Exit(p, kind, s)
  PROVE  CommandType'
BY DEF CommandType, Exit, Goto, Locals, FreshRun, Call, NoCall, Outcome, Location

\* So does a step that only changes its place and its locals,
LEMMA ProceedType ==
  ASSUME CommandType, NEW p \in Processes, NEW location \in Location, NEW r \in Locals,
         Proceed(p, location, r)
  PROVE  CommandType'
BY DEF CommandType, Proceed, Goto

\* one that starts a new iteration,
LEMMA IterationType ==
  ASSUME NEW known \in Sessions \cup {None}, NEW prepared \in BOOLEAN, NEW handed \in BOOLEAN
  PROVE  Iteration(known, prepared, handed) \in Locals
BY DEF Iteration, FreshRun, Locals

LEMMA NextIterationType ==
  ASSUME CommandType, NEW p \in Processes, NEW location \in Location,
         NEW known \in Sessions \cup {None}, NEW prepared \in BOOLEAN, NEW handed \in BOOLEAN,
         NextIteration(p, location, known, prepared, handed)
  PROVE  CommandType'
BY IterationType DEF CommandType, NextIteration, Goto

LEMMA ObservationChangedType ==
  ASSUME CommandType, NEW p \in Processes, ObservationChanged(p)
  PROVE  CommandType'
<1>1. /\ run[p].known \in Sessions \cup {None}
      /\ run[p].prepared \in BOOLEAN
      /\ run[p].handed \in BOOLEAN
  BY DEF CommandType, Locals
<1>2. "workspaces" \in Location
  BY DEF Location
<1> QED
  BY <1>1, <1>2, NextIterationType DEF ObservationChanged

\* and one that sends a command.
LEMMA SendType ==
  ASSUME CommandType, NEW p \in Processes, NEW op \in {"workspace", "run", "archive"},
         NEW w \in Workspaces \cup {None}, NEW s \in Sessions \cup {None},
         Send(p, op, w, s)
  PROVE  CommandType'
BY DEF CommandType, Send, Goto, Call, Location

\* Every step an invocation takes keeps the types.
LEMMA CommandStepType ==
  ASSUME TypeOK, NEW p \in Processes, CommandStep(p) \/ Fault(p) \/ AcquireChangeLock(p)
  PROVE  TypeOK'
<1>1. CommandType /\ WorldType
  BY DEF TypeOK, CommandType, WorldType
<1>2. /\ run[p] \in Locals
      /\ call[p] \in Call
  BY <1>1 DEF CommandType
<1>3. Obstacle(p) => CommandType'
  BY <1>1, ExitType DEF Obstacle
<1>4. ObservationChanged(p) => CommandType'
  BY <1>1, ObservationChangedType
<1>5. HandToHuman(p) => CommandType'
  BY <1>1, <1>2, NextIterationType DEF HandToHuman, Locals, Location
<1>6. UNCHANGED world => WorldType'
  BY <1>1 DEF WorldType, world
<1>7. Abandon(p) => WorldType'
  BY <1>1, <1>2 DEF WorldType, Abandon
<1> SUFFICES CommandType' /\ WorldType'
  BY DEF TypeOK, CommandType, WorldType
<1>a. CASE AcquireChangeLock(p)
  BY <1>a, <1>1, <1>6 DEF AcquireChangeLock, CommandType, Goto, Location, NoOutcome, Outcome
<1>b. CASE FindActiveWorkspace(p)
  <2>1. [run[p] EXCEPT !.seen = "absent", !.ws = None] \in Locals
    BY <1>2 DEF Locals
  <2>2. ASSUME NEW w \in Workspaces
        PROVE  [run[p] EXCEPT !.ws = w, !.goal = "select"] \in Locals
    BY <1>2 DEF Locals
  <2> QED
    BY <1>b, <1>1, <1>3, <1>6, <2>1, <2>2, ProceedType DEF FindActiveWorkspace, Location
<1>c. CASE ListBroad(p)
  <2>1. [run[p] EXCEPT !.broad = OwnSessions] \in Locals
    BY <1>2 DEF Locals, OwnSessions
  <2> QED
    BY <1>c, <1>1, <1>6, <2>1, ProceedType DEF ListBroad, Location
<1>d. CASE ListExact(p)
  <2>1. ASSUME NEW s \in Sessions \cup {None}
        PROVE  [run[p] EXCEPT !.target = s] \in Locals
    BY <1>2 DEF Locals
  <2>2. [run[p] EXCEPT !.seen = "absent"] \in Locals
    BY <1>2 DEF Locals
  <2>3. Expected(p) \in Sessions \cup {None}
    BY <1>2 DEF Locals, Expected
  <2>4. OwnSessionsIn(run[p].ws) \subseteq Sessions
    BY DEF OwnSessionsIn, OwnSessions
  <2>5. run[p].ws \in Workspaces \cup {None}
    BY <1>2 DEF Locals
  <2> QED
    BY <1>d, <1>1, <1>3, <1>4, <1>6, <2>1, <2>2, <2>3, <2>4, <2>5, ProceedType, SendType
       DEF ListExact, Location
<1>e. CASE InspectToSelect(p)
  <2>1. [run[p] EXCEPT !.seen = "finished"] \in Locals /\ [run[p] EXCEPT !.seen = "closed"] \in Locals
    BY <1>2 DEF Locals
  <2>2. run[p].target \in Sessions \cup {None} /\ run[p].handed \in BOOLEAN
    BY <1>2 DEF Locals
  <2> QED
    BY <1>e, <1>1, <1>3, <1>5, <1>6, <2>1, <2>2, ProceedType, NextIterationType
       DEF InspectToSelect, Location
<1>f. CASE InspectToCreate(p)
  BY <1>f, <1>4, <1>6 DEF InspectToCreate
<1>g. CASE InspectToArchive(p)
  <2>1. run[p].target \in Sessions \cup {None}
    BY <1>2 DEF Locals
  <2> QED
    BY <1>g, <1>1, <1>2, <1>3, <1>4, <1>6, <2>1, ProceedType, ExitType DEF InspectToArchive, Location
<1>h. CASE ReadWorkingTree(p)
  <2>1. [run[p] EXCEPT !.known = run[p].target, !.prepared = FALSE, !.goal = "archive"] \in Locals
    BY <1>2 DEF Locals
  <2>2. [run[p] EXCEPT !.goal = "create"] \in Locals
    BY <1>2 DEF Locals
  <2>3. /\ run[p].target \in Sessions \cup {None} /\ run[p].handed \in BOOLEAN
        /\ run[p].known \in Sessions \cup {None}
    BY <1>2 DEF Locals
  <2> QED
    BY <1>h, <1>1, <1>2, <1>5, <1>6, <2>1, <2>2, <2>3, ProceedType, NextIterationType, ExitType
       DEF ReadWorkingTree, Location
<1>i. CASE RecheckNoWorkspace(p)
  BY <1>i, <1>1, <1>4, <1>6, SendType DEF RecheckNoWorkspace
<1>j. CASE FindFreshWorkspace(p)
  BY <1>j, <1>1, <1>2, <1>4, <1>6, ProceedType DEF FindFreshWorkspace, Location
<1>k. CASE InspectBeforeArchive(p)
  <2>1. run[p].target \in Sessions \cup {None} /\ run[p].ws \in Workspaces \cup {None}
    BY <1>2 DEF Locals
  <2> QED
    BY <1>k, <1>1, <1>4, <1>6, <2>1, SendType, ExitType DEF InspectBeforeArchive
<1>l. CASE InspectAfterArchive(p)
  <2>1. run[p].target \in Sessions \cup {None}
    BY <1>2 DEF Locals
  <2> QED
    BY <1>l, <1>1, <1>3, <1>6, <2>1, ExitType DEF InspectAfterArchive
<1>m. CASE ReceiveAnswer(p)
  <2>1. Iteration(run[p].known, run[p].prepared, run[p].handed) \in Locals
    BY <1>2, IterationType DEF Locals
  <2>2. Iteration(call[p].session, FALSE, run[p].handed) \in Locals
    BY <1>2, IterationType DEF Locals, Call
  <2>3. NoCall \in Call
    BY DEF NoCall, Call
  <2> QED
    BY <1>m, <1>1, <1>6, <2>1, <2>2, <2>3 DEF ReceiveAnswer, CommandType, Goto, Location
<1>n. CASE CallFails(p)
  <2>1. NoCall \in Call
    BY DEF NoCall, Call
  <2> QED
    BY <1>n, <1>1, <1>3, <1>7, <2>1 DEF CallFails, CommandType, Goto, Location
<1>o. CASE WaitReturns(p)
  BY <1>o, <1>4, <1>6 DEF WaitReturns
<1>p. CASE PauseEnds(p)
  BY <1>p, <1>4, <1>6 DEF PauseEnds
<1>q. CASE SourceFails(p)
  BY <1>q, <1>3, <1>6 DEF SourceFails
<1>r. CASE Interrupt(p)
  BY <1>r, <1>1, <1>7, ExitType DEF Interrupt
<1>s. CASE WaitTimesOut(p)
  BY <1>s, <1>4, <1>6 DEF WaitTimesOut
<1> QED
  BY <1>a, <1>b, <1>c, <1>d, <1>e, <1>f, <1>g, <1>h, <1>i, <1>j, <1>k, <1>l, <1>m, <1>n,
     <1>o, <1>p, <1>q, <1>r, <1>s DEF CommandStep, Fault

\* So does every step of the daemon, of an agent and of the user.
LEMMA WorldStepType ==
  ASSUME TypeOK, Daemon \/ (\E s \in Sessions : Agent(s)) \/ User
  PROVE  TypeOK'
<1> USE DEF SessionState, Working
<1>1. ASSUME NEW p \in Processes, DaemonAnswers(p)
      PROVE  TypeOK'
  <2>1. call[p] \in Call
    BY DEF TypeOK
  <2>2. /\ pc' = pc /\ run' = run /\ owner' = owner /\ outcome' = outcome
        /\ dispatched' = dispatched /\ dirty' = dirty /\ late' = late /\ lost' = lost /\ moves' = moves
    BY <1>1 DEF DaemonAnswers
  <2>3. call' \in [Processes -> Call]
    BY <1>1, <2>1 DEF DaemonAnswers, TypeOK, Call
  <2>4. /\ workspace' \in [Workspaces -> {"absent", "active", "archived"}]
        /\ session' \in [Sessions -> SessionState]
        /\ home' \in [Sessions -> Workspaces \cup {None}]
    BY <1>1, <2>1 DEF DaemonAnswers, TypeOK, Call, CreateWorkspace, RunSession, ArchiveSession
  <2> QED
    BY <2>2, <2>3, <2>4 DEF TypeOK
<1>2. ASSUME NEW c \in late, DaemonExecutesLate(c)
      PROVE  TypeOK'
  <2>1. c \in Call
    BY DEF TypeOK
  <2>2. UNCHANGED <<command, dirty, lost, moves>> /\ late' = late \ {c}
    BY <1>2 DEF DaemonExecutesLate
  <2>3. /\ workspace' \in [Workspaces -> {"absent", "active", "archived"}]
        /\ session' \in [Sessions -> SessionState]
        /\ home' \in [Sessions -> Workspaces \cup {None}]
    BY <1>2, <2>1 DEF DaemonExecutesLate, TypeOK, Call, CreateWorkspace, RunSession, ArchiveSession
  <2> QED
    BY <2>2, <2>3 DEF TypeOK, command
<1>3. ASSUME NEW s \in Sessions, Agent(s)
      PROVE  TypeOK'
  BY <1>3 DEF Agent, AgentStarts, AgentWrites, AgentStops, SessionBecomes, TypeOK, command
<1>4. ASSUME UserMoves
      PROVE  moves' \in 0 .. MaxMoves
  BY <1>4, MovesAssumption DEF UserMoves, TypeOK
<1>5. ASSUME User
      PROVE  TypeOK'
  <2>1. moves' \in 0 .. MaxMoves
    BY <1>4, <1>5 DEF User, UserResumes, UserArchives, UserArchivesWorkspace, UserEdits
  <2> QED
    BY <1>5, <2>1 DEF User, UserResumes, UserArchives, UserArchivesWorkspace, UserEdits,
                      SessionBecomes, TypeOK, command
<1> QED
  BY <1>1, <1>2, <1>3, <1>5 DEF Daemon

\* Every initial state has the types,
LEMMA InitType == Init => TypeOK
<1> SUFFICES ASSUME Init
             PROVE  TypeOK
  OBVIOUS
<1>1. FreshRun \in Locals /\ NoCall \in Call /\ NoOutcome \in Outcome
  BY DEF FreshRun, Locals, NoCall, Call, NoOutcome, Outcome
<1>2. moves \in 0 .. MaxMoves
  BY MovesAssumption DEF Init
<1> QED
  BY <1>1, <1>2 DEF Init, TypeOK, Location, SessionState

\* and every step keeps them.
LEMMA TypeStep ==
  ASSUME TypeOK, [Next]_vars
  PROVE  TypeOK'
<1>1. CASE Next
  BY <1>1, CommandStepType, WorldStepType DEF Next
<1>2. CASE UNCHANGED vars
  BY <1>2 DEF vars, TypeOK
<1> QED
  BY <1>1, <1>2

\* Every variable always has the type its declaration promises.
THEOREM TypeCorrect == Spec => []TypeOK
<1>1. TypeOK /\ [Next]_vars => TypeOK'
  BY TypeStep
<1> QED
  BY <1>1, InitType, PTL DEF Spec

-----------------------------------------------------------------------------
(* The inductive invariant, first part: what is true of the local          *)
(* variables of invocation p at each place of the loop.                    *)

\* A command is in flight exactly while its sender waits for it, and the
\* answer of `run` names a session.
CallIsAwaited(place, c) ==
  /\ c.op # "none" <=> place = "call"
  /\ c.op = "run" /\ c.state = "done" => c.session \in Sessions

\* The run looks at r.target, or decides or waits on its account.
Targets(place, r, c) ==
  \/ place \in {"inspect", "inspectKnown", "before", "after"}
  \/ place = "tree" /\ r.seen # "absent"
  \/ c.op = "archive"

TargetIsSession(place, r, c) == Targets(place, r, c) => r.target \in Sessions

\* A known session is never replaced: everything is read on its account and
\* nothing is created.
KnownIsTarget(place, r, c) ==
  r.known # None =>
    /\ Targets(place, r, c) => r.target = r.known
    /\ place = "tree" => r.seen # "absent"
    /\ r.goal # "create"
    /\ c.op # "run"

\* What a run has created it knows.
CreatedIsKnown(place, r, c, sent) ==
  sent /\ place # "off" => r.known # None \/ c.op = "run"

\* A session is archived in a run that did not hand it over.
ArchivesItsOwn(place, r) ==
  /\ r.goal = "archive" => ~ r.handed
  /\ place = "before" => r.goal = "archive"

Facts(place, r, c, sent) ==
  /\ CallIsAwaited(place, c)
  /\ TargetIsSession(place, r, c)
  /\ KnownIsTarget(place, r, c)
  /\ CreatedIsKnown(place, r, c, sent)
  /\ ArchivesItsOwn(place, r)

LocalFacts(p) == Facts(pc[p], run[p], call[p], dispatched[p])

\* The end of a run makes them true,
LEMMA ExitFacts ==
  ASSUME TypeOK, NEW p \in Processes, NEW kind, NEW s, Exit(p, kind, s)
  PROVE  LocalFacts(p)'
BY DEF TypeOK, Exit, Goto, FreshRun, NoCall, LocalFacts, Facts, CallIsAwaited, Targets,
       TargetIsSession, KnownIsTarget, CreatedIsKnown, ArchivesItsOwn

\* a move within an iteration carries them from old to new locals,
LEMMA ProceedFacts ==
  ASSUME TypeOK, NEW p \in Processes, NEW place, NEW r,
         Facts(place, r, call[p], dispatched[p]), Proceed(p, place, r)
  PROVE  LocalFacts(p)'
<1>1. pc'[p] = place /\ run'[p] = r /\ call'[p] = call[p] /\ dispatched'[p] = dispatched[p]
  BY DEF TypeOK, Proceed, Goto
<1> QED
  BY <1>1 DEF LocalFacts

\* a new iteration makes them true unless it forgets a created session,
LEMMA NextIterationFacts ==
  ASSUME TypeOK, NEW p \in Processes, NEW place \in {"workspaces", "wait", "pause"},
         NEW known, NEW prepared, NEW handed,
         call[p].op = "none", dispatched[p] => known # None,
         NextIteration(p, place, known, prepared, handed)
  PROVE  LocalFacts(p)'
<1>1. /\ pc'[p] = place /\ call'[p].op = "none" /\ dispatched'[p] = dispatched[p]
      /\ run'[p] = Iteration(known, prepared, handed)
  BY DEF TypeOK, NextIteration, Goto
<1>2. run'[p].known = known /\ run'[p].goal = "select"
  BY <1>1 DEF Iteration, FreshRun
<1> QED
  BY <1>1, <1>2 DEF LocalFacts, Facts, CallIsAwaited, Targets, TargetIsSession, KnownIsTarget,
                    CreatedIsKnown, ArchivesItsOwn

LEMMA ObservationChangedFacts ==
  ASSUME TypeOK, NEW p \in Processes, LocalFacts(p), pc[p] \notin {"off", "call"},
         ObservationChanged(p)
  PROVE  LocalFacts(p)'
<1>1. call[p].op = "none" /\ (dispatched[p] => run[p].known # None)
  BY DEF LocalFacts, Facts, CallIsAwaited, CreatedIsKnown
<1> QED
  BY <1>1, NextIterationFacts DEF ObservationChanged

LEMMA HandToHumanFacts ==
  ASSUME TypeOK, NEW p \in Processes, LocalFacts(p), Targets(pc[p], run[p], call[p]),
         pc[p] # "call", HandToHuman(p)
  PROVE  LocalFacts(p)'
<1>1. call[p].op = "none" /\ run[p].target # None
  BY NoneAssumption DEF LocalFacts, Facts, CallIsAwaited, TargetIsSession
<1> QED
  BY <1>1, NextIterationFacts DEF HandToHuman

\* and sending a command preserves them where the loop sends it.
LEMMA SendFacts ==
  ASSUME TypeOK, NEW p \in Processes, LocalFacts(p), NEW w, NEW s,
         \/ pc[p] = "recheck" /\ Send(p, "workspace", w, s)
         \/ pc[p] = "exact" /\ run[p].goal = "create" /\ Send(p, "run", w, s)
         \/ pc[p] = "before" /\ Send(p, "archive", w, s)
  PROVE  LocalFacts(p)'
<1>1. /\ pc'[p] = "call" /\ run'[p] = run[p]
      /\ call'[p].op \in {"workspace", "run", "archive"} /\ call'[p].state = "sent"
      /\ dispatched'[p] = (dispatched[p] \/ call'[p].op = "run")
  BY DEF TypeOK, Send, Goto
<1>2. /\ call'[p].op = "run" => pc[p] = "exact" /\ run[p].goal = "create"
      /\ call'[p].op = "archive" => pc[p] = "before"
      /\ pc[p] \in {"recheck", "exact", "before"}
  BY DEF TypeOK, Send, Goto
<1> QED
  BY <1>1, <1>2 DEF LocalFacts, Facts, CallIsAwaited, Targets, TargetIsSession, KnownIsTarget,
                    CreatedIsKnown, ArchivesItsOwn

\* No step of p disturbs the facts about p.
LEMMA CommandStepFacts ==
  ASSUME TypeOK, NEW p \in Processes, LocalFacts(p),
         CommandStep(p) \/ Fault(p) \/ AcquireChangeLock(p)
  PROVE  LocalFacts(p)'
<1> USE DEF LocalFacts, Facts, CallIsAwaited, Targets, TargetIsSession, KnownIsTarget,
            CreatedIsKnown, ArchivesItsOwn
<1>1. run[p] \in Locals /\ call[p] \in Call
  BY DEF TypeOK
<1>2. Obstacle(p) => LocalFacts(p)'
  BY ExitFacts DEF Obstacle
<1>3. pc[p] \notin {"off", "call"} /\ ObservationChanged(p) => LocalFacts(p)'
  BY ObservationChangedFacts
<1>4. Targets(pc[p], run[p], call[p]) /\ pc[p] # "call" /\ HandToHuman(p) => LocalFacts(p)'
  BY HandToHumanFacts
<1> HIDE DEF LocalFacts
<1>a. CASE AcquireChangeLock(p)
  <2>1. pc'[p] = "workspaces" /\ run'[p] = run[p] /\ call'[p] = call[p] /\ dispatched'[p] = FALSE
    BY <1>a DEF AcquireChangeLock, Goto, TypeOK
  <2> QED
    BY <1>a, <1>1, <2>1 DEF AcquireChangeLock, LocalFacts
<1>b. CASE FindActiveWorkspace(p)
  <2>1. CASE Obstacle(p)
    BY <1>2, <2>1
  <2>2. CASE run[p].known = None /\ Proceed(p, "tree", [run[p] EXCEPT !.seen = "absent", !.ws = None])
    <3> DEFINE r == [run[p] EXCEPT !.seen = "absent", !.ws = None]
    <3>1. r.seen = "absent" /\ r.known = None /\ r.goal = run[p].goal /\ r.handed = run[p].handed
      BY <1>1, <2>2 DEF Locals
    <3>2. pc[p] = "workspaces" /\ call[p].op = "none" /\ ~ dispatched[p]
      BY <1>b, <2>2 DEF FindActiveWorkspace, LocalFacts
    <3>3. Facts("tree", r, call[p], dispatched[p])
      BY <3>1, <3>2 DEF LocalFacts
    <3> QED
      BY <2>2, <3>3, ProceedFacts
  <2>3. CASE \E w \in Workspaces : Proceed(p, "broad", [run[p] EXCEPT !.ws = w, !.goal = "select"])
    <3>1. PICK w \in Workspaces : Proceed(p, "broad", [run[p] EXCEPT !.ws = w, !.goal = "select"])
      BY <2>3
    <3> DEFINE r == [run[p] EXCEPT !.ws = w, !.goal = "select"]
    <3>2. r.goal = "select" /\ r.known = run[p].known
      BY <1>1 DEF Locals
    <3>3. Facts("broad", r, call[p], dispatched[p])
      BY <1>1, <1>b, <3>2 DEF FindActiveWorkspace, LocalFacts
    <3> QED
      BY <3>1, <3>3, ProceedFacts
  <2> QED
    BY <1>b, <2>1, <2>2, <2>3 DEF FindActiveWorkspace
<1>c. CASE ListBroad(p)
  <2> DEFINE r == [run[p] EXCEPT !.broad = OwnSessions]
  <2>1. r.known = run[p].known /\ r.goal = run[p].goal /\ r.handed = run[p].handed
    BY <1>1 DEF Locals
  <2>2. Facts("exact", r, call[p], dispatched[p])
    BY <1>c, <2>1 DEF ListBroad, LocalFacts
  <2> QED
    BY <1>c, <2>2, ProceedFacts DEF ListBroad
<1>d. CASE ListExact(p)
  <2>1. pc[p] = "exact" /\ call[p].op = "none"
    BY <1>d DEF ListExact, LocalFacts
  <2>2. CASE Obstacle(p) \/ ObservationChanged(p)
    BY <1>2, <1>3, <2>1, <2>2
  <2>3. CASE /\ Expected(p) # None
             /\ Proceed(p, "inspectKnown", [run[p] EXCEPT !.target = Expected(p)])
    <3> DEFINE r == [run[p] EXCEPT !.target = Expected(p)]
    <3>1. r.target = run[p].known /\ r.known = run[p].known /\ r.known # None /\ r.known \in Sessions
      BY <1>1, <2>3 DEF Locals, Expected
    <3>2. r.goal = run[p].goal /\ r.handed = run[p].handed
      BY <1>1 DEF Locals
    <3>3. Facts("inspectKnown", r, call[p], dispatched[p])
      BY <2>1, <3>1, <3>2 DEF LocalFacts
    <3> QED
      BY <2>3, <3>3, ProceedFacts
  <2>4. CASE run[p].goal = "create" /\ Send(p, "run", run[p].ws, None)
    BY <2>1, <2>4, SendFacts
  <2>5. CASE /\ Expected(p) = None /\ run[p].goal # "create"
             /\ Proceed(p, "tree", [run[p] EXCEPT !.seen = "absent"])
    <3> DEFINE r == [run[p] EXCEPT !.seen = "absent"]
    <3>1. r.known = None /\ r.seen = "absent" /\ r.goal = run[p].goal /\ r.handed = run[p].handed
      BY <1>1, <2>5 DEF Locals, Expected
    <3>2. run[p].known = None
      BY <2>5 DEF Expected
    <3>3. Facts("tree", r, call[p], dispatched[p])
      BY <2>1, <3>1, <3>2 DEF LocalFacts
    <3> QED
      BY <2>5, <3>3, ProceedFacts
  <2>6. CASE \E s \in Sessions : /\ Expected(p) \in {None, s}
                               /\ Proceed(p, "inspect", [run[p] EXCEPT !.target = s])
    <3>1. PICK s \in Sessions : /\ Expected(p) \in {None, s}
                               /\ Proceed(p, "inspect", [run[p] EXCEPT !.target = s])
      BY <2>6
    <3> DEFINE r == [run[p] EXCEPT !.target = s]
    <3>2. r.target = s /\ r.known = run[p].known /\ r.goal = run[p].goal /\ r.handed = run[p].handed
      BY <1>1 DEF Locals
    <3>3. run[p].known # None => run[p].known = s
      BY <2>1, <3>1 DEF Expected, LocalFacts
    <3>4. Facts("inspect", r, call[p], dispatched[p])
      BY <2>1, <3>2, <3>3 DEF LocalFacts
    <3> QED
      BY <3>1, <3>4, ProceedFacts
  <2>7. OwnSessionsIn(run[p].ws) \subseteq Sessions
    BY DEF OwnSessionsIn, OwnSessions
  <2> QED
    BY <1>d, <2>2, <2>3, <2>4, <2>5, <2>6, <2>7 DEF ListExact
<1>e. CASE InspectToSelect(p)
  <2>1. pc[p] \in {"inspect", "inspectKnown"} /\ call[p].op = "none"
    BY <1>e DEF InspectToSelect, LocalFacts
  <2>2. CASE Obstacle(p) \/ HandToHuman(p)
    BY <1>2, <1>4, <2>1, <2>2
  <2>3. CASE NextIteration(p, "wait", run[p].target, FALSE, run[p].handed)
    <3>1. run[p].target # None
      BY <2>1, NoneAssumption DEF LocalFacts
    <3> QED
      BY <2>1, <2>3, <3>1, NextIterationFacts
  <2>4. ASSUME NEW seen \in {"finished", "closed"}, Proceed(p, "tree", [run[p] EXCEPT !.seen = seen])
        PROVE  LocalFacts(p)'
    <3> DEFINE r == [run[p] EXCEPT !.seen = seen]
    <3>1. /\ r.seen = seen /\ r.target = run[p].target /\ r.known = run[p].known
          /\ r.goal = run[p].goal /\ r.handed = run[p].handed
      BY <1>1 DEF Locals
    <3>2. Facts("tree", r, call[p], dispatched[p])
      BY <2>1, <3>1 DEF LocalFacts
    <3> QED
      BY <2>4, <3>2, ProceedFacts
  <2> QED
    BY <1>e, <2>2, <2>3, <2>4 DEF InspectToSelect
<1>f. CASE InspectToCreate(p)
  BY <1>f, <1>3 DEF InspectToCreate
<1>g. CASE InspectToArchive(p)
  <2>1. pc[p] \in {"inspect", "inspectKnown"} /\ call[p].op = "none" /\ run[p].goal = "archive"
    BY <1>g DEF InspectToArchive, LocalFacts
  <2>2. CASE Proceed(p, "before", run[p])
    <3>1. Facts("before", run[p], call[p], dispatched[p])
      BY <2>1 DEF LocalFacts
    <3> QED
      BY <2>2, <3>1, ProceedFacts
  <2> QED
    BY <1>g, <1>2, <1>3, <2>1, <2>2, ExitFacts DEF InspectToArchive
<1>h. CASE ReadWorkingTree(p)
  <2>1. pc[p] = "tree" /\ call[p].op = "none"
    BY <1>h DEF ReadWorkingTree, LocalFacts
  <2>2. ASSUME NEW kind, NEW s, Exit(p, kind, s)
        PROVE  LocalFacts(p)'
    BY <2>2, ExitFacts
  <2>3. CASE run[p].seen = "finished" /\ HandToHuman(p)
    BY <1>4, <2>1, <2>3
  <2>4. CASE run[p].seen = "finished" /\ NextIteration(p, "pause", run[p].target, FALSE, run[p].handed)
    <3>1. run[p].target # None
      BY <2>1, <2>4, NoneAssumption DEF LocalFacts
    <3> QED
      BY <2>1, <2>4, <3>1, NextIterationFacts
  <2>5. CASE /\ run[p].seen = "finished" /\ ~ Monitors(p)
             /\ Proceed(p, "fresh", [run[p] EXCEPT !.known = run[p].target, !.prepared = FALSE,
                                                   !.goal = "archive"])
    <3> DEFINE r == [run[p] EXCEPT !.known = run[p].target, !.prepared = FALSE, !.goal = "archive"]
    <3>1. r.known = run[p].target /\ r.target = run[p].target /\ r.goal = "archive" /\ ~ r.handed
      BY <1>1, <2>5 DEF Locals, Monitors
    <3>2. run[p].target # None
      BY <2>1, <2>5, NoneAssumption DEF LocalFacts
    <3>3. Facts("fresh", r, call[p], dispatched[p])
      BY <2>1, <3>1, <3>2 DEF LocalFacts
    <3> QED
      BY <2>5, <3>3, ProceedFacts
  <2>6. run[p].seen = "absent" => run[p].known = None /\ ~ dispatched[p]
    BY <2>1 DEF LocalFacts
  <2>7. CASE /\ run[p].seen = "absent"
             /\ NextIteration(p, "workspaces", run[p].known, TRUE, run[p].handed)
    BY <2>1, <2>6, <2>7, NextIterationFacts
  <2>8. CASE run[p].seen = "absent" /\ Proceed(p, "recheck", run[p])
    <3>1. Facts("recheck", run[p], call[p], dispatched[p])
      BY <2>1, <2>8 DEF LocalFacts
    <3> QED
      BY <2>8, <3>1, ProceedFacts
  <2>9. CASE run[p].seen = "absent" /\ Proceed(p, "fresh", [run[p] EXCEPT !.goal = "create"])
    <3> DEFINE r == [run[p] EXCEPT !.goal = "create"]
    <3>1. r.known = None /\ r.goal = "create"
      BY <1>1, <2>6, <2>9 DEF Locals
    <3>2. Facts("fresh", r, call[p], dispatched[p])
      BY <2>1, <2>6, <2>9, <3>1 DEF LocalFacts
    <3> QED
      BY <2>9, <3>2, ProceedFacts
  <2> QED
    BY <1>h, <2>2, <2>3, <2>4, <2>5, <2>7, <2>8, <2>9 DEF ReadWorkingTree
<1>i. CASE RecheckNoWorkspace(p)
  BY <1>i, <1>3, SendFacts DEF RecheckNoWorkspace
<1>j. CASE FindFreshWorkspace(p)
  <2>1. pc[p] = "fresh"
    BY <1>j DEF FindFreshWorkspace
  <2>2. Facts("broad", run[p], call[p], dispatched[p])
    BY <2>1 DEF LocalFacts
  <2> QED
    BY <1>j, <1>3, <2>1, <2>2, ProceedFacts DEF FindFreshWorkspace
<1>k. CASE InspectBeforeArchive(p)
  BY <1>k, <1>3, ExitFacts, SendFacts DEF InspectBeforeArchive
<1>l. CASE InspectAfterArchive(p)
  BY <1>l, <1>2, ExitFacts DEF InspectAfterArchive
<1>m. CASE ReceiveAnswer(p)
  <2>1. pc[p] = "call" /\ call'[p].op = "none" /\ dispatched'[p] = dispatched[p]
    BY <1>m DEF ReceiveAnswer, NoCall, TypeOK
  <2>2. CASE call[p].op = "workspace"
    <3>1. pc'[p] = "workspaces" /\ run'[p].known = run[p].known /\ run'[p].goal = "select"
      BY <1>m, <2>2 DEF ReceiveAnswer, Goto, Iteration, FreshRun, TypeOK
    <3> QED
      BY <2>1, <2>2, <3>1 DEF LocalFacts
  <2>3. CASE call[p].op = "run"
    <3>1. pc'[p] = "workspaces" /\ run'[p].known = call[p].session /\ run'[p].goal = "select"
      BY <1>m, <2>3 DEF ReceiveAnswer, Goto, Iteration, FreshRun, TypeOK
    <3>2. call[p].session # None
      BY <1>m, <2>3, NoneAssumption DEF ReceiveAnswer, LocalFacts
    <3> QED
      BY <2>1, <3>1, <3>2 DEF LocalFacts
  <2>4. CASE call[p].op = "archive"
    <3>1. pc'[p] = "after" /\ run'[p] = run[p]
      BY <1>m, <2>4 DEF ReceiveAnswer, Goto, TypeOK
    <3> QED
      BY <2>1, <2>4, <3>1 DEF LocalFacts
  <2> QED
    BY <1>m, <2>2, <2>3, <2>4 DEF ReceiveAnswer
<1>n. CASE CallFails(p)
  <2>1. CASE Obstacle(p)
    BY <1>2, <2>1
  <2>2. CASE call[p].op = "archive" /\ ~ Obstacle(p)
    <3>1. pc'[p] = "after" /\ run'[p] = run[p] /\ call'[p].op = "none" /\ dispatched'[p] = dispatched[p]
      BY <1>n, <2>2 DEF CallFails, Goto, NoCall, TypeOK
    <3> QED
      BY <2>2, <3>1 DEF LocalFacts
  <2> QED
    BY <1>n, <2>1, <2>2 DEF CallFails
<1>o. CASE WaitReturns(p) \/ WaitTimesOut(p) \/ PauseEnds(p)
  BY <1>o, <1>3 DEF WaitReturns, WaitTimesOut, PauseEnds
<1>p. CASE SourceFails(p)
  BY <1>p, <1>2 DEF SourceFails
<1>q. CASE Interrupt(p)
  BY <1>q, ExitFacts DEF Interrupt
<1> QED
  BY <1>a, <1>b, <1>c, <1>d, <1>e, <1>f, <1>g, <1>h, <1>i, <1>j, <1>k, <1>l, <1>m, <1>n,
     <1>o, <1>p, <1>q DEF CommandStep, Fault

\* The daemon's answer does not disturb them either.
LEMMA DaemonAnswersFacts ==
  ASSUME TypeOK, NEW p \in Processes, LocalFacts(p), DaemonAnswers(p)
  PROVE  LocalFacts(p)'
<1>1. /\ pc' = pc /\ run' = run /\ dispatched' = dispatched
      /\ call'[p].op = call[p].op
      /\ call'[p].op = "run" /\ call'[p].state = "done" => call'[p].session \in Sessions
  BY DEF TypeOK, Call, DaemonAnswers
<1> QED
  BY <1>1 DEF LocalFacts, Facts, CallIsAwaited, Targets, TargetIsSession, KnownIsTarget,
              CreatedIsKnown, ArchivesItsOwn

\* What another invocation or the daemon does for it leaves p alone.
LEMMA OthersLeaveAlone ==
  ASSUME TypeOK, NEW p \in Processes, NEW q \in Processes, p # q,
         CommandStep(q) \/ Fault(q) \/ AcquireChangeLock(q) \/ DaemonAnswers(q)
  PROVE  /\ pc'[p] = pc[p] /\ run'[p] = run[p] /\ call'[p] = call[p]
         /\ dispatched'[p] = dispatched[p] /\ outcome'[p] = outcome[p]
<1>1. CASE DaemonAnswers(q)
  BY <1>1 DEF DaemonAnswers, TypeOK
<1>2. ASSUME NEW kind, NEW s, Exit(q, kind, s)
      PROVE  /\ pc'[p] = pc[p] /\ run'[p] = run[p] /\ call'[p] = call[p]
             /\ dispatched'[p] = dispatched[p] /\ outcome'[p] = outcome[p]
  BY <1>2 DEF Exit, Goto, TypeOK
<1>3. ASSUME NEW place, NEW r, Proceed(q, place, r)
      PROVE  /\ pc'[p] = pc[p] /\ run'[p] = run[p] /\ call'[p] = call[p]
             /\ dispatched'[p] = dispatched[p] /\ outcome'[p] = outcome[p]
  BY <1>3 DEF Proceed, Goto, TypeOK
<1>4. ASSUME NEW place, NEW known, NEW prepared, NEW handed,
             NextIteration(q, place, known, prepared, handed)
      PROVE  /\ pc'[p] = pc[p] /\ run'[p] = run[p] /\ call'[p] = call[p]
             /\ dispatched'[p] = dispatched[p] /\ outcome'[p] = outcome[p]
  BY <1>4 DEF NextIteration, Goto, TypeOK
<1>5. ASSUME NEW op, NEW w, NEW s, Send(q, op, w, s)
      PROVE  /\ pc'[p] = pc[p] /\ run'[p] = run[p] /\ call'[p] = call[p]
             /\ dispatched'[p] = dispatched[p] /\ outcome'[p] = outcome[p]
  BY <1>5 DEF Send, Goto, TypeOK
<1>6. CASE AcquireChangeLock(q) \/ ReceiveAnswer(q) \/ (CallFails(q) /\ ~ Obstacle(q))
  BY <1>6 DEF AcquireChangeLock, ReceiveAnswer, CallFails, Goto, TypeOK
<1> QED
  BY <1>1, <1>2, <1>3, <1>4, <1>5, <1>6
     DEF CommandStep, Fault, FindActiveWorkspace, ListBroad, ListExact, InspectToSelect,
         InspectToCreate, InspectToArchive, ReadWorkingTree, RecheckNoWorkspace,
         FindFreshWorkspace, InspectBeforeArchive, InspectAfterArchive, CallFails, WaitReturns,
         PauseEnds, SourceFails, Interrupt, WaitTimesOut, Obstacle, ObservationChanged, HandToHuman

\* Late requests, agents and the user do not touch the command.
LEMMA WorldLeavesCommand ==
  ASSUME \/ \E c \in late : DaemonExecutesLate(c)
         \/ \E s \in Sessions : Agent(s)
         \/ User
  PROVE  UNCHANGED command
BY DEF DaemonExecutesLate, Agent, AgentStarts, AgentWrites, AgentStops, User, UserResumes,
       UserArchives, UserArchivesWorkspace, UserEdits, SessionBecomes

\* They hold of a run that was never started,
LEMMA InitFacts == Init => \A p \in Processes : LocalFacts(p)
BY DEF Init, FreshRun, NoCall, LocalFacts, Facts, CallIsAwaited, Targets, TargetIsSession,
       KnownIsTarget, CreatedIsKnown, ArchivesItsOwn

\* no step of the system disturbs them,
LEMMA FactsStep ==
  ASSUME TypeOK, \A q \in Processes : LocalFacts(q), [Next]_vars, NEW p \in Processes
  PROVE  LocalFacts(p)'
<1>1. CASE UNCHANGED command
  BY <1>1 DEF command, LocalFacts
<1>2. ASSUME NEW q \in Processes,
             CommandStep(q) \/ Fault(q) \/ AcquireChangeLock(q) \/ DaemonAnswers(q)
      PROVE  LocalFacts(p)'
  <2>1. CASE p = q
    BY <1>2, <2>1, CommandStepFacts, DaemonAnswersFacts
  <2>2. CASE p # q
    BY <1>2, <2>2, OthersLeaveAlone DEF LocalFacts
  <2> QED
    BY <2>1, <2>2
<1>3. CASE UNCHANGED vars
  BY <1>1, <1>3 DEF vars, command
<1> QED
  BY <1>1, <1>2, <1>3, WorldLeavesCommand DEF Next, Daemon

\* so they hold of every invocation at any time.
LEMMA FactsHold == Spec => [](\A p \in Processes : LocalFacts(p))
<1>1. TypeOK /\ (\A p \in Processes : LocalFacts(p)) /\ [Next]_vars
        => (\A p \in Processes : LocalFacts(p))'
  BY FactsStep
<1> QED
  BY <1>1, InitFacts, TypeCorrect, PTL DEF Spec

-----------------------------------------------------------------------------
(* The change lock.                                                        *)

\* A step of p that is not the start of a run is one of a running p; it keeps
\* p running under the lock or ends the run and gives the lock back.
LEMMA RunsOrEnds ==
  ASSUME TypeOK, NEW p \in Processes, CommandStep(p) \/ Fault(p)
  PROVE  /\ pc[p] # "off"
         /\ \/ owner' = owner /\ pc'[p] # "off"
            \/ owner' = None /\ pc'[p] = "off"
<1>1. ASSUME NEW kind, NEW s, Exit(p, kind, s)
      PROVE  owner' = None /\ pc'[p] = "off"
  BY <1>1 DEF Exit, Goto, TypeOK
<1>2. ASSUME NEW place \in Location \ {"off"}, NEW r, Proceed(p, place, r)
      PROVE  owner' = owner /\ pc'[p] # "off"
  BY <1>2 DEF Proceed, Goto, TypeOK
<1>3. ASSUME NEW place \in Location \ {"off"}, NEW known, NEW prepared, NEW handed,
             NextIteration(p, place, known, prepared, handed)
      PROVE  owner' = owner /\ pc'[p] # "off"
  BY <1>3 DEF NextIteration, Goto, TypeOK
<1>4. ASSUME NEW op, NEW w, NEW s, Send(p, op, w, s)
      PROVE  owner' = owner /\ pc'[p] # "off"
  BY <1>4 DEF Send, Goto, TypeOK
<1>5. CASE ReceiveAnswer(p) \/ (CallFails(p) /\ ~ Obstacle(p))
  BY <1>5 DEF ReceiveAnswer, CallFails, Goto, TypeOK
<1> QED
  BY <1>1, <1>2, <1>3, <1>4, <1>5
     DEF Location, CommandStep, Fault, FindActiveWorkspace, ListBroad, ListExact, InspectToSelect,
         InspectToCreate, InspectToArchive, ReadWorkingTree, RecheckNoWorkspace,
         FindFreshWorkspace, InspectBeforeArchive, InspectAfterArchive, CallFails, WaitReturns,
         PauseEnds, SourceFails, Interrupt, WaitTimesOut, Obstacle, ObservationChanged, HandToHuman

\* Nobody runs without the lock, and nobody else gets it.
LEMMA LockStep ==
  ASSUME TypeOK, OneCommandPerChange, [Next]_vars
  PROVE  OneCommandPerChange'
<1> SUFFICES ASSUME NEW p \in Processes
             PROVE  pc'[p] # "off" <=> owner' = p
  BY DEF OneCommandPerChange
<1>0. pc[p] # "off" <=> owner = p
  BY DEF OneCommandPerChange
<1>1. CASE UNCHANGED command
  BY <1>0, <1>1 DEF command
<1>2. ASSUME NEW q \in Processes, CommandStep(q) \/ Fault(q)
      PROVE  pc'[p] # "off" <=> owner' = p
  <2>1. pc[q] # "off" /\ owner = q
    BY <1>2, RunsOrEnds DEF OneCommandPerChange
  <2>2. CASE p = q
    BY <1>2, <2>1, <2>2, RunsOrEnds, NoneAssumption
  <2>3. CASE p # q
    BY <1>0, <1>2, <2>1, <2>3, RunsOrEnds, OthersLeaveAlone, NoneAssumption
  <2> QED
    BY <2>2, <2>3
<1>3. ASSUME NEW q \in Processes, AcquireChangeLock(q)
      PROVE  pc'[p] # "off" <=> owner' = p
  BY <1>0, <1>3, NoneAssumption DEF AcquireChangeLock, LockIsFree, Goto, TypeOK
<1>4. ASSUME NEW q \in Processes, DaemonAnswers(q)
      PROVE  pc'[p] # "off" <=> owner' = p
  BY <1>0, <1>4 DEF DaemonAnswers
<1>5. CASE UNCHANGED vars
  BY <1>1, <1>5 DEF vars, command
<1> QED
  BY <1>1, <1>2, <1>3, <1>4, <1>5, WorldLeavesCommand DEF Next, Daemon

LEMMA InitLock == Init => OneCommandPerChange
BY NoneAssumption DEF Init, OneCommandPerChange

\* At any time the holder of the change lock is the one running invocation.
THEOREM LockExcludes == Spec => []OneCommandPerChange
<1>1. TypeOK /\ OneCommandPerChange /\ [Next]_vars => OneCommandPerChange'
  BY LockStep
<1> QED
  BY <1>1, InitLock, TypeCorrect, PTL DEF Spec

\* The lock is taken only while it is free.
LEMMA LockIsTakenFree ==
  ASSUME TypeOK, [Next]_vars
  PROVE  owner = None \/ owner' \in {owner, None}
<1>1. ASSUME NEW p \in Processes, CommandStep(p) \/ Fault(p)
      PROVE  owner' \in {owner, None}
  BY <1>1, RunsOrEnds
<1>2. ASSUME NEW p \in Processes, AcquireChangeLock(p)
      PROVE  owner = None
  BY <1>2 DEF AcquireChangeLock, LockIsFree
<1>3. CASE (\E p \in Processes : DaemonAnswers(p)) \/ UNCHANGED command \/ UNCHANGED vars
  BY <1>3 DEF DaemonAnswers, command, vars
<1> QED BY <1>1, <1>2, <1>3, WorldLeavesCommand DEF Next, Daemon

\* While the lock is held exactly by the one invocation that runs, a lock that
\* is taken only while it is free moves as the abstract one.
LEMMA LockMoves ==
  ASSUME TypeOK, TypeOK', OneCommandPerChange, OneCommandPerChange',
         owner = None \/ owner' \in {owner, None}
  PROVE  [ReliedLock!Next]_(ReliedLock!lock)
<1> DEFINE AtWork == {p \in Processes : pc[p] # "off"}
<1> USE NoneAssumption
<1>1. /\ owner \in Processes \cup {None} /\ owner' \in Processes \cup {None}
      /\ \A p \in Processes : p \in AtWork <=> owner = p
      /\ \A p \in Processes : p \in AtWork' <=> owner' = p
  BY DEF TypeOK, OneCommandPerChange
<1>2. CASE owner' = owner
  <2>1. AtWork' = AtWork
    BY <1>1, <1>2
  <2> QED BY <1>2, <2>1 DEF ReliedLock!lock
<1>3. CASE owner = None /\ owner' # None
  <2>1. AtWork' = {owner'}
    BY <1>1, <1>3
  <2> QED BY <1>1, <1>3, <2>1 DEF ReliedLock!Next, ReliedLock!Take
<1>4. CASE owner # None /\ owner' = None
  <2>1. AtWork = {owner} /\ AtWork' = {}
    BY <1>1, <1>4
  <2> QED BY <1>1, <1>4, <2>1 DEF ReliedLock!Next, ReliedLock!Finish
<1> QED BY <1>2, <1>3, <1>4

\* The command asks nothing of the lock but what module ChangeLock promises.
THEOREM LockIsRelied == Spec => ReliedLock!Spec
<1>1. Init => ReliedLock!Init
  BY DEF Init, ReliedLock!Init
<1>2. /\ TypeOK /\ TypeOK'
      /\ OneCommandPerChange /\ OneCommandPerChange'
      /\ [Next]_vars
      => [ReliedLock!Next]_(ReliedLock!lock)
  BY LockIsTakenFree, LockMoves
<1> QED
  BY <1>1, <1>2, TypeCorrect, LockExcludes, PTL DEF Spec, ReliedLock!Spec

-----------------------------------------------------------------------------
(* What a run sends.                                                       *)

\* `run` is sent from the exact listing, on behalf of a creation, when there
\* is no session to be seen; `archive` is sent from the last inspection.
LEMMA SendsFrom ==
  ASSUME TypeOK, NEW p \in Processes,
         CommandStep(p) \/ Fault(p) \/ AcquireChangeLock(p) \/ DaemonAnswers(p),
         call'[p].op # call[p].op
  PROVE  /\ call'[p].op = "run" =>
              /\ pc[p] = "exact" /\ run[p].goal = "create" /\ run[p].broad = {}
              /\ UNCHANGED world
         /\ call'[p].op = "archive" => pc[p] = "before"
<1>1. NoCall.op = "none"
  BY DEF NoCall
<1>2. ASSUME NEW kind, NEW s, Exit(p, kind, s)
      PROVE  call'[p].op = "none"
  BY <1>1, <1>2 DEF Exit, TypeOK
<1>3. ASSUME NEW place, NEW r, Proceed(p, place, r)
      PROVE  call'[p].op = call[p].op
  BY <1>3 DEF Proceed, TypeOK
<1>4. ASSUME NEW place, NEW known, NEW prepared, NEW handed,
             NextIteration(p, place, known, prepared, handed)
      PROVE  call'[p].op = call[p].op
  BY <1>4 DEF NextIteration, TypeOK
<1>5. ASSUME NEW op, NEW w, NEW s, Send(p, op, w, s)
      PROVE  call'[p].op = op
  BY <1>5 DEF Send, TypeOK
<1>6. CASE ReceiveAnswer(p) \/ (CallFails(p) /\ ~ Obstacle(p))
  BY <1>1, <1>6 DEF ReceiveAnswer, CallFails, TypeOK
<1>7. CASE DaemonAnswers(p) \/ AcquireChangeLock(p)
  BY <1>7 DEF DaemonAnswers, AcquireChangeLock, TypeOK, Call
<1>8. CASE ListExact(p)
  <2>1. CASE /\ SameAgentSet(run[p].broad, OwnSessionsIn(run[p].ws)) /\ OwnSessionsIn(run[p].ws) = {}
             /\ run[p].goal = "create" /\ Send(p, "run", run[p].ws, None)
    BY <1>5, <1>8, <2>1 DEF ListExact, SameAgentSet
  <2> QED
    BY <1>2, <1>3, <1>4, <1>8, <2>1 DEF ListExact, Obstacle, ObservationChanged
<1> QED
  BY <1>2, <1>3, <1>4, <1>5, <1>6, <1>7, <1>8
     DEF CommandStep, Fault, FindActiveWorkspace, ListBroad, InspectToSelect,
         InspectToCreate, InspectToArchive, ReadWorkingTree, RecheckNoWorkspace,
         FindFreshWorkspace, InspectBeforeArchive, InspectAfterArchive, CallFails, WaitReturns,
         PauseEnds, SourceFails, Interrupt, WaitTimesOut, Obstacle, ObservationChanged, HandToHuman

\* Only steps of p and the daemon's answer to p change the command state of p.
LEMMA OnlyOwnSteps ==
  ASSUME TypeOK, [Next]_vars, NEW p \in Processes,
         ~ (CommandStep(p) \/ Fault(p) \/ AcquireChangeLock(p) \/ DaemonAnswers(p))
  PROVE  /\ pc'[p] = pc[p] /\ run'[p] = run[p] /\ call'[p] = call[p]
         /\ dispatched'[p] = dispatched[p] /\ outcome'[p] = outcome[p]
<1>1. CASE UNCHANGED command
  BY <1>1 DEF command
<1>2. CASE UNCHANGED vars
  BY <1>2 DEF vars
<1>3. ASSUME NEW q \in Processes,
             CommandStep(q) \/ Fault(q) \/ AcquireChangeLock(q) \/ DaemonAnswers(q)
      PROVE  /\ pc'[p] = pc[p] /\ run'[p] = run[p] /\ call'[p] = call[p]
             /\ dispatched'[p] = dispatched[p] /\ outcome'[p] = outcome[p]
  BY <1>3, OthersLeaveAlone
<1> QED
  BY <1>1, <1>2, <1>3, WorldLeavesCommand DEF Next, Daemon

\* Where `run` is sent nothing was sent before.
LEMMA SendsOnceStep ==
  ASSUME TypeOK, \A q \in Processes : LocalFacts(q), [Next]_vars, NEW p \in Processes,
         call[p].op # "run", call'[p].op = "run"
  PROVE  ~ dispatched[p]
<1>1. pc[p] = "exact" /\ run[p].goal = "create"
  BY SendsFrom, OnlyOwnSteps
<1> QED
  BY <1>1 DEF LocalFacts, Facts, CreatedIsKnown, KnownIsTarget

\* A run sends `paseo run` at most once.
THEOREM RunIsSentOnce == Spec => SendsRunOnce
<1>1. TypeOK /\ (\A p \in Processes : LocalFacts(p)) /\ [Next]_vars
        => [\A p \in Processes : call[p].op # "run" /\ call'[p].op = "run" => ~ dispatched[p]]_vars
  BY SendsOnceStep
<1> QED
  BY <1>1, TypeCorrect, FactsHold, PTL DEF Spec, SendsRunOnce

\* A run never archives the session it has handed to the user.
THEOREM HandedStaysOpen == Spec => HandedIsNotArchived
<1>1. TypeOK /\ (\A p \in Processes : LocalFacts(p)) /\ [Next]_vars
        => [\A p \in Processes : call[p].op # "archive" /\ call'[p].op = "archive" => ~ run[p].handed]_vars
  <2> SUFFICES ASSUME TypeOK, \A q \in Processes : LocalFacts(q), [Next]_vars, NEW p \in Processes,
                      call[p].op # "archive", call'[p].op = "archive"
               PROVE  ~ run[p].handed
    OBVIOUS
  <2>1. pc[p] = "before"
    BY SendsFrom, OnlyOwnSteps
  <2> QED
    BY <2>1 DEF LocalFacts, Facts, ArchivesItsOwn
<1> QED
  BY <1>1, TypeCorrect, FactsHold, PTL DEF Spec, HandedIsNotArchived

\* A step of p or the answer to it leaves the session that p knows.
LEMMA KnownStaysInStep ==
  ASSUME TypeOK, NEW p \in Processes, LocalFacts(p), run[p].known # None, pc'[p] # "off",
         CommandStep(p) \/ Fault(p) \/ AcquireChangeLock(p) \/ DaemonAnswers(p)
  PROVE  run'[p].known = run[p].known
<1>1. run[p] \in Locals
  BY DEF TypeOK
<1>2. /\ Targets(pc[p], run[p], call[p]) => run[p].target = run[p].known
      /\ call[p].op # "run"
      /\ pc[p] = "tree" => run[p].seen # "absent"
  BY DEF LocalFacts, Facts, KnownIsTarget
<1>3. ASSUME NEW kind, NEW s, Exit(p, kind, s)
      PROVE  FALSE
  BY <1>3 DEF Exit, Goto, TypeOK
<1>4. ASSUME NEW place, NEW r, Proceed(p, place, r)
      PROVE  run'[p] = r
  BY <1>4 DEF Proceed, TypeOK
<1>5. ASSUME NEW place, NEW prepared, NEW handed,
             NextIteration(p, place, run[p].known, prepared, handed)
      PROVE  run'[p].known = run[p].known
  BY <1>5 DEF NextIteration, Iteration, FreshRun, TypeOK
<1>6. ASSUME NEW op, NEW w, NEW s, Send(p, op, w, s)
      PROVE  run'[p] = run[p]
  BY <1>6 DEF Send
<1>7. CASE ReceiveAnswer(p)
  BY <1>2, <1>7 DEF ReceiveAnswer, Iteration, FreshRun, TypeOK
<1>8. CASE AcquireChangeLock(p) \/ DaemonAnswers(p) \/ CallFails(p)
  BY <1>3, <1>8 DEF AcquireChangeLock, DaemonAnswers, CallFails, Obstacle
<1>9. CASE FindActiveWorkspace(p) \/ ListBroad(p) \/ FindFreshWorkspace(p) \/ RecheckNoWorkspace(p)
  BY <1>1, <1>3, <1>4, <1>5, <1>6, <1>9
     DEF FindActiveWorkspace, ListBroad, FindFreshWorkspace, RecheckNoWorkspace, Obstacle,
         ObservationChanged, Locals
<1>10. CASE ListExact(p)
  BY <1>1, <1>3, <1>4, <1>5, <1>6, <1>10 DEF ListExact, Obstacle, ObservationChanged, Locals
<1>11. CASE InspectToSelect(p) \/ InspectToCreate(p) \/ InspectToArchive(p)
  <2>1. run[p].target = run[p].known
    BY <1>2, <1>11 DEF InspectToSelect, InspectToCreate, InspectToArchive, Targets
  <2> QED
    BY <1>1, <1>3, <1>4, <1>5, <1>11, <2>1
       DEF InspectToSelect, InspectToCreate, InspectToArchive, HandToHuman, Obstacle,
           ObservationChanged, Locals
<1>12. CASE ReadWorkingTree(p)
  <2>1. run[p].target = run[p].known /\ run[p].seen # "absent"
    BY <1>2, <1>12 DEF ReadWorkingTree, Targets
  <2> QED
    BY <1>1, <1>3, <1>4, <1>5, <1>12, <2>1 DEF ReadWorkingTree, HandToHuman, Locals
<1>13. CASE InspectBeforeArchive(p) \/ InspectAfterArchive(p) \/ Fault(p) \/ WaitReturns(p) \/ PauseEnds(p)
  BY <1>3, <1>5, <1>6, <1>13
     DEF InspectBeforeArchive, InspectAfterArchive, Fault, SourceFails, Interrupt, WaitTimesOut,
         WaitReturns, PauseEnds, Obstacle, ObservationChanged
<1> QED
  BY <1>7, <1>8, <1>9, <1>10, <1>11, <1>12, <1>13 DEF CommandStep

LEMMA KnownStep ==
  ASSUME TypeOK, \A q \in Processes : LocalFacts(q), [Next]_vars, NEW p \in Processes,
         run[p].known # None, pc'[p] # "off"
  PROVE  run'[p].known = run[p].known
BY KnownStaysInStep, OnlyOwnSteps

\* While a session is known it stays the same until the run ends.
THEOREM KnownStays == Spec => KnownSessionIsKept
<1>1. TypeOK /\ (\A p \in Processes : LocalFacts(p)) /\ [Next]_vars
        => [\A p \in Processes :
              run[p].known # None /\ pc'[p] # "off" => run'[p].known = run[p].known]_vars
  BY KnownStep
<1> QED
  BY <1>1, TypeCorrect, FactsHold, PTL DEF Spec, KnownSessionIsKept

-----------------------------------------------------------------------------
(* At most one active session.                                             *)

\* The inductive invariant, second part.  Unless a creation was lost: the
\* answer to the broad filter covers every active session until the exact
\* filter is compared with it, and a `run` in flight has none beside it.
OneAtATime ==
  ~ lost =>
    /\ \A s, t \in OwnSessions : s = t
    /\ \A c \in late : c.op # "run"
    /\ \A p \in Processes :
         /\ pc[p] = "exact" => OwnSessions \subseteq run[p].broad
         /\ call[p].op = "run" /\ call[p].state = "sent" => OwnSessions = {}

\* Nothing but a creation brings an active session into being.
LEMMA OnlyRunCreates ==
  ASSUME TypeOK,
         \/ \E c \in late : c.op # "run" /\ DaemonExecutesLate(c)
         \/ \E p \in Processes : call[p].op # "run" /\ DaemonAnswers(p)
         \/ \E s \in Sessions : Agent(s)
         \/ User
  PROVE  OwnSessions' \subseteq OwnSessions
<1>1. ASSUME NEW s, ArchiveSession(s)
      PROVE  OwnSessions' \subseteq OwnSessions
  BY <1>1 DEF ArchiveSession, OwnSessions, TypeOK, Working
<1>2. ASSUME UNCHANGED session
      PROVE  OwnSessions' \subseteq OwnSessions
  BY <1>2 DEF OwnSessions
<1>3. ASSUME NEW s, NEW from, NEW to, SessionBecomes(s, from, to), "absent" \notin from, "archived" \notin from
      PROVE  OwnSessions' \subseteq OwnSessions
  BY <1>3 DEF SessionBecomes, OwnSessions, TypeOK
<1>4. CASE \E c \in late : c.op # "run" /\ DaemonExecutesLate(c)
  BY <1>1, <1>2, <1>4 DEF DaemonExecutesLate, CreateWorkspace
<1>5. CASE \E p \in Processes : call[p].op # "run" /\ DaemonAnswers(p)
  BY <1>1, <1>2, <1>5 DEF DaemonAnswers, CreateWorkspace
<1>6. CASE \E s \in Sessions : Agent(s)
  BY <1>2, <1>3, <1>6 DEF Agent, AgentStarts, AgentWrites, AgentStops
<1>7. CASE User
  BY <1>2, <1>3, <1>7 DEF User, UserResumes, UserArchives, UserArchivesWorkspace, UserEdits, SessionState
<1> QED
  BY <1>4, <1>5, <1>6, <1>7

\* A step of an invocation changes no session; unless it loses a creation it
\* leaves none to the daemon.
LEMMA CommandLeavesSessions ==
  ASSUME TypeOK, NEW p \in Processes, CommandStep(p) \/ Fault(p) \/ AcquireChangeLock(p)
  PROVE  /\ session' = session
         /\ ~ lost' => ~ lost /\ \A c \in late' \ late : c.op # "run"
<1>1. ASSUME UNCHANGED world
      PROVE  session' = session /\ (~ lost' => ~ lost /\ \A c \in late' \ late : c.op # "run")
  BY <1>1 DEF world
<1>2. ASSUME Abandon(p)
      PROVE  session' = session /\ (~ lost' => ~ lost /\ \A c \in late' \ late : c.op # "run")
  BY <1>2 DEF Abandon, TypeOK
<1> QED
  BY <1>1, <1>2
     DEF CommandStep, Fault, AcquireChangeLock, FindActiveWorkspace, ListBroad, ListExact,
         InspectToSelect, InspectToCreate, InspectToArchive, ReadWorkingTree, RecheckNoWorkspace,
         FindFreshWorkspace, InspectBeforeArchive, InspectAfterArchive, ReceiveAnswer, CallFails,
         WaitReturns, PauseEnds, SourceFails, Interrupt, WaitTimesOut

\* The exact listing is only ever compared with a broad one.
LEMMA ExactAfterBroad ==
  ASSUME TypeOK, NEW p \in Processes, CommandStep(p) \/ Fault(p) \/ AcquireChangeLock(p),
         pc'[p] = "exact"
  PROVE  run'[p].broad = OwnSessions
<1>1. ASSUME NEW kind, NEW s, Exit(p, kind, s)
      PROVE  FALSE
  BY <1>1 DEF Exit, Goto, TypeOK
<1>2. ASSUME NEW place \in Location \ {"exact"}, NEW r, Proceed(p, place, r)
      PROVE  FALSE
  BY <1>2 DEF Proceed, Goto, TypeOK
<1>3. ASSUME NEW place \in Location \ {"exact"}, NEW known, NEW prepared, NEW handed,
             NextIteration(p, place, known, prepared, handed)
      PROVE  FALSE
  BY <1>3 DEF NextIteration, Goto, TypeOK
<1>4. ASSUME NEW op, NEW w, NEW s, Send(p, op, w, s)
      PROVE  FALSE
  BY <1>4 DEF Send, Goto, TypeOK
<1>5. CASE ReceiveAnswer(p) \/ (CallFails(p) /\ ~ Obstacle(p)) \/ AcquireChangeLock(p)
  BY <1>5 DEF ReceiveAnswer, CallFails, AcquireChangeLock, Goto, TypeOK
<1>6. CASE ListBroad(p)
  <2>1. run'[p] = [run[p] EXCEPT !.broad = OwnSessions]
    BY <1>6 DEF ListBroad, Proceed, TypeOK
  <2>2. run[p] \in Locals
    BY DEF TypeOK
  <2> QED
    BY <2>1, <2>2 DEF Locals
<1> QED
  BY <1>1, <1>2, <1>3, <1>4, <1>5, <1>6
     DEF Location, CommandStep, Fault, FindActiveWorkspace, ListExact, InspectToSelect,
         InspectToCreate, InspectToArchive, ReadWorkingTree, RecheckNoWorkspace,
         FindFreshWorkspace, InspectBeforeArchive, InspectAfterArchive, CallFails, WaitReturns,
         PauseEnds, SourceFails, Interrupt, WaitTimesOut, Obstacle, ObservationChanged, HandToHuman

\* OneAtATime is inductive, given the facts above.
LEMMA OneAtATimeStep ==
  ASSUME TypeOK, \A p \in Processes : LocalFacts(p), OneCommandPerChange, OneAtATime, [Next]_vars
  PROVE  OneAtATime'
<1>1. \A p \in Processes : call[p].op = "run" => pc[p] = "call"
  BY DEF LocalFacts, Facts, CallIsAwaited
<1>2. CASE UNCHANGED vars
  BY <1>2 DEF vars, OneAtATime, OwnSessions
<1>3. ASSUME NEW q \in Processes, CommandStep(q) \/ Fault(q) \/ AcquireChangeLock(q), ~ lost'
      PROVE  OneAtATime'
  <2>1. /\ OwnSessions' = OwnSessions
        /\ ~ lost
        /\ \A c \in late' \ late : c.op # "run"
    BY <1>3, CommandLeavesSessions DEF OwnSessions
  <2>2. ASSUME NEW p \in Processes
        PROVE  /\ pc'[p] = "exact" => OwnSessions \subseteq run'[p].broad
               /\ call'[p].op = "run" /\ call'[p].state = "sent" => OwnSessions = {}
    <3>1. CASE p # q
      <4>1. pc'[p] = pc[p] /\ run'[p] = run[p] /\ call'[p] = call[p]
        BY <1>3, <3>1, OthersLeaveAlone
      <4> QED
        BY <2>1, <4>1 DEF OneAtATime
    <3>2. CASE p = q
      <4>1. pc'[p] = "exact" => OwnSessions \subseteq run'[p].broad
        BY <1>3, <3>2, ExactAfterBroad
      <4>2. CASE call'[p].op # call[p].op
        <5>1. call'[p].op = "run" => pc[p] = "exact" /\ run[p].broad = {}
          BY <1>3, <3>2, <4>2, SendsFrom
        <5> QED
          BY <2>1, <4>1, <5>1 DEF OneAtATime
      <4>3. CASE call'[p].op = call[p].op /\ call[p].op = "run"
        <5>1. pc[p] = "call"
          BY <1>1, <4>3
        <5>2. CASE call'[p] = call[p]
          BY <2>1, <4>1, <5>2 DEF OneAtATime
        <5>3. CASE call'[p] # call[p]
          <6>1. call'[p] = NoCall
            BY <1>3, <3>2, <5>1, <5>3
               DEF CommandStep, Fault, AcquireChangeLock, FindActiveWorkspace, ListBroad, ListExact,
                   InspectToSelect, InspectToCreate, InspectToArchive, ReadWorkingTree,
                   RecheckNoWorkspace, FindFreshWorkspace, InspectBeforeArchive, InspectAfterArchive,
                   ReceiveAnswer, CallFails, WaitReturns, PauseEnds, SourceFails, Interrupt,
                   WaitTimesOut, Obstacle, Exit, TypeOK
          <6> QED
            BY <4>3, <6>1 DEF NoCall
        <5> QED
          BY <5>2, <5>3
      <4> QED
        BY <4>1, <4>2, <4>3
    <3> QED
      BY <3>1, <3>2
  <2> QED
    BY <2>1, <2>2 DEF OneAtATime
<1>4. ASSUME NEW q \in Processes, call[q].op = "run", DaemonAnswers(q), ~ lost
      PROVE  OneAtATime'
  <2>1. owner = q /\ pc[q] = "call"
    BY <1>1, <1>4 DEF OneCommandPerChange
  <2>2. OwnSessions = {}
    BY <1>4 DEF DaemonAnswers, OneAtATime
  <2>3. PICK s \in Sessions : RunSession(s, call[q].ws)
    BY <1>4 DEF DaemonAnswers
  <2>4. OwnSessions' \subseteq {s}
    BY <2>2, <2>3 DEF RunSession, OwnSessions, TypeOK
  <2>5. pc' = pc /\ run' = run /\ late' = late
    BY <1>4 DEF DaemonAnswers
  <2>6. \A p \in Processes : pc[p] # "exact"
    BY <2>1 DEF OneCommandPerChange
  <2>7. \A p \in Processes : ~ (call'[p].op = "run" /\ call'[p].state = "sent")
    BY <1>1, <1>4, <2>1, OthersLeaveAlone DEF DaemonAnswers, OneCommandPerChange, TypeOK, Call
  <2> QED
    BY <1>4, <2>4, <2>5, <2>6, <2>7 DEF OneAtATime
<1>5. ASSUME ~ lost,
             \/ \E c \in late : c.op # "run" /\ DaemonExecutesLate(c)
             \/ \E p \in Processes : call[p].op # "run" /\ DaemonAnswers(p)
             \/ \E s \in Sessions : Agent(s)
             \/ User
      PROVE  OneAtATime'
  <2>1. OwnSessions' \subseteq OwnSessions
    BY <1>5, OnlyRunCreates
  <2>2. late' \subseteq late /\ pc' = pc /\ run' = run
    BY <1>5 DEF DaemonExecutesLate, DaemonAnswers, Agent, AgentStarts, AgentWrites, AgentStops,
                User, UserResumes, UserArchives, UserArchivesWorkspace, UserEdits, SessionBecomes, command
  <2>3. \A p \in Processes : call'[p].op = "run" => call'[p] = call[p]
    <3>1. CASE \E q \in Processes : call[q].op # "run" /\ DaemonAnswers(q)
      BY <3>1 DEF DaemonAnswers, TypeOK, Call
    <3>2. CASE UNCHANGED command
      BY <3>2 DEF command
    <3> QED
      BY <1>5, <3>1, <3>2, WorldLeavesCommand
  <2> QED
    BY <1>5, <2>1, <2>2, <2>3 DEF OneAtATime
<1>6. lost => lost'
  <2>1. CASE \E q \in Processes : CommandStep(q) \/ Fault(q) \/ AcquireChangeLock(q)
    BY <2>1, CommandLeavesSessions
  <2> QED
    BY <1>2, <2>1 DEF Next, vars, Daemon, DaemonExecutesLate, DaemonAnswers, Agent, AgentStarts,
       AgentWrites, AgentStops, User, UserResumes, UserArchives, UserArchivesWorkspace, UserEdits, SessionBecomes
<1>7. CASE lost'
  BY <1>7 DEF OneAtATime
<1> QED
  BY <1>2, <1>3, <1>4, <1>5, <1>6, <1>7 DEF Next, Daemon, OneAtATime

LEMMA InitOneAtATime == Init => OneAtATime
BY DEF Init, OneAtATime, OwnSessions, NoCall

\* One session at a time, from the start to the end.
LEMMA OneAtATimeHolds == Spec => []OneAtATime
<1>1. /\ TypeOK /\ (\A p \in Processes : LocalFacts(p)) /\ OneCommandPerChange /\ OneAtATime
      /\ [Next]_vars
      => OneAtATime'
  BY OneAtATimeStep
<1> QED
  BY <1>1, InitOneAtATime, TypeCorrect, FactsHold, LockExcludes, PTL DEF Spec

\* As long as no creation was lost, a change has at most one active session.
THEOREM AtMostOneSession == Spec => []OneAssignment
<1>1. OneAtATime => OneAssignment
  BY DEF OneAtATime, OneAssignment
<1> QED
  BY <1>1, OneAtATimeHolds, PTL

-----------------------------------------------------------------------------
(* Success.                                                                *)

\* A closed session that waits for the reading of Git is closed for good.
ClosedIsArchived ==
  \A p \in Processes :
    pc[p] = "tree" /\ run[p].seen = "closed" => session[run[p].target] = "archived"

\* An archived session never comes back.
LEMMA ArchivedStays ==
  ASSUME TypeOK, [Next]_vars, NEW s \in Sessions, session[s] = "archived"
  PROVE  session'[s] = "archived"
<1>1. CASE session' = session
  BY <1>1
<1>2. ASSUME NEW t, ArchiveSession(t)
      PROVE  session'[s] = "archived"
  BY <1>2 DEF ArchiveSession, TypeOK
<1>3. ASSUME NEW t, NEW w, RunSession(t, w)
      PROVE  session'[s] = "archived"
  BY <1>3 DEF RunSession, TypeOK
<1>4. ASSUME NEW t, NEW from, NEW to, "archived" \notin from, SessionBecomes(t, from, to)
      PROVE  session'[s] = "archived"
  BY <1>4 DEF SessionBecomes, TypeOK
<1>5. CASE \E p \in Processes : CommandStep(p) \/ Fault(p) \/ AcquireChangeLock(p)
  BY <1>1, <1>5, CommandLeavesSessions
<1>6. CASE Daemon
  BY <1>1, <1>2, <1>3, <1>6 DEF Daemon, DaemonAnswers, DaemonExecutesLate, CreateWorkspace
<1>7. CASE (\E t \in Sessions : Agent(t)) \/ User
  BY <1>1, <1>4, <1>7 DEF Agent, AgentStarts, AgentWrites, AgentStops, User, UserResumes,
     UserArchives, UserArchivesWorkspace, UserEdits, SessionState
<1> QED
  BY <1>1, <1>5, <1>6, <1>7 DEF Next, vars

\* Only an inspection that finds its target archived carries it to Git as
\* closed,
LEMMA ClosedWhenSeen ==
  ASSUME TypeOK, NEW p \in Processes, CommandStep(p) \/ Fault(p) \/ AcquireChangeLock(p),
         pc'[p] = "tree", run'[p].seen = "closed"
  PROVE  session[run'[p].target] = "archived"
<1>1. ASSUME NEW kind, NEW s, Exit(p, kind, s)
      PROVE  FALSE
  BY <1>1 DEF Exit, Goto, TypeOK
<1>2. ASSUME NEW place \in Location \ {"tree"}, NEW r, Proceed(p, place, r)
      PROVE  FALSE
  BY <1>2 DEF Proceed, Goto, TypeOK
<1>3. ASSUME NEW place \in Location \ {"tree"}, NEW known, NEW prepared, NEW handed,
             NextIteration(p, place, known, prepared, handed)
      PROVE  FALSE
  BY <1>3 DEF NextIteration, Goto, TypeOK
<1>4. ASSUME NEW op, NEW w, NEW s, Send(p, op, w, s)
      PROVE  FALSE
  BY <1>4 DEF Send, Goto, TypeOK
<1>5. CASE ReceiveAnswer(p) \/ (CallFails(p) /\ ~ Obstacle(p)) \/ AcquireChangeLock(p)
  BY <1>5 DEF ReceiveAnswer, CallFails, AcquireChangeLock, Goto, TypeOK
<1>6. run[p] \in Locals
  BY DEF TypeOK
<1>7. CASE FindActiveWorkspace(p)
  <2>1. CASE Proceed(p, "tree", [run[p] EXCEPT !.seen = "absent", !.ws = None])
    BY <1>6, <2>1 DEF Proceed, TypeOK, Locals
  <2> QED
    BY <1>1, <1>2, <1>7, <2>1 DEF FindActiveWorkspace, Obstacle, Location
<1>8. CASE ListExact(p)
  <2>1. CASE Proceed(p, "tree", [run[p] EXCEPT !.seen = "absent"])
    BY <1>6, <2>1 DEF Proceed, TypeOK, Locals
  <2> QED
    BY <1>1, <1>2, <1>3, <1>4, <1>8, <2>1 DEF ListExact, Obstacle, ObservationChanged, Location
<1>9. CASE InspectToSelect(p)
  <2>1. CASE Proceed(p, "tree", [run[p] EXCEPT !.seen = "finished"])
    BY <1>6, <2>1 DEF Proceed, TypeOK, Locals
  <2>2. CASE session[run[p].target] = "archived" /\ Proceed(p, "tree", [run[p] EXCEPT !.seen = "closed"])
    BY <1>6, <2>2 DEF Proceed, TypeOK, Locals
  <2> QED
    BY <1>1, <1>3, <1>9, <2>1, <2>2 DEF InspectToSelect, HandToHuman, Obstacle, Location
<1> QED
  BY <1>1, <1>2, <1>3, <1>4, <1>5, <1>7, <1>8, <1>9
     DEF Location, CommandStep, Fault, ListBroad, InspectToCreate, InspectToArchive,
         ReadWorkingTree, RecheckNoWorkspace, FindFreshWorkspace, InspectBeforeArchive,
         InspectAfterArchive, CallFails, WaitReturns, PauseEnds, SourceFails, Interrupt,
         WaitTimesOut, Obstacle, ObservationChanged, HandToHuman

\* and success is only reported of an archived session.
LEMMA CompletedWhenArchived ==
  ASSUME TypeOK, NEW p \in Processes, LocalFacts(p), ClosedIsArchived,
         CommandStep(p) \/ Fault(p) \/ AcquireChangeLock(p),
         outcome'[p] # outcome[p], outcome'[p].kind = "completed"
  PROVE  outcome'[p].session \in Sessions /\ session[outcome'[p].session] = "archived"
<1> DEFINE Goal == outcome'[p].session \in Sessions /\ session[outcome'[p].session] = "archived"
<1>1. ASSUME NEW kind, kind # "completed", NEW s, Exit(p, kind, s)
      PROVE  Goal
  BY <1>1 DEF Exit, TypeOK
<1>2. ASSUME NEW s \in Sessions, session[s] = "archived", Exit(p, "completed", s)
      PROVE  Goal
  BY <1>2 DEF Exit, TypeOK
<1>3. CASE outcome' = outcome
  BY <1>3
<1>4. CASE AcquireChangeLock(p)
  BY <1>4 DEF AcquireChangeLock, NoOutcome, TypeOK
<1>5. Targets(pc[p], run[p], call[p]) => run[p].target \in Sessions
  BY DEF LocalFacts, Facts, TargetIsSession
<1>6. CASE ReadWorkingTree(p)
  <2>1. pc[p] = "tree" /\ (run[p].seen = "closed" =>
            run[p].target \in Sessions /\ session[run[p].target] = "archived")
    BY <1>5, <1>6 DEF ReadWorkingTree, ClosedIsArchived, Targets
  <2> QED
    BY <1>1, <1>2, <1>3, <1>6, <2>1
       DEF ReadWorkingTree, HandToHuman, NextIteration, Proceed
<1>7. CASE InspectToArchive(p) \/ InspectBeforeArchive(p) \/ InspectAfterArchive(p)
  <2>1. run[p].target \in Sessions
    BY <1>5, <1>7 DEF InspectToArchive, InspectBeforeArchive, InspectAfterArchive, Targets
  <2> QED
    BY <1>1, <1>2, <1>3, <1>7, <2>1
       DEF InspectToArchive, InspectBeforeArchive, InspectAfterArchive, Obstacle,
           ObservationChanged, NextIteration, Proceed, Send
<1> QED
  BY <1>1, <1>3, <1>4, <1>6, <1>7
     DEF CommandStep, Fault, FindActiveWorkspace, ListBroad, ListExact, InspectToSelect,
         InspectToCreate, RecheckNoWorkspace, FindFreshWorkspace, ReceiveAnswer, CallFails,
         WaitReturns, PauseEnds, SourceFails, Interrupt, WaitTimesOut, Obstacle,
         ObservationChanged, HandToHuman, NextIteration, Proceed, Send

\* No step makes the observation false while Git is read.
LEMMA ClosedStep ==
  ASSUME TypeOK, \A p \in Processes : LocalFacts(p), ClosedIsArchived, [Next]_vars
  PROVE  ClosedIsArchived'
<1> SUFFICES ASSUME NEW p \in Processes, pc'[p] = "tree", run'[p].seen = "closed"
             PROVE  session'[run'[p].target] = "archived"
  BY DEF ClosedIsArchived
<1>1. CASE CommandStep(p) \/ Fault(p) \/ AcquireChangeLock(p)
  BY <1>1, CommandLeavesSessions, ClosedWhenSeen
<1>2. CASE ~ (CommandStep(p) \/ Fault(p) \/ AcquireChangeLock(p))
  <2>1. pc'[p] = pc[p] /\ run'[p] = run[p]
    BY <1>2, OnlyOwnSteps DEF DaemonAnswers
  <2>2. run[p].target \in Sessions
    BY <2>1 DEF LocalFacts, Facts, TargetIsSession, Targets
  <2> QED BY <2>1, <2>2, ArchivedStays DEF ClosedIsArchived
<1> QED BY <1>1, <1>2

LEMMA ClosedHolds == Spec => []ClosedIsArchived
<1>1. Init => ClosedIsArchived
  BY DEF Init, ClosedIsArchived
<1>2. /\ TypeOK /\ (\A p \in Processes : LocalFacts(p)) /\ ClosedIsArchived /\ [Next]_vars
      => ClosedIsArchived'
  BY ClosedStep
<1> QED
  BY <1>1, <1>2, TypeCorrect, FactsHold, PTL DEF Spec

\* What success was reported of stays archived.
LEMMA CompletedStep ==
  ASSUME TypeOK, \A p \in Processes : LocalFacts(p), ClosedIsArchived,
         CompletedIsArchived, [Next]_vars
  PROVE  CompletedIsArchived'
<1> SUFFICES ASSUME NEW p \in Processes, outcome'[p].kind = "completed"
             PROVE  /\ outcome'[p].session \in Sessions
                    /\ session'[outcome'[p].session] = "archived"
  BY DEF CompletedIsArchived
<1>1. CASE CommandStep(p) \/ Fault(p) \/ AcquireChangeLock(p)
  <2>1. session' = session
    BY <1>1, CommandLeavesSessions
  <2> QED
    BY <1>1, <2>1, CompletedWhenArchived DEF CompletedIsArchived
<1>2. CASE ~ (CommandStep(p) \/ Fault(p) \/ AcquireChangeLock(p))
  <2>1. outcome'[p] = outcome[p]
    BY <1>2, OnlyOwnSteps DEF DaemonAnswers
  <2> QED
    BY <2>1, ArchivedStays DEF CompletedIsArchived
<1> QED
  BY <1>1, <1>2

LEMMA InitCompleted == Init => CompletedIsArchived
BY DEF Init, CompletedIsArchived, NoOutcome

\* Success always speaks of a session that is archived for certain.
THEOREM SuccessIsArchived == Spec => []CompletedIsArchived
<1>1. /\ TypeOK /\ (\A p \in Processes : LocalFacts(p)) /\ ClosedIsArchived /\ CompletedIsArchived
      /\ [Next]_vars
      => CompletedIsArchived'
  BY CompletedStep
<1> QED
  BY <1>1, InitCompleted, TypeCorrect, FactsHold, ClosedHolds, PTL DEF Spec

-----------------------------------------------------------------------------
(* Whatever is named exists.                                               *)

Exists(s) == s \in Sessions /\ session[s] # "absent"

\* The sessions invocation p knows, looks at, asks to archive or is told of.
Names(place, r, c) ==
  /\ r.known # None => Exists(r.known)
  /\ Targets(place, r, c) => Exists(r.target)
  /\ c.op = "archive" => Exists(c.session)
  /\ c.op = "run" /\ c.state = "done" => Exists(c.session)

NamesExist(p) == Names(pc[p], run[p], call[p])

LateNamesExist == \A c \in late : c.op = "archive" => Exists(c.session)

\* A session that exists goes on existing, active or archived.
LEMMA ExistenceStays ==
  ASSUME TypeOK, [Next]_vars, NEW s, Exists(s)
  PROVE  Exists(s)'
<1>1. CASE session' = session
  BY <1>1 DEF Exists
<1>2. ASSUME NEW t, ArchiveSession(t)
      PROVE  Exists(s)'
  BY <1>2 DEF ArchiveSession, Exists, TypeOK
<1>3. ASSUME NEW t, NEW w, RunSession(t, w)
      PROVE  Exists(s)'
  BY <1>3 DEF RunSession, Exists, TypeOK
<1>4. ASSUME NEW t, NEW from, NEW to, to # "absent", SessionBecomes(t, from, to)
      PROVE  Exists(s)'
  BY <1>4 DEF SessionBecomes, Exists, TypeOK
<1>5. CASE \E p \in Processes : CommandStep(p) \/ Fault(p) \/ AcquireChangeLock(p)
  BY <1>1, <1>5, CommandLeavesSessions
<1>6. CASE Daemon
  BY <1>1, <1>2, <1>3, <1>6 DEF Daemon, DaemonAnswers, DaemonExecutesLate, CreateWorkspace
<1>7. CASE (\E t \in Sessions : Agent(t)) \/ User
  BY <1>1, <1>4, <1>7 DEF Agent, AgentStarts, AgentWrites, AgentStops, User, UserResumes,
     UserArchives, UserArchivesWorkspace, UserEdits
<1> QED
  BY <1>1, <1>5, <1>6, <1>7 DEF Next, vars

\* A run that has ended names nothing.
LEMMA ExitNames ==
  ASSUME TypeOK, NEW p \in Processes, NEW kind, NEW s, Exit(p, kind, s)
  PROVE  NamesExist(p)'
BY DEF TypeOK, Exit, Goto, FreshRun, NoCall, NamesExist, Names, Targets

\* What a move within an iteration names is named by its new locals;
LEMMA ProceedNames ==
  ASSUME TypeOK, NEW p \in Processes, NEW place, NEW r,
         Names(place, r, call[p]), Proceed(p, place, r), session' = session
  PROVE  NamesExist(p)'
<1>1. pc'[p] = place /\ run'[p] = r /\ call'[p] = call[p]
  BY DEF TypeOK, Proceed, Goto
<1> QED
  BY <1>1 DEF NamesExist, Names, Exists

\* a new iteration names the known session only.
LEMMA NextIterationNames ==
  ASSUME TypeOK, NEW p \in Processes, NEW place \in {"workspaces", "wait", "pause"},
         NEW known, NEW prepared, NEW handed,
         call[p].op = "none", known # None => Exists(known),
         NextIteration(p, place, known, prepared, handed), session' = session
  PROVE  NamesExist(p)'
<1>1. pc'[p] = place /\ call'[p].op = "none" /\ run'[p] = Iteration(known, prepared, handed)
  BY DEF TypeOK, NextIteration, Goto
<1>2. run'[p].known = known
  BY <1>1 DEF Iteration, FreshRun
<1> QED
  BY <1>1, <1>2 DEF NamesExist, Names, Targets, Exists

LEMMA ObservationChangedNames ==
  ASSUME TypeOK, NEW p \in Processes, NamesExist(p), call[p].op = "none",
         ObservationChanged(p), session' = session
  PROVE  NamesExist(p)'
BY NextIterationNames DEF ObservationChanged, NamesExist, Names

LEMMA HandToHumanNames ==
  ASSUME TypeOK, NEW p \in Processes, NamesExist(p), call[p].op = "none",
         Targets(pc[p], run[p], call[p]), HandToHuman(p), session' = session
  PROVE  NamesExist(p)'
BY NextIterationNames DEF HandToHuman, NamesExist, Names

\* A command that is sent names what its run looks at.
LEMMA SendNames ==
  ASSUME TypeOK, NEW p \in Processes, NamesExist(p), NEW op, NEW w, NEW s,
         Send(p, op, w, s), session' = session,
         op = "archive" => s = run[p].target /\ Targets(pc[p], run[p], call[p])
  PROVE  NamesExist(p)'
<1>1. /\ pc'[p] = "call" /\ run'[p] = run[p]
      /\ call'[p].op = op /\ call'[p].state = "sent" /\ call'[p].session = s
  BY DEF TypeOK, Send, Goto
<1> QED
  BY <1>1 DEF NamesExist, Names, Targets, Exists

\* No step of p makes it name a session that does not exist.
LEMMA CommandStepNames ==
  ASSUME TypeOK, NEW p \in Processes, LocalFacts(p), NamesExist(p),
         CommandStep(p) \/ Fault(p) \/ AcquireChangeLock(p)
  PROVE  NamesExist(p)'
<1>1. run[p] \in Locals /\ call[p] \in Call /\ session' = session
  BY CommandLeavesSessions DEF TypeOK
<1>2. pc[p] # "call" => call[p].op = "none"
  BY DEF LocalFacts, Facts, CallIsAwaited
<1>3. Obstacle(p) => NamesExist(p)'
  BY ExitNames DEF Obstacle
<1>4. pc[p] # "call" /\ ObservationChanged(p) => NamesExist(p)'
  BY <1>1, <1>2, ObservationChangedNames
<1>5. Targets(pc[p], run[p], call[p]) /\ pc[p] # "call" /\ HandToHuman(p) => NamesExist(p)'
  BY <1>1, <1>2, HandToHumanNames
<1>6. run[p].known # None => Exists(run[p].known)
  BY DEF NamesExist, Names
<1>a. CASE AcquireChangeLock(p)
  <2>1. pc'[p] = "workspaces" /\ run'[p] = run[p] /\ call'[p] = call[p] /\ call[p].op = "none"
    BY <1>2, <1>a DEF AcquireChangeLock, Goto, TypeOK
  <2> QED BY <1>1, <2>1 DEF NamesExist, Names, Targets, Exists
<1>b. CASE FindActiveWorkspace(p)
  <2>1. pc[p] = "workspaces" /\ call[p].op = "none"
    BY <1>2, <1>b DEF FindActiveWorkspace
  <2>2. CASE Proceed(p, "tree", [run[p] EXCEPT !.seen = "absent", !.ws = None])
    <3> DEFINE r == [run[p] EXCEPT !.seen = "absent", !.ws = None]
    <3>1. r.seen = "absent" /\ r.known = run[p].known
      BY <1>1 DEF Locals
    <3>2. Names("tree", r, call[p])
      BY <1>6, <2>1, <3>1 DEF Names, Targets
    <3> QED BY <1>1, <2>2, <3>2, ProceedNames
  <2>3. ASSUME NEW w, Proceed(p, "broad", [run[p] EXCEPT !.ws = w, !.goal = "select"])
        PROVE  NamesExist(p)'
    <3> DEFINE r == [run[p] EXCEPT !.ws = w, !.goal = "select"]
    <3>1. r.known = run[p].known
      BY <1>1 DEF Locals
    <3>2. Names("broad", r, call[p])
      BY <1>6, <2>1, <3>1 DEF Names, Targets
    <3> QED BY <1>1, <2>3, <3>2, ProceedNames
  <2> QED BY <1>b, <1>3, <2>2, <2>3 DEF FindActiveWorkspace
<1>c. CASE ListBroad(p)
  <2> DEFINE r == [run[p] EXCEPT !.broad = OwnSessions]
  <2>1. r.known = run[p].known /\ call[p].op = "none"
    BY <1>1, <1>2, <1>c DEF Locals, ListBroad
  <2>2. Names("exact", r, call[p])
    BY <1>6, <2>1 DEF Names, Targets
  <2> QED BY <1>1, <1>c, <2>2, ProceedNames DEF ListBroad
<1>d. CASE ListExact(p)
  <2>1. pc[p] = "exact" /\ call[p].op = "none"
    BY <1>2, <1>d DEF ListExact
  <2>2. ASSUME NEW place \in {"inspect", "inspectKnown"}, NEW s, Exists(s),
               Proceed(p, place, [run[p] EXCEPT !.target = s])
        PROVE  NamesExist(p)'
    <3> DEFINE r == [run[p] EXCEPT !.target = s]
    <3>1. r.known = run[p].known /\ r.target = s
      BY <1>1 DEF Locals
    <3>2. Names(place, r, call[p])
      BY <1>6, <2>1, <2>2, <3>1 DEF Names
    <3> QED BY <1>1, <2>2, <3>2, ProceedNames
  <2>3. CASE Proceed(p, "tree", [run[p] EXCEPT !.seen = "absent"])
    <3> DEFINE r == [run[p] EXCEPT !.seen = "absent"]
    <3>1. r.seen = "absent" /\ r.known = run[p].known
      BY <1>1 DEF Locals
    <3>2. Names("tree", r, call[p])
      BY <1>6, <2>1, <3>1 DEF Names, Targets
    <3> QED BY <1>1, <2>3, <3>2, ProceedNames
  <2>4. CASE Send(p, "run", run[p].ws, None)
    BY <1>1, <2>4, SendNames
  <2>5. \A s \in OwnSessionsIn(run[p].ws) : Exists(s)
    BY DEF OwnSessionsIn, OwnSessions, Exists
  <2>6. Expected(p) # None => Exists(Expected(p))
    BY <1>6 DEF Expected
  <2> QED BY <1>d, <1>3, <1>4, <2>1, <2>2, <2>3, <2>4, <2>5, <2>6 DEF ListExact
<1>e. CASE InspectToSelect(p)
  <2>1. pc[p] \in {"inspect", "inspectKnown"} /\ call[p].op = "none" /\ Exists(run[p].target)
    BY <1>2, <1>e DEF InspectToSelect, NamesExist, Names, Targets
  <2>2. CASE NextIteration(p, "wait", run[p].target, FALSE, run[p].handed)
    BY <1>1, <2>1, <2>2, NextIterationNames
  <2>3. ASSUME NEW seen, Proceed(p, "tree", [run[p] EXCEPT !.seen = seen])
        PROVE  NamesExist(p)'
    <3> DEFINE r == [run[p] EXCEPT !.seen = seen]
    <3>1. r.target = run[p].target /\ r.known = run[p].known
      BY <1>1 DEF Locals
    <3>2. Names("tree", r, call[p])
      BY <1>6, <2>1, <3>1 DEF Names
    <3> QED BY <1>1, <2>3, <3>2, ProceedNames
  <2>4. Targets(pc[p], run[p], call[p])
    BY <2>1 DEF Targets
  <2> QED BY <1>e, <1>3, <1>5, <2>1, <2>2, <2>3, <2>4 DEF InspectToSelect
<1>f. CASE InspectToCreate(p) \/ WaitReturns(p) \/ WaitTimesOut(p) \/ PauseEnds(p)
  BY <1>f, <1>4 DEF InspectToCreate, WaitReturns, WaitTimesOut, PauseEnds
<1>g. CASE InspectToArchive(p)
  <2>1. pc[p] \in {"inspect", "inspectKnown"} /\ call[p].op = "none" /\ Exists(run[p].target)
    BY <1>2, <1>g DEF InspectToArchive, NamesExist, Names, Targets
  <2>2. Names("before", run[p], call[p])
    BY <1>6, <2>1 DEF Names
  <2> QED BY <1>g, <1>1, <1>3, <1>4, <2>1, <2>2, ExitNames, ProceedNames DEF InspectToArchive
<1>h. CASE ReadWorkingTree(p)
  <2>1. pc[p] = "tree" /\ call[p].op = "none"
    BY <1>2, <1>h DEF ReadWorkingTree
  <2>2. run[p].seen # "absent" => Targets(pc[p], run[p], call[p]) /\ Exists(run[p].target)
    BY <2>1 DEF NamesExist, Names, Targets
  <2>3. CASE run[p].seen = "finished" /\ NextIteration(p, "pause", run[p].target, FALSE, run[p].handed)
    BY <1>1, <2>1, <2>2, <2>3, NextIterationNames
  <2>4. CASE /\ run[p].seen = "finished"
             /\ Proceed(p, "fresh", [run[p] EXCEPT !.known = run[p].target, !.prepared = FALSE,
                                                   !.goal = "archive"])
    <3> DEFINE r == [run[p] EXCEPT !.known = run[p].target, !.prepared = FALSE, !.goal = "archive"]
    <3>1. r.known = run[p].target
      BY <1>1 DEF Locals
    <3>2. Names("fresh", r, call[p])
      BY <2>1, <2>2, <2>4, <3>1 DEF Names, Targets
    <3> QED BY <1>1, <2>4, <3>2, ProceedNames
  <2>5. CASE NextIteration(p, "workspaces", run[p].known, TRUE, run[p].handed)
    BY <1>1, <1>6, <2>1, <2>5, NextIterationNames
  <2>6. CASE Proceed(p, "recheck", run[p])
    <3>1. Names("recheck", run[p], call[p])
      BY <1>6, <2>1 DEF Names, Targets
    <3> QED BY <1>1, <2>6, <3>1, ProceedNames
  <2>7. CASE Proceed(p, "fresh", [run[p] EXCEPT !.goal = "create"])
    <3> DEFINE r == [run[p] EXCEPT !.goal = "create"]
    <3>1. r.known = run[p].known
      BY <1>1 DEF Locals
    <3>2. Names("fresh", r, call[p])
      BY <1>6, <2>1, <3>1 DEF Names, Targets
    <3> QED BY <1>1, <2>7, <3>2, ProceedNames
  <2> QED BY <1>h, <1>5, <2>1, <2>2, <2>3, <2>4, <2>5, <2>6, <2>7, ExitNames DEF ReadWorkingTree
<1>i. CASE RecheckNoWorkspace(p)
  BY <1>i, <1>1, <1>4, SendNames DEF RecheckNoWorkspace
<1>j. CASE FindFreshWorkspace(p)
  <2>1. pc[p] = "fresh" /\ call[p].op = "none"
    BY <1>2, <1>j DEF FindFreshWorkspace
  <2>2. Names("broad", run[p], call[p])
    BY <1>6, <2>1 DEF Names, Targets
  <2> QED BY <1>j, <1>1, <1>4, <2>1, <2>2, ProceedNames DEF FindFreshWorkspace
<1>k. CASE InspectBeforeArchive(p)
  <2>1. pc[p] = "before" /\ Targets(pc[p], run[p], call[p])
    BY <1>k DEF InspectBeforeArchive, Targets
  <2> QED BY <1>k, <1>1, <1>4, <2>1, ExitNames, SendNames DEF InspectBeforeArchive
<1>l. CASE InspectAfterArchive(p)
  BY <1>l, <1>3, ExitNames DEF InspectAfterArchive
<1>m. CASE ReceiveAnswer(p)
  <2>1. pc[p] = "call" /\ call[p].state = "done" /\ call'[p].op = "none"
    BY <1>m DEF ReceiveAnswer, NoCall, TypeOK
  <2>2. CASE call[p].op = "workspace"
    <3>1. pc'[p] = "workspaces" /\ run'[p].known = run[p].known
      BY <1>m, <2>2 DEF ReceiveAnswer, Goto, Iteration, FreshRun, TypeOK
    <3> QED BY <1>1, <2>1, <3>1 DEF NamesExist, Names, Targets, Exists
  <2>3. CASE call[p].op = "run"
    <3>1. pc'[p] = "workspaces" /\ run'[p].known = call[p].session
      BY <1>m, <2>3 DEF ReceiveAnswer, Goto, Iteration, FreshRun, TypeOK
    <3> QED BY <1>1, <2>1, <2>3, <3>1 DEF NamesExist, Names, Targets, Exists
  <2>4. CASE call[p].op = "archive"
    <3>1. pc'[p] = "after" /\ run'[p] = run[p]
      BY <1>m, <2>4 DEF ReceiveAnswer, Goto, TypeOK
    <3> QED BY <1>1, <2>1, <2>4, <3>1 DEF NamesExist, Names, Targets, Exists
  <2> QED BY <1>m, <2>2, <2>3, <2>4 DEF ReceiveAnswer
<1>n. CASE CallFails(p)
  <2>1. CASE call[p].op = "archive" /\ ~ Obstacle(p)
    <3>1. pc'[p] = "after" /\ run'[p] = run[p] /\ call'[p].op = "none"
      BY <1>n, <2>1 DEF CallFails, Goto, NoCall, TypeOK
    <3> QED BY <1>1, <2>1, <3>1 DEF NamesExist, Names, Targets, Exists
  <2> QED BY <1>n, <1>3, <2>1 DEF CallFails
<1>o. CASE SourceFails(p) \/ Interrupt(p)
  BY <1>o, <1>3, ExitNames DEF SourceFails, Interrupt
<1> QED
  BY <1>a, <1>b, <1>c, <1>d, <1>e, <1>f, <1>g, <1>h, <1>i, <1>j, <1>k, <1>l, <1>m, <1>n, <1>o
  DEF CommandStep, Fault

\* An answer of the daemon names a session that has just begun.
LEMMA DaemonAnswersNames ==
  ASSUME TypeOK, [Next]_vars, NEW p \in Processes, NamesExist(p), DaemonAnswers(p)
  PROVE  NamesExist(p)'
<1>1. /\ pc' = pc /\ run' = run /\ call'[p].op = call[p].op
      /\ call'[p].op = "archive" => call'[p].session = call[p].session
  BY DEF DaemonAnswers, TypeOK, Call
<1> DEFINE Later(s) == s \in Sessions /\ session'[s] # "absent"
<1>2. call'[p].op = "run" => Later(call'[p].session)
  <2> SUFFICES ASSUME call'[p].op = "run" PROVE Later(call'[p].session)
    OBVIOUS
  <2>1. PICK s \in Sessions : /\ RunSession(s, call[p].ws)
                              /\ call' = [call EXCEPT ![p].state = "done", ![p].session = s]
    BY <1>1 DEF DaemonAnswers
  <2>2. call'[p].session = s
    BY <2>1 DEF TypeOK, Call
  <2>3. session'[s] = "initializing"
    BY <2>1 DEF RunSession, TypeOK
  <2> QED BY <2>2, <2>3
<1>3. \A s : Exists(s) => Later(s)
  BY ExistenceStays DEF Exists
<1>4. /\ run[p].known # None => Later(run[p].known)
      /\ Targets(pc[p], run[p], call[p]) => Later(run[p].target)
      /\ call[p].op = "archive" => Later(call[p].session)
  BY <1>3 DEF NamesExist, Names
<1> QED
  BY <1>1, <1>2, <1>4 DEF NamesExist, Names, Targets, Exists

\* Requests left to the daemon are requests that were sent.
LEMMA LateWereSent ==
  ASSUME TypeOK, [Next]_vars
  PROVE  \A c \in late' \ late : \E p \in Processes : c = call[p]
<1>1. ASSUME NEW p \in Processes, Abandon(p)
      PROVE  late' \subseteq late \cup {call[p]}
  BY <1>1 DEF Abandon
<1>2. CASE late' \subseteq late
  BY <1>2
<1>3. CASE \E p \in Processes : Abandon(p)
  BY <1>1, <1>3
<1> QED
  BY <1>2, <1>3
     DEF Next, vars, world, CommandStep, Fault, AcquireChangeLock, FindActiveWorkspace, ListBroad,
         ListExact, InspectToSelect, InspectToCreate, InspectToArchive, ReadWorkingTree,
         RecheckNoWorkspace, FindFreshWorkspace, InspectBeforeArchive, InspectAfterArchive,
         ReceiveAnswer, CallFails, WaitReturns, PauseEnds, SourceFails, Interrupt, WaitTimesOut,
         Daemon, DaemonAnswers, DaemonExecutesLate, Agent, AgentStarts, AgentWrites, AgentStops,
         User, UserResumes, UserArchives, UserArchivesWorkspace, UserEdits, SessionBecomes

\* No step of the system makes anybody name a session that does not exist.
LEMMA NamesStep ==
  ASSUME TypeOK, \A p \in Processes : LocalFacts(p),
         \A p \in Processes : NamesExist(p), LateNamesExist, [Next]_vars
  PROVE  (\A p \in Processes : NamesExist(p)') /\ LateNamesExist'
<1>1. ASSUME NEW p \in Processes PROVE NamesExist(p)'
  <2>1. CASE CommandStep(p) \/ Fault(p) \/ AcquireChangeLock(p)
    BY <2>1, CommandStepNames
  <2>2. CASE DaemonAnswers(p)
    BY <2>2, DaemonAnswersNames
  <2>3. CASE ~ (CommandStep(p) \/ Fault(p) \/ AcquireChangeLock(p) \/ DaemonAnswers(p))
    <3>1. pc'[p] = pc[p] /\ run'[p] = run[p] /\ call'[p] = call[p]
      BY <2>3, OnlyOwnSteps
    <3>2. \A s : Exists(s) => s \in Sessions /\ session'[s] # "absent"
      BY ExistenceStays DEF Exists
    <3>3. NamesExist(p)
      OBVIOUS
    <3> QED BY <3>1, <3>2, <3>3 DEF NamesExist, Names, Exists
  <2> QED BY <2>1, <2>2, <2>3
<1>2. ASSUME NEW c \in late', c.op = "archive" PROVE Exists(c.session)'
  <2>1. Exists(c.session)
    BY <1>2, LateWereSent DEF LateNamesExist, NamesExist, Names
  <2> QED BY <2>1, ExistenceStays
<1> QED BY <1>1, <1>2 DEF LateNamesExist

LEMMA InitNames == Init => (\A p \in Processes : NamesExist(p)) /\ LateNamesExist
BY DEF Init, FreshRun, NoCall, NamesExist, Names, Targets, LateNamesExist

\* Every session that is named exists, at any time.
LEMMA NamesHold == Spec => []((\A p \in Processes : NamesExist(p)) /\ LateNamesExist)
<1>1. /\ TypeOK /\ (\A p \in Processes : LocalFacts(p))
      /\ (\A p \in Processes : NamesExist(p)) /\ LateNamesExist
      /\ [Next]_vars
      => ((\A p \in Processes : NamesExist(p)) /\ LateNamesExist)'
  BY NamesStep
<1> QED
  BY <1>1, InitNames, TypeCorrect, FactsHold, PTL DEF Spec

-----------------------------------------------------------------------------
(* What a run has told and what it accompanies.                            *)

\* A run at work has reported nothing; a run that has ended accompanies nobody.
Quiet(p) ==
  /\ pc[p] # "off" => outcome[p] = NoOutcome
  /\ pc[p] = "off" => run[p].known = None

\* What a step of p that begins no run may do to what p has told and to whom
\* it accompanies: it leaves both,
KeepsBond(p) == outcome' = outcome /\ lost' = lost /\ run'[p].known = run[p].known

\* binds p to a session it looked at or has created,
BindsTo(p) ==
  /\ outcome' = outcome /\ lost' = lost
  /\ run[p].known = None /\ Exists(run'[p].known)

\* or ends p, with a result that is true.
EndsTruly(p) ==
  \E s \in Sessions \cup {None} :
    \E kind \in {"noWork", "completed", "closedWithChanges", "obstacle", "interrupted"} :
      /\ Exit(p, kind, s)
      /\ lost' \in {lost, TRUE}
      /\ kind = "noWork" => run[p].known = None
      /\ kind \in {"completed", "closedWithChanges"} =>
           /\ s \in Sessions /\ session[s] = "archived"
           /\ run[p].known \in {None, s}

Effect(p) == KeepsBond(p) \/ BindsTo(p) \/ EndsTruly(p)

\* The steps of the command have no other effect.
LEMMA CommandEffects ==
  ASSUME TypeOK, NEW p \in Processes, LocalFacts(p), NamesExist(p), ClosedIsArchived,
         CommandStep(p) \/ Fault(p)
  PROVE  Effect(p)
<1> DEFINE Keeps == KeepsBond(p)
           Binds == BindsTo(p)
           Ends == EndsTruly(p)
<1>1. run[p] \in Locals /\ (Targets(pc[p], run[p], call[p]) =>
        Exists(run[p].target) /\ run[p].known \in {None, run[p].target})
  BY DEF TypeOK, NamesExist, Names, LocalFacts, Facts, KnownIsTarget
<1>2. Obstacle(p) /\ lost' \in {lost, TRUE} => Ends
  BY DEF Obstacle, EndsTruly
<1>3. ASSUME NEW place, NEW r, r.known = run[p].known, Proceed(p, place, r), UNCHANGED world
      PROVE  Keeps
  BY <1>3 DEF Proceed, world, TypeOK, KeepsBond
<1>4. ASSUME NEW place, NEW prepared, NEW handed,
             NextIteration(p, place, run[p].known, prepared, handed), UNCHANGED world
      PROVE  Keeps
  BY <1>4 DEF NextIteration, Iteration, FreshRun, world, TypeOK, KeepsBond
<1>5. ObservationChanged(p) /\ UNCHANGED world => Keeps
  BY <1>4 DEF ObservationChanged
<1>6. ASSUME NEW place, NEW prepared, NEW handed, Targets(pc[p], run[p], call[p]),
             NextIteration(p, place, run[p].target, prepared, handed), UNCHANGED world
      PROVE  Keeps \/ Binds
  <2>1. run'[p].known = run[p].target /\ outcome' = outcome /\ lost' = lost
    BY <1>6 DEF NextIteration, Iteration, FreshRun, world, TypeOK
  <2> QED BY <1>1, <1>6, <2>1 DEF KeepsBond, BindsTo
<1>7. ASSUME NEW op, NEW w, NEW s, Send(p, op, w, s), UNCHANGED world
      PROVE  Keeps
  BY <1>7 DEF Send, world, KeepsBond
<1>8. ASSUME NEW kind \in {"completed", "closedWithChanges"}, Targets(pc[p], run[p], call[p]),
             session[run[p].target] = "archived", Exit(p, kind, run[p].target), UNCHANGED world
      PROVE  Ends
  BY <1>1, <1>8 DEF Exists, world, EndsTruly
<1>9. UNCHANGED world => lost' = lost
  BY DEF world
<1> SUFFICES Keeps \/ Binds \/ Ends
  BY DEF Effect
<1> HIDE DEF Keeps, Binds, Ends
<1>a. CASE FindActiveWorkspace(p)
  <2>1. [run[p] EXCEPT !.seen = "absent", !.ws = None].known = run[p].known
    BY <1>1 DEF Locals
  <2>2. \A w : [run[p] EXCEPT !.ws = w, !.goal = "select"].known = run[p].known
    BY <1>1 DEF Locals
  <2> QED BY <1>a, <1>2, <1>3, <1>9, <2>1, <2>2 DEF FindActiveWorkspace
<1>b. CASE ListBroad(p)
  <2>1. [run[p] EXCEPT !.broad = OwnSessions].known = run[p].known
    BY <1>1 DEF Locals
  <2> QED BY <1>b, <1>3, <2>1 DEF ListBroad
<1>c. CASE ListExact(p)
  <2>1. \A s : [run[p] EXCEPT !.target = s].known = run[p].known
    BY <1>1 DEF Locals
  <2>2. [run[p] EXCEPT !.seen = "absent"].known = run[p].known
    BY <1>1 DEF Locals
  <2> QED BY <1>c, <1>2, <1>3, <1>5, <1>7, <1>9, <2>1, <2>2 DEF ListExact
<1>d. CASE InspectToSelect(p)
  <2>1. Targets(pc[p], run[p], call[p])
    BY <1>d DEF InspectToSelect, Targets
  <2>2. \A seen : [run[p] EXCEPT !.seen = seen].known = run[p].known
    BY <1>1 DEF Locals
  <2> QED BY <1>d, <1>2, <1>3, <1>6, <1>9, <2>1, <2>2 DEF InspectToSelect, HandToHuman
<1>e. CASE InspectToCreate(p) \/ WaitReturns(p) \/ WaitTimesOut(p) \/ PauseEnds(p)
  BY <1>e, <1>5 DEF InspectToCreate, WaitReturns, WaitTimesOut, PauseEnds
<1>f. CASE InspectToArchive(p)
  <2>1. Targets(pc[p], run[p], call[p])
    BY <1>f DEF InspectToArchive, Targets
  <2> QED BY <1>f, <1>2, <1>3, <1>5, <1>8, <1>9, <2>1 DEF InspectToArchive
<1>g. CASE ReadWorkingTree(p)
  <2>1. pc[p] = "tree" /\ (run[p].seen # "absent" => Targets(pc[p], run[p], call[p]))
    BY <1>g DEF ReadWorkingTree, Targets
  <2>2. CASE run[p].seen = "closed"
    <3>1. session[run[p].target] = "archived"
      BY <2>1, <2>2 DEF ClosedIsArchived
    <3> QED BY <1>g, <1>8, <2>1, <2>2, <3>1 DEF ReadWorkingTree
  <2>3. CASE run[p].seen = "finished"
    <3>1. CASE Proceed(p, "fresh", [run[p] EXCEPT !.known = run[p].target, !.prepared = FALSE,
                                                  !.goal = "archive"])
      <4>1. [run[p] EXCEPT !.known = run[p].target, !.prepared = FALSE, !.goal = "archive"].known
              = run[p].target
        BY <1>1 DEF Locals
      <4>2. run'[p].known = run[p].target /\ outcome' = outcome /\ lost' = lost
        BY <1>g, <1>9, <3>1, <4>1 DEF ReadWorkingTree, Proceed, TypeOK
      <4> QED BY <1>1, <2>1, <2>3, <4>2 DEF Keeps, Binds, KeepsBond, BindsTo
    <3> QED BY <1>g, <1>6, <2>1, <2>3, <3>1 DEF ReadWorkingTree, HandToHuman
  <2>4. CASE run[p].seen = "absent"
    <3>1. run[p].known = None
      BY <2>1, <2>4 DEF LocalFacts, Facts, KnownIsTarget
    <3>2. Exit(p, "noWork", None) /\ lost' = lost => Ends
      BY <3>1 DEF Ends, EndsTruly
    <3>3. [run[p] EXCEPT !.goal = "create"].known = run[p].known
      BY <1>1 DEF Locals
    <3> QED BY <1>g, <1>3, <1>4, <1>9, <2>4, <3>2, <3>3 DEF ReadWorkingTree
  <2> QED BY <1>1, <2>2, <2>3, <2>4 DEF Locals
<1>h. CASE RecheckNoWorkspace(p) \/ FindFreshWorkspace(p)
  BY <1>h, <1>3, <1>5, <1>7 DEF RecheckNoWorkspace, FindFreshWorkspace
<1>i. CASE InspectBeforeArchive(p) \/ InspectAfterArchive(p)
  <2>1. Targets(pc[p], run[p], call[p])
    BY <1>i DEF InspectBeforeArchive, InspectAfterArchive, Targets
  <2> QED BY <1>i, <1>2, <1>5, <1>7, <1>8, <1>9, <2>1 DEF InspectBeforeArchive, InspectAfterArchive
<1>j. CASE ReceiveAnswer(p)
  <2>1. outcome' = outcome /\ lost' = lost
    BY <1>j DEF ReceiveAnswer, world
  <2>2. CASE call[p].op = "workspace" \/ call[p].op = "archive"
    <3>1. run'[p].known = run[p].known
      BY <1>j, <2>2 DEF ReceiveAnswer, Iteration, FreshRun, TypeOK
    <3> QED BY <2>1, <3>1 DEF Keeps, KeepsBond
  <2>3. CASE call[p].op = "run"
    <3>1. run'[p].known = call[p].session
      BY <1>j, <2>3 DEF ReceiveAnswer, Iteration, FreshRun, TypeOK
    <3>2. Exists(call[p].session) /\ run[p].known = None
      BY <1>j, <2>3 DEF ReceiveAnswer, NamesExist, Names, LocalFacts, Facts, KnownIsTarget
    <3> QED BY <2>1, <3>1, <3>2 DEF Binds, BindsTo
  <2> QED BY <1>j, <2>2, <2>3 DEF ReceiveAnswer
<1>k. CASE CallFails(p)
  <2>1. lost' \in {lost, TRUE}
    BY <1>k DEF CallFails, Abandon, TypeOK
  <2>2. CASE call[p].op = "archive" /\ ~ Obstacle(p)
    <3>1. outcome' = outcome /\ run' = run /\ lost' = lost
      BY <1>k, <2>2 DEF CallFails, Abandon, TypeOK
    <3> QED BY <3>1 DEF Keeps, KeepsBond
  <2> QED BY <1>k, <1>2, <2>1, <2>2 DEF CallFails
<1>l. CASE SourceFails(p)
  BY <1>l, <1>2, <1>9 DEF SourceFails
<1>m. CASE Interrupt(p)
  <2>1. lost' \in {lost, TRUE}
    BY <1>m DEF Interrupt, Abandon, TypeOK
  <2> QED BY <1>m, <2>1 DEF Interrupt, Ends, EndsTruly
<1> QED
  BY <1>a, <1>b, <1>c, <1>d, <1>e, <1>f, <1>g, <1>h, <1>i, <1>j, <1>k, <1>l, <1>m
  DEF CommandStep, Fault

\* A step of p that leaves what p has told leaves p at work.
LEMMA StaysAtWork ==
  ASSUME TypeOK, NEW p \in Processes, CommandStep(p) \/ Fault(p),
         ~ \E s, kind : Exit(p, kind, s)
  PROVE  pc'[p] # "off"
<1>1. ASSUME NEW place \in Location \ {"off"}, NEW r, Proceed(p, place, r)
      PROVE  pc'[p] # "off"
  BY <1>1 DEF Proceed, Goto, TypeOK
<1>2. ASSUME NEW place \in Location \ {"off"}, NEW known, NEW prepared, NEW handed,
             NextIteration(p, place, known, prepared, handed)
      PROVE  pc'[p] # "off"
  BY <1>2 DEF NextIteration, Goto, TypeOK
<1>3. ASSUME NEW op, NEW w, NEW s, Send(p, op, w, s)
      PROVE  pc'[p] # "off"
  BY <1>3 DEF Send, Goto, TypeOK
<1>4. CASE ReceiveAnswer(p) \/ (CallFails(p) /\ ~ Obstacle(p))
  BY <1>4 DEF ReceiveAnswer, CallFails, Goto, TypeOK
<1> QED
  BY <1>1, <1>2, <1>3, <1>4
     DEF Location, CommandStep, Fault, FindActiveWorkspace, ListBroad, ListExact, InspectToSelect,
         InspectToCreate, InspectToArchive, ReadWorkingTree, RecheckNoWorkspace,
         FindFreshWorkspace, InspectBeforeArchive, InspectAfterArchive, CallFails, WaitReturns,
         PauseEnds, SourceFails, Interrupt, WaitTimesOut, Obstacle, ObservationChanged, HandToHuman

\* A step with such an effect, which ends p or leaves it at work, keeps them.
LEMMA EffectIsQuiet ==
  ASSUME TypeOK, NEW p \in Processes, Quiet(p), pc[p] # "off", Effect(p),
         (\E s, kind : Exit(p, kind, s)) \/ pc'[p] # "off"
  PROVE  Quiet(p)'
<1>1. CASE \E s, kind : Exit(p, kind, s)
  BY <1>1 DEF Exit, Goto, FreshRun, Quiet, TypeOK
<1>2. CASE outcome' = outcome /\ ~ \E s, kind : Exit(p, kind, s)
  BY <1>2 DEF Quiet
<1> QED BY <1>1, <1>2 DEF Effect, KeepsBond, BindsTo, EndsTruly

\* So does every step of the system.
LEMMA QuietStep ==
  ASSUME TypeOK, \A p \in Processes : LocalFacts(p),
         \A p \in Processes : NamesExist(p), ClosedIsArchived,
         \A p \in Processes : Quiet(p), [Next]_vars, NEW p \in Processes
  PROVE  Quiet(p)'
<1>1. CASE CommandStep(p) \/ Fault(p)
  BY <1>1, RunsOrEnds, StaysAtWork, CommandEffects, EffectIsQuiet
<1>2. CASE AcquireChangeLock(p)
  BY <1>2 DEF AcquireChangeLock, Goto, Quiet, TypeOK
<1>3. CASE ~ (CommandStep(p) \/ Fault(p) \/ AcquireChangeLock(p))
  <2>1. pc'[p] = pc[p] /\ run'[p] = run[p] /\ outcome'[p] = outcome[p]
    BY <1>3, OnlyOwnSteps DEF DaemonAnswers
  <2> QED BY <2>1 DEF Quiet
<1> QED BY <1>1, <1>2, <1>3

LEMMA InitQuiet == Init => \A p \in Processes : Quiet(p)
BY DEF Init, Quiet, FreshRun

\* The facts of Quiet hold of every invocation at any time.
LEMMA QuietHolds == Spec => [](\A p \in Processes : Quiet(p))
<1>1. /\ TypeOK /\ (\A p \in Processes : LocalFacts(p)) /\ (\A p \in Processes : NamesExist(p))
      /\ ClosedIsArchived /\ (\A p \in Processes : Quiet(p)) /\ [Next]_vars
      => (\A p \in Processes : Quiet(p))'
  BY QuietStep
<1> QED
  BY <1>1, InitQuiet, TypeCorrect, FactsHold, NamesHold, ClosedHolds, PTL DEF Spec

-----------------------------------------------------------------------------
(* The refinement.                                                         *)

Closed == {s \in Sessions : session[s] = "archived"}

\* Initially nothing is promised yet.
LEMMA InitRefines == Init => Promise!Init
BY DEF Init, Promise!Init, OwnSessions, FreshRun, NoOutcome, Promise!Nothing

\* A step of the running invocation with one of these effects, which leaves
\* everybody else alone, is one of the promise or invisible to it.
LEMMA EffectRefines ==
  ASSUME TypeOK, \A q \in Processes : Quiet(q), OneCommandPerChange,
         NEW p \in Processes, pc[p] # "off", Effect(p), session' = session,
         \A q \in Processes \ {p} : run'[q] = run[q]
  PROVE  [Promise!Next]_(Promise!promise)
<1> DEFINE bound == [q \in Processes |-> run[q].known]
<1>1. OwnSessions' = OwnSessions /\ Closed' = Closed
  BY DEF OwnSessions, Closed
<1>2. \A q \in Processes \ {p} : run'[q] = run[q]
  OBVIOUS
<1>3. \A q \in Processes \ {p} : run[q].known = None
  BY NoneAssumption DEF OneCommandPerChange, Quiet
<1>4. CASE outcome' = outcome /\ lost' = lost /\ run'[p].known = run[p].known
  <2>1. bound' = bound
    BY <1>2, <1>4
  <2> QED BY <1>1, <1>4, <2>1 DEF Promise!promise, Closed
<1>5. CASE outcome' = outcome /\ lost' = lost /\ run[p].known = None /\ Exists(run'[p].known)
  <2> PICK s \in Sessions : s = run'[p].known
    BY <1>5 DEF Exists
  <2>1. bound' = [bound EXCEPT ![p] = s]
    BY <1>2
  <2>2. s \in OwnSessions \cup Closed
    BY <1>5 DEF Exists, OwnSessions, Closed
  <2>3. \A q \in Processes : bound[q] = None
    BY <1>3, <1>5
  <2>4. Promise!Accompany(p, s)
    BY <1>1, <1>5, <2>1, <2>2, <2>3 DEF Promise!Accompany, Closed
  <2> QED BY <2>4 DEF Promise!Next
<1>6. ASSUME NEW s \in Sessions \cup {None},
             NEW kind \in {"noWork", "completed", "closedWithChanges", "obstacle", "interrupted"},
             Exit(p, kind, s), lost' \in {lost, TRUE},
             kind = "noWork" => run[p].known = None,
             kind \in {"completed", "closedWithChanges"} =>
               /\ s \in Sessions /\ session[s] = "archived"
               /\ run[p].known \in {None, s}
      PROVE  [Promise!Next]_(Promise!promise)
  <2>1. outcome[p] = Promise!Nothing
    BY DEF Quiet, NoOutcome, Promise!Nothing
  <2>2. outcome' = [outcome EXCEPT ![p] = [kind |-> kind, session |-> s]]
    BY <1>6 DEF Exit
  <2>3. run'[p].known = None
    BY <1>6 DEF Exit, FreshRun, TypeOK
  <2>4. bound' = [bound EXCEPT ![p] = None]
    BY <1>2, <2>3
  <2>5. kind \in {"completed", "closedWithChanges"} => s \in Closed /\ bound[p] \in {None, s}
    BY <1>6 DEF Closed
  <2>6. kind = "noWork" => bound[p] = None
    BY <1>6
  <2>7. Promise!Report(p, kind, s)
    BY <1>1, <1>6, <2>1, <2>2, <2>4, <2>5, <2>6 DEF Promise!Report, Closed
  <2>8. outcome'[p] # outcome[p]
    BY <2>1, <2>2 DEF Promise!Nothing, TypeOK
  <2>9. kind \in Promise!Results
    BY DEF Promise!Results
  <2> QED BY <2>7, <2>8, <2>9 DEF Promise!Next
<1> QED BY <1>4, <1>5, <1>6 DEF Effect, KeepsBond, BindsTo, EndsTruly

\* So is every step of the command.
LEMMA CommandRefines ==
  ASSUME TypeOK, \A q \in Processes : LocalFacts(q), \A q \in Processes : NamesExist(q),
         ClosedIsArchived, \A q \in Processes : Quiet(q), OneCommandPerChange,
         NEW p \in Processes, CommandStep(p) \/ Fault(p)
  PROVE  [Promise!Next]_(Promise!promise)
<1>1. \A q \in Processes \ {p} : run'[q] = run[q]
  BY OthersLeaveAlone
<1> QED BY <1>1, RunsOrEnds, CommandLeavesSessions, CommandEffects, EffectRefines

\* A run that starts has told nothing.
LEMMA StartRefines ==
  ASSUME TypeOK, \A q \in Processes : Quiet(q), NEW p \in Processes, AcquireChangeLock(p)
  PROVE  Promise!Next
<1>1. OwnSessions' = OwnSessions /\ Closed' = Closed /\ lost' = lost /\ run' = run
  BY DEF AcquireChangeLock, world, OwnSessions, Closed
<1>2. outcome' = [outcome EXCEPT ![p] = Promise!Nothing]
  BY DEF AcquireChangeLock, NoOutcome, Promise!Nothing
<1>3. [q \in Processes |-> run[q].known][p] = None
  BY DEF AcquireChangeLock, Quiet
<1>4. Promise!Start(p)
  BY <1>1, <1>2, <1>3 DEF Promise!Start, Closed
<1> QED BY <1>4 DEF Promise!Next

\* What a change of sessions is to the promise.
LEMMA SessionsRefine ==
  ASSUME TypeOK, run' = run, outcome' = outcome, lost' = lost,
         \/ session' = session
         \/ \E s \in Sessions : Exists(s) /\ ArchiveSession(s)
         \/ \E s \in Sessions, w \in Workspaces \cup {None} :
              RunSession(s, w) /\ (OwnSessions = {} \/ lost)
         \/ \E s \in Sessions, from \in SUBSET SessionState, to \in SessionState :
              /\ SessionBecomes(s, from, to)
              /\ "absent" \notin from /\ "archived" \notin from /\ to # "absent"
  PROVE  [Promise!Next]_(Promise!promise)
<1> DEFINE bound == [q \in Processes |-> run[q].known]
<1>0. bound' = bound
  OBVIOUS
<1> HIDE DEF bound
<1>1. ASSUME NEW s \in Sessions, s \in OwnSessions,
             OwnSessions' = OwnSessions \ {s}, Closed' = Closed \cup {s}
      PROVE  [Promise!Next]_(Promise!promise)
  <2>1. Promise!Close(s)
    BY <1>0, <1>1 DEF Promise!Close, Closed, bound
  <2> QED BY <2>1 DEF Promise!Next
<1>2. ASSUME OwnSessions' = OwnSessions, Closed' = Closed
      PROVE  [Promise!Next]_(Promise!promise)
  BY <1>0, <1>2 DEF Promise!promise, Closed, bound
<1>3. CASE session' = session
  BY <1>2, <1>3 DEF OwnSessions, Closed
<1>4. ASSUME NEW s \in Sessions, Exists(s), session' = [session EXCEPT ![s] = "archived"]
      PROVE  [Promise!Next]_(Promise!promise)
  <2>1. CASE session[s] = "archived"
    BY <1>3, <1>4, <2>1 DEF TypeOK
  <2>2. CASE session[s] # "archived"
    <3>1. s \in OwnSessions
      BY <1>4, <2>2 DEF Exists, OwnSessions
    <3>2. OwnSessions' = OwnSessions \ {s}
      BY <1>4 DEF OwnSessions, TypeOK
    <3>3. Closed' = Closed \cup {s}
      BY <1>4 DEF Closed, TypeOK
    <3> QED BY <1>1, <3>1, <3>2, <3>3
  <2> QED BY <2>1, <2>2
<1>5. ASSUME NEW s \in Sessions, NEW w, RunSession(s, w), OwnSessions = {} \/ lost
      PROVE  [Promise!Next]_(Promise!promise)
  <2>1. s \notin OwnSessions \cup Closed
    BY <1>5 DEF RunSession, OwnSessions, Closed
  <2>2. OwnSessions' = OwnSessions \cup {s} /\ Closed' = Closed
    BY <1>5 DEF RunSession, OwnSessions, Closed, TypeOK
  <2>3. Promise!Begin(s)
    BY <1>0, <1>5, <2>1, <2>2 DEF Promise!Begin, Closed, bound
  <2> QED BY <2>3 DEF Promise!Next
<1>6. ASSUME NEW s \in Sessions, NEW from \in SUBSET SessionState, NEW to \in SessionState,
             SessionBecomes(s, from, to),
             "absent" \notin from, "archived" \notin from, to # "absent"
      PROVE  [Promise!Next]_(Promise!promise)
  <2>1. session[s] \notin {"absent", "archived"} /\ session' = [session EXCEPT ![s] = to]
    BY <1>6 DEF SessionBecomes
  <2>2. CASE to = "archived"
    BY <1>4, <2>1, <2>2 DEF Exists
  <2>3. CASE to # "archived"
    <3>1. OwnSessions' = OwnSessions /\ Closed' = Closed
      BY <1>6, <2>1, <2>3 DEF OwnSessions, Closed, TypeOK
    <3> QED BY <1>2, <3>1
  <2> QED BY <2>2, <2>3
<1> QED
  BY <1>3, <1>4, <1>5, <1>6 DEF ArchiveSession

\* Every step is one of the promise or invisible to it.
LEMMA NextRefines ==
  ASSUME TypeOK, \A q \in Processes : LocalFacts(q), \A q \in Processes : NamesExist(q),
         LateNamesExist, ClosedIsArchived, \A q \in Processes : Quiet(q), OneCommandPerChange,
         OneAtATime, [Next]_vars
  PROVE  [Promise!Next]_(Promise!promise)
<1>1. CASE \E p \in Processes : CommandStep(p) \/ Fault(p)
  BY <1>1, CommandRefines
<1>2. CASE \E p \in Processes : AcquireChangeLock(p)
  BY <1>2, StartRefines
<1>3. ASSUME NEW p \in Processes, DaemonAnswers(p)
      PROVE  [Promise!Next]_(Promise!promise)
  <2>1. run' = run /\ outcome' = outcome /\ lost' = lost /\ call[p] \in Call
    BY <1>3 DEF DaemonAnswers, TypeOK
  <2>2. CASE session' = session
    BY <2>1, <2>2, SessionsRefine
  <2>3. CASE call[p].op = "archive" /\ ArchiveSession(call[p].session)
    <3>1. Exists(call[p].session)
      BY <2>3 DEF NamesExist, Names
    <3>2. call[p].session \in Sessions
      BY <3>1 DEF Exists
    <3> QED BY <2>1, <2>3, <3>1, <3>2, SessionsRefine
  <2>4. CASE call[p].op = "run" /\ \E s \in Sessions : RunSession(s, call[p].ws)
    <3>1. OwnSessions = {} \/ lost
      BY <1>3, <2>4 DEF DaemonAnswers, OneAtATime
    <3>2. call[p].ws \in Workspaces \cup {None}
      BY <2>1 DEF Call
    <3> QED BY <2>1, <2>4, <3>1, <3>2, SessionsRefine
  <2> QED BY <1>3, <2>2, <2>3, <2>4 DEF DaemonAnswers, CreateWorkspace
<1>4. ASSUME NEW c \in late, DaemonExecutesLate(c)
      PROVE  [Promise!Next]_(Promise!promise)
  <2>1. run' = run /\ outcome' = outcome /\ lost' = lost /\ c \in Call
    BY <1>4 DEF DaemonExecutesLate, TypeOK, command
  <2>2. CASE session' = session
    BY <2>1, <2>2, SessionsRefine
  <2>3. CASE c.op = "archive" /\ ArchiveSession(c.session)
    <3>1. Exists(c.session)
      BY <1>4, <2>3 DEF LateNamesExist
    <3>2. c.session \in Sessions
      BY <3>1 DEF Exists
    <3> QED BY <2>1, <2>3, <3>1, <3>2, SessionsRefine
  <2>4. CASE c.op = "run" /\ \E s \in Sessions : RunSession(s, c.ws)
    <3>1. lost
      BY <1>4, <2>4 DEF OneAtATime
    <3>2. c.ws \in Workspaces \cup {None}
      BY <2>1 DEF Call
    <3> QED BY <2>1, <2>4, <3>1, <3>2, SessionsRefine
  <2> QED BY <1>4, <2>2, <2>3, <2>4 DEF DaemonExecutesLate, CreateWorkspace
<1>5. CASE (\E s \in Sessions : Agent(s)) \/ User
  <2>1. run' = run /\ outcome' = outcome
    BY <1>5, WorldLeavesCommand DEF command
  <2>2. lost' = lost
    BY <1>5 DEF Agent, AgentStarts, AgentWrites, AgentStops, User, UserResumes, UserArchives,
                UserArchivesWorkspace, UserEdits, SessionBecomes
  <2>3. \/ session' = session
        \/ \E s \in Sessions, from \in SUBSET SessionState, to \in SessionState :
             /\ SessionBecomes(s, from, to)
             /\ "absent" \notin from /\ "archived" \notin from /\ to # "absent"
    <3>1. ASSUME NEW s \in Sessions, NEW from \in SUBSET SessionState, NEW to \in SessionState,
                 SessionBecomes(s, from, to), "absent" \notin from, "archived" \notin from,
                 to # "absent"
          PROVE  \E r \in Sessions, before \in SUBSET SessionState, after \in SessionState :
                   /\ SessionBecomes(r, before, after)
                   /\ "absent" \notin before /\ "archived" \notin before /\ after # "absent"
      BY <3>1
    <3>2. ASSUME NEW s \in Sessions, Agent(s), session' # session
          PROVE  \E r \in Sessions, before \in SUBSET SessionState, after \in SessionState :
                   /\ SessionBecomes(r, before, after)
                   /\ "absent" \notin before /\ "archived" \notin before /\ after # "absent"
      <4>1. CASE SessionBecomes(s, {"initializing"}, "running")
        BY <3>1, <4>1 DEF SessionState, Working
      <4>2. ASSUME NEW to \in {"idle", "error", "permission"}, SessionBecomes(s, {"running"}, to)
            PROVE  \E r \in Sessions, before \in SUBSET SessionState, after \in SessionState :
                     /\ SessionBecomes(r, before, after)
                     /\ "absent" \notin before /\ "archived" \notin before /\ after # "absent"
        BY <3>1, <4>2 DEF SessionState, Working
      <4> QED BY <3>2, <4>1, <4>2 DEF Agent, AgentStarts, AgentStops, AgentWrites
    <3>3. ASSUME User, session' # session
          PROVE  \E r \in Sessions, before \in SUBSET SessionState, after \in SessionState :
                   /\ SessionBecomes(r, before, after)
                   /\ "absent" \notin before /\ "archived" \notin before /\ after # "absent"
      <4>1. ASSUME NEW s \in Sessions, SessionBecomes(s, {"idle", "error", "permission"}, "running")
            PROVE  \E r \in Sessions, before \in SUBSET SessionState, after \in SessionState :
                     /\ SessionBecomes(r, before, after)
                     /\ "absent" \notin before /\ "archived" \notin before /\ after # "absent"
        BY <3>1, <4>1 DEF SessionState, Working
      <4>2. ASSUME NEW s \in Sessions,
                   SessionBecomes(s, SessionState \ {"absent", "archived"}, "archived")
            PROVE  \E r \in Sessions, before \in SUBSET SessionState, after \in SessionState :
                     /\ SessionBecomes(r, before, after)
                     /\ "absent" \notin before /\ "archived" \notin before /\ after # "absent"
        BY <3>1, <4>2 DEF SessionState
      <4> QED BY <3>3, <4>1, <4>2 DEF User, UserResumes, UserArchives, UserArchivesWorkspace, UserEdits
    <3> QED BY <1>5, <3>2, <3>3
  <2> QED BY <2>1, <2>2, <2>3, SessionsRefine
<1>6. CASE UNCHANGED vars
  BY <1>6, SessionsRefine DEF vars
<1> QED
  BY <1>1, <1>2, <1>3, <1>4, <1>5, <1>6 DEF Next, Daemon

\* CommitPreparation implements Assignment: whatever the interleaving of
\* invocations, daemon, agents and user, a session begins only while no other
\* is active, one run accompanies one session, and the end of a session is
\* reported of a closed one.
THEOREM PromiseIsKept == Spec => KeepsPromise
<1>1. Init => Promise!Init
  BY InitRefines
<1>2. /\ TypeOK /\ (\A p \in Processes : LocalFacts(p))
      /\ (\A p \in Processes : NamesExist(p)) /\ LateNamesExist
      /\ ClosedIsArchived /\ (\A p \in Processes : Quiet(p)) /\ OneCommandPerChange
      /\ OneAtATime /\ [Next]_vars
      => [Promise!Next]_(Promise!promise)
  BY NextRefines
<1> QED
  BY <1>1, <1>2, TypeCorrect, FactsHold, NamesHold, ClosedHolds, QuietHolds, LockExcludes,
     OneAtATimeHolds, PTL DEF Spec, KeepsPromise, Promise!Spec

-----------------------------------------------------------------------------
(* What the promise means: consequences of the abstract specification,     *)
(* which the loop has because it implements it.                            *)

\* An abstract step keeps them.
LEMMA MeaningStep ==
  ASSUME DOMAIN outcome = Processes, Promise!Meaning, [Promise!Next]_(Promise!promise)
  PROVE  DOMAIN outcome' = Processes /\ Promise!Meaning'
<1> DEFINE bound == [q \in Processes |-> run[q].known]
<1>0. /\ DOMAIN outcome = Processes
      /\ \A p \in Processes :
           outcome[p].kind \in {"completed", "closedWithChanges"} => outcome[p].session \in Closed
      /\ \A p, q \in Processes : bound[p] # None /\ bound[q] # None => p = q
      /\ ~ lost => \A s, t \in OwnSessions : s = t
  BY DEF Promise!Meaning, Promise!EndIsOfClosed, Promise!OneAccompanies, Promise!OneActive, Closed
<1>1. SUFFICES
        /\ DOMAIN outcome' = Processes
        /\ \A p \in Processes :
             outcome'[p].kind \in {"completed", "closedWithChanges"} => outcome'[p].session \in Closed'
        /\ \A p, q \in Processes : bound'[p] # None /\ bound'[q] # None => p = q
        /\ ~ lost' => \A s, t \in OwnSessions' : s = t
  BY DEF Promise!Meaning, Promise!EndIsOfClosed, Promise!OneAccompanies, Promise!OneActive, Closed
<1>2. DOMAIN bound = Processes
  OBVIOUS
<1>3. ASSUME NEW s \in Sessions, Promise!Begin(s) \/ Promise!Close(s)
      PROVE  /\ outcome' = outcome /\ bound' = bound /\ lost' = lost /\ Closed \subseteq Closed'
             /\ ~ lost => \A x, y \in OwnSessions' : x = y
  BY <1>0, <1>3 DEF Promise!Begin, Promise!Close, Closed
<1>4. ASSUME NEW p \in Processes, Promise!Start(p)
      PROVE  /\ outcome' = [outcome EXCEPT ![p] = Promise!Nothing] /\ bound' = bound
             /\ lost' = lost /\ Closed' = Closed /\ OwnSessions' = OwnSessions
  BY <1>4 DEF Promise!Start, Closed
<1>5. ASSUME NEW p \in Processes, NEW s \in Sessions, Promise!Accompany(p, s)
      PROVE  /\ outcome' = outcome /\ bound' = [bound EXCEPT ![p] = s]
             /\ \A q \in Processes : bound[q] = None
             /\ lost' = lost /\ Closed' = Closed /\ OwnSessions' = OwnSessions
  BY <1>5 DEF Promise!Accompany, Closed
<1>6. ASSUME NEW p \in Processes, NEW s, NEW kind, Promise!Report(p, kind, s)
      PROVE  /\ outcome' = [outcome EXCEPT ![p] = [kind |-> kind, session |-> s]]
             /\ kind \in {"completed", "closedWithChanges"} => s \in Closed
             /\ bound' = [bound EXCEPT ![p] = None]
             /\ ~ lost' => ~ lost
             /\ Closed' = Closed /\ OwnSessions' = OwnSessions
  <2>1. lost' = lost \/ lost' = TRUE
    BY <1>6 DEF Promise!Report
  <2>2. ~ lost' => ~ lost
    BY <2>1, Zenon
  <2>3. /\ outcome' = [outcome EXCEPT ![p] = [kind |-> kind, session |-> s]]
        /\ kind \in {"completed", "closedWithChanges"} => s \in Closed
        /\ bound' = [bound EXCEPT ![p] = None]
        /\ Closed' = Closed /\ OwnSessions' = OwnSessions
    BY <1>6 DEF Promise!Report, Closed
  <2> QED BY <2>2, <2>3
<1>7. CASE UNCHANGED Promise!promise
  <2>1. /\ outcome' = outcome /\ bound' = bound /\ lost' = lost /\ Closed' = Closed
        /\ OwnSessions' = OwnSessions
    BY <1>7 DEF Promise!promise, Closed
  <2> HIDE DEF bound
  <2> QED BY <1>0, <2>1
<1> HIDE DEF bound
<1>8. Promise!Nothing.kind \notin {"completed", "closedWithChanges"}
  BY DEF Promise!Nothing
<1>9. CASE \E s \in Sessions : Promise!Begin(s) \/ Promise!Close(s)
  BY <1>0, <1>3, <1>9
<1>10. CASE \E p \in Processes : Promise!Start(p)
  BY <1>0, <1>4, <1>8, <1>10
<1>11. CASE \E p \in Processes, s \in Sessions : Promise!Accompany(p, s)
  BY <1>0, <1>2, <1>5, <1>11
<1>12. CASE \E p \in Processes : \E s, kind : Promise!Report(p, kind, s)
  <2> PICK p \in Processes : \E s, kind : Promise!Report(p, kind, s)
    BY <1>12
  <2> PICK s, kind : Promise!Report(p, kind, s)
    OBVIOUS
  <2>1. /\ outcome' = [outcome EXCEPT ![p] = [kind |-> kind, session |-> s]]
        /\ kind \in {"completed", "closedWithChanges"} => s \in Closed
        /\ bound' = [bound EXCEPT ![p] = None]
        /\ ~ lost' => ~ lost
        /\ Closed' = Closed /\ OwnSessions' = OwnSessions
    BY <1>6
  <2>2. \A q \in Processes :
          outcome'[q].kind \in {"completed", "closedWithChanges"} => outcome'[q].session \in Closed'
    BY <1>0, <2>1
  <2>3. \A q \in Processes : bound'[q] \in {bound[q], None}
    BY <1>2, <2>1
  <2> QED BY <1>0, <2>1, <2>2, <2>3
<1> QED
  BY <1>7, <1>9, <1>10, <1>11, <1>12 DEF Promise!Next

\* They follow from the abstract specification alone.
LEMMA PromiseMeans == Promise!Spec => []Promise!Meaning
<1>1. Promise!Init => DOMAIN outcome = Processes /\ Promise!Meaning
  BY DEF Promise!Init, Promise!Meaning, Promise!Nothing, Promise!EndIsOfClosed,
         Promise!OneAccompanies, Promise!OneActive
<1>2. /\ DOMAIN outcome = Processes /\ Promise!Meaning
      /\ [Promise!Next]_(Promise!promise)
      => (DOMAIN outcome = Processes /\ Promise!Meaning)'
  BY MeaningStep
<1> QED
  BY <1>1, <1>2, PTL DEF Promise!Spec

\* The end of a session - also one closed over uncommitted changes - is told of
\* one that is archived for good, two runs never accompany sessions of one
\* change at the same time, and unless a creation has escaped one is active.
THEOREM PromiseHolds == Spec => []Promise!Meaning
BY PromiseIsKept, PromiseMeans, PTL DEF KeepsPromise

-----------------------------------------------------------------------------
(* What success rests on (CompletionEvidence).                             *)

\* The added history variable leaves the behaviours of the loop as they are.
LEMMA EvidenceIsSpec == EvidenceSpec => Spec
<1>1. EvidenceInit => Init
  BY DEF EvidenceInit
<1>2. [EvidenceNext]_evidence => [Next]_vars
  BY DEF EvidenceNext, evidence, vars
<1> QED
  BY <1>1, <1>2, PTL DEF EvidenceSpec, Spec

\* Between the inspection that finds a session finished and the end of its
\* archiving it does nothing; from the reading of Git on it is verified.
Settled(p) ==
  /\ pc[p] = "tree" /\ run[p].seen = "finished" => session[run[p].target] \in {"idle", "archived"}
  /\ run[p].goal = "archive" =>
       /\ run[p].known \in Sessions
       /\ session[run[p].known] \in {"idle", "archived"}
       /\ run[p].known \in verified
  /\ pc[p] = "after" \/ call[p].op = "archive" => run[p].goal = "archive"

\* How p gets to the tree with a finished session and from there to archiving.
ComesToClose(p) ==
  /\ pc'[p] = "tree" /\ run'[p].seen = "finished" => session[run'[p].target] = "idle"
  /\ run'[p].goal = "archive" =>
       \/ run[p].goal = "archive" /\ run'[p].known = run[p].known
       \/ /\ ReadWorkingTree(p) /\ run[p].seen = "finished" /\ ~ dirty
          /\ run'[p].known = run[p].target
  /\ pc'[p] = "after" \/ call'[p].op = "archive" => run'[p].goal = "archive"

\* The three facts hold of every step of an invocation.
LEMMA ClosingBegins ==
  ASSUME TypeOK, NEW p \in Processes, LocalFacts(p), Settled(p),
         CommandStep(p) \/ Fault(p) \/ AcquireChangeLock(p)
  PROVE  ComesToClose(p)
<1>0. run[p] \in Locals
  BY DEF TypeOK
<1>1. /\ call[p].op # "none" <=> pc[p] = "call"
      /\ pc[p] = "before" => run[p].goal = "archive"
      /\ pc[p] = "after" \/ call[p].op = "archive" => run[p].goal = "archive"
  BY DEF LocalFacts, Facts, CallIsAwaited, ArchivesItsOwn, Settled
<1>2. ASSUME NEW kind, NEW s, Exit(p, kind, s)
      PROVE  ComesToClose(p)
  BY <1>2 DEF ComesToClose, Exit, Goto, FreshRun, NoCall, TypeOK
<1>3. ASSUME NEW place, NEW known, NEW prepared, NEW handed, place # "tree",
             place # "after", pc[p] # "call", NextIteration(p, place, known, prepared, handed)
      PROVE  ComesToClose(p)
  BY <1>1, <1>3 DEF ComesToClose, NextIteration, Iteration, FreshRun, Goto, TypeOK
<1>4. ASSUME NEW place, NEW r, place # "after", pc[p] # "call", Proceed(p, place, r),
             place = "tree" /\ r.seen = "finished" => session[r.target] = "idle",
             \/ r.goal # "archive"
             \/ r.goal = run[p].goal /\ r.known = run[p].known
      PROVE  ComesToClose(p)
  BY <1>1, <1>4 DEF ComesToClose, Proceed, Goto, TypeOK
<1>5. ASSUME NEW op \in {"workspace", "run", "archive"}, NEW w, NEW s, Send(p, op, w, s),
             op = "archive" => pc[p] = "before"
      PROVE  ComesToClose(p)
  BY <1>1, <1>5 DEF ComesToClose, Send, Goto, TypeOK
<1>6. pc[p] # "call" /\ ObservationChanged(p) => ComesToClose(p)
  BY <1>3 DEF ObservationChanged
<1>7. Obstacle(p) => ComesToClose(p)
  BY <1>2 DEF Obstacle
<1>8. pc[p] # "call" /\ HandToHuman(p) => ComesToClose(p)
  BY <1>3 DEF HandToHuman
<1>a. CASE FindActiveWorkspace(p)
  <2>1. LET r == [run[p] EXCEPT !.seen = "absent", !.ws = None]
        IN  r.seen = "absent" /\ r.goal = run[p].goal /\ r.known = run[p].known
    BY <1>0 DEF Locals
  <2>2. \A w : [run[p] EXCEPT !.ws = w, !.goal = "select"].goal = "select"
    BY <1>0 DEF Locals
  <2> QED
    BY <1>4, <1>7, <1>a, <2>1, <2>2 DEF FindActiveWorkspace
<1>b. CASE ListBroad(p)
  <2>1. LET r == [run[p] EXCEPT !.broad = OwnSessions]
        IN  r.goal = run[p].goal /\ r.known = run[p].known
    BY <1>0 DEF Locals
  <2> QED BY <1>4, <1>b, <2>1 DEF ListBroad
<1>c. CASE ListExact(p)
  <2>1. \A s : LET r == [run[p] EXCEPT !.target = s]
               IN  r.goal = run[p].goal /\ r.known = run[p].known
    BY <1>0 DEF Locals
  <2>2. LET r == [run[p] EXCEPT !.seen = "absent"]
        IN  r.seen = "absent" /\ r.goal = run[p].goal /\ r.known = run[p].known
    BY <1>0 DEF Locals
  <2>3. pc[p] = "exact"
    BY <1>c DEF ListExact
  <2>4. ASSUME NEW s, NEW place \in {"inspect", "inspectKnown"},
               Proceed(p, place, [run[p] EXCEPT !.target = s])
        PROVE  ComesToClose(p)
    BY <1>4, <2>1, <2>3, <2>4
  <2>5. Proceed(p, "tree", [run[p] EXCEPT !.seen = "absent"]) => ComesToClose(p)
    BY <1>4, <2>2, <2>3
  <2>6. Send(p, "run", run[p].ws, None) => ComesToClose(p)
    BY <1>5
  <2> QED BY <1>6, <1>7, <1>c, <2>3, <2>4, <2>5, <2>6 DEF ListExact
<1>d. CASE InspectToSelect(p)
  <2>1. LET r == [run[p] EXCEPT !.seen = "finished"]
        IN  r.target = run[p].target /\ r.goal = run[p].goal /\ r.known = run[p].known
    BY <1>0 DEF Locals
  <2>2. LET r == [run[p] EXCEPT !.seen = "closed"]
        IN  r.seen = "closed" /\ r.goal = run[p].goal /\ r.known = run[p].known
    BY <1>0 DEF Locals
  <2>3. session[run[p].target] = "idle" /\ pc[p] = "inspect"
          /\ Proceed(p, "tree", [run[p] EXCEPT !.seen = "finished"]) => ComesToClose(p)
    BY <1>4, <2>1
  <2>4. pc[p] # "call" /\ Proceed(p, "tree", [run[p] EXCEPT !.seen = "closed"]) => ComesToClose(p)
    BY <1>4, <2>2
  <2>5. pc[p] # "call"
    BY <1>d DEF InspectToSelect
  <2> QED BY <1>3, <1>7, <1>8, <1>d, <2>3, <2>4, <2>5 DEF InspectToSelect
<1>e. CASE ReadWorkingTree(p)
  <2>1. CASE /\ run[p].seen = "finished" /\ ~ dirty
             /\ Proceed(p, "fresh", [run[p] EXCEPT !.known = run[p].target, !.prepared = FALSE,
                                                   !.goal = "archive"])
    <3>1. pc'[p] = "fresh" /\ run'[p].known = run[p].target /\ call'[p] = call[p]
      BY <1>0, <2>1 DEF Proceed, Goto, TypeOK, Locals
    <3>2. pc[p] = "tree"
      BY <1>e DEF ReadWorkingTree
    <3> QED BY <1>1, <1>e, <2>1, <3>1, <3>2 DEF ComesToClose
  <2>2. [run[p] EXCEPT !.goal = "create"].goal = "create"
    BY <1>0 DEF Locals
  <2>3. pc[p] = "tree"
    BY <1>e DEF ReadWorkingTree
  <2>4. Proceed(p, "recheck", run[p]) \/ Proceed(p, "fresh", [run[p] EXCEPT !.goal = "create"]) => ComesToClose(p)
    BY <1>4, <2>2, <2>3
  <2> QED BY <1>2, <1>3, <1>8, <1>e, <2>1, <2>3, <2>4 DEF ReadWorkingTree
<1>f. CASE InspectToCreate(p) \/ InspectToArchive(p) \/ RecheckNoWorkspace(p)
           \/ FindFreshWorkspace(p) \/ InspectBeforeArchive(p) \/ InspectAfterArchive(p)
           \/ WaitReturns(p) \/ PauseEnds(p)
  BY <1>2, <1>4, <1>5, <1>6, <1>7, <1>f
     DEF InspectToCreate, InspectToArchive, RecheckNoWorkspace, FindFreshWorkspace,
         InspectBeforeArchive, InspectAfterArchive, WaitReturns, PauseEnds
<1>g. CASE ReceiveAnswer(p)
  BY <1>1, <1>g DEF ReceiveAnswer, Iteration, FreshRun, Goto, NoCall, TypeOK, ComesToClose
<1>h. CASE CallFails(p)
  <2>1. CASE ~ Obstacle(p)
    BY <1>1, <1>h, <2>1 DEF CallFails, Goto, NoCall, TypeOK, ComesToClose
  <2> QED BY <1>7, <2>1
<1>i. CASE Fault(p)
  BY <1>2, <1>6, <1>7, <1>i DEF Fault, SourceFails, Interrupt, WaitTimesOut
<1>j. CASE AcquireChangeLock(p)
  BY <1>1, <1>j DEF AcquireChangeLock, Goto, TypeOK, ComesToClose
<1> QED
  BY <1>a, <1>b, <1>c, <1>d, <1>e, <1>f, <1>g, <1>h, <1>i, <1>j DEF CommandStep

\* Nothing but the user takes an idle session anywhere else than to the archive.
LEMMA IdleStays ==
  ASSUME TypeOK, [Next]_vars, NEW s \in Sessions, session[s] \in {"idle", "archived"},
         ~ UserResumes(s)
  PROVE  session'[s] \in {"idle", "archived"}
<1>1. CASE session' = session
  BY <1>1
<1>2. ASSUME NEW t, ArchiveSession(t)
      PROVE  session'[s] \in {"idle", "archived"}
  BY <1>2 DEF ArchiveSession, TypeOK
<1>3. ASSUME NEW t, NEW w, RunSession(t, w)
      PROVE  session'[s] \in {"idle", "archived"}
  BY <1>3 DEF RunSession, TypeOK
<1>4. ASSUME NEW t, NEW from, NEW to, SessionBecomes(t, from, to),
             t # s \/ ("idle" \notin from /\ "archived" \notin from) \/ to = "archived"
      PROVE  session'[s] \in {"idle", "archived"}
  BY <1>4 DEF SessionBecomes, TypeOK
<1>5. CASE \E p \in Processes : CommandStep(p) \/ Fault(p) \/ AcquireChangeLock(p)
  BY <1>1, <1>5, CommandLeavesSessions
<1>6. CASE Daemon
  BY <1>1, <1>2, <1>3, <1>6 DEF Daemon, DaemonAnswers, DaemonExecutesLate, CreateWorkspace
<1>7. CASE \E t \in Sessions : Agent(t)
  BY <1>1, <1>4, <1>7 DEF Agent, AgentStarts, AgentWrites, AgentStops
<1>8. CASE User
  <2>1. ASSUME NEW t \in Sessions, UserResumes(t)
        PROVE  session'[s] \in {"idle", "archived"}
    <3>1. t # s
      BY <2>1
    <3> QED BY <1>4, <2>1, <3>1 DEF UserResumes
  <2> QED
    BY <1>1, <1>4, <1>8, <2>1 DEF User, UserArchives, UserArchivesWorkspace, UserEdits
<1> QED
  BY <1>1, <1>5, <1>6, <1>7, <1>8 DEF Next, vars

\* A session that stays quiet stays verified.
LEMMA VerifiedStays ==
  ASSUME EvidenceNext \/ UNCHANGED evidence, NEW s \in Sessions, s \in verified,
         session'[s] \in {"idle", "archived"}
  PROVE  s \in verified'
BY DEF EvidenceNext, evidence, TakenUp

\* A step keeps a run settled, while nobody resumes a session being closed.
LEMMA SettledStep ==
  ASSUME TypeOK, \A p \in Processes : LocalFacts(p), \A p \in Processes : Settled(p),
         EvidenceNext \/ UNCHANGED evidence,
         \A s \in Sessions : Closing(s) => ~ UserResumes(s),
         NEW p \in Processes
  PROVE  Settled(p)'
<1>0. [Next]_vars
  BY DEF EvidenceNext, evidence, vars
<1>1. CASE CommandStep(p) \/ Fault(p) \/ AcquireChangeLock(p)
  <2>1. session' = session
    BY <1>1, CommandLeavesSessions
  <2>2. ASSUME run[p].goal = "archive"
        PROVE  /\ run[p].known \in Sessions
               /\ session'[run[p].known] \in {"idle", "archived"}
               /\ run[p].known \in verified'
    BY <2>1, <2>2, VerifiedStays DEF Settled
  <2>3. ASSUME ReadWorkingTree(p), run[p].seen = "finished", ~ dirty
        PROVE  /\ run[p].target \in Sessions
               /\ session'[run[p].target] \in {"idle", "archived"}
               /\ run[p].target \in verified'
    <3>1. pc[p] = "tree"
      BY <2>3 DEF ReadWorkingTree
    <3>2. run[p].target \in Sessions
      BY <2>3, <3>1 DEF LocalFacts, Facts, TargetIsSession, Targets
    <3>3. session[run[p].target] \in {"idle", "archived"}
      BY <2>3, <3>1 DEF Settled
    <3>4. run[p].target \in ReadClean
      BY <2>3, <3>2, <3>3 DEF ReadClean, Working
    <3>5. run[p].target \notin TakenUp
      BY <2>1, <3>3 DEF TakenUp
    <3>6. EvidenceNext
      BY <2>3, <3>1 DEF evidence, vars, ReadWorkingTree, TypeOK, Exit, HandToHuman, NextIteration,
                        Proceed, Goto
    <3> QED BY <2>1, <3>2, <3>3, <3>4, <3>5, <3>6 DEF EvidenceNext
  <2> QED BY <1>1, <2>1, <2>2, <2>3, ClosingBegins DEF Settled, ComesToClose
<1>2. CASE ~ (CommandStep(p) \/ Fault(p) \/ AcquireChangeLock(p))
  <2>1. /\ pc'[p] = pc[p] /\ run'[p] = run[p]
        /\ call'[p].op = call[p].op
    BY <1>0, <1>2, OnlyOwnSteps DEF DaemonAnswers, TypeOK, Call
  <2>2. ASSUME NEW s \in Sessions, Closing(s), session[s] \in {"idle", "archived"}
        PROVE  session'[s] \in {"idle", "archived"}
    BY <1>0, <2>2, IdleStays
  <2>3. pc[p] = "tree" /\ run[p].seen = "finished" =>
          /\ run[p].target \in Sessions /\ Closing(run[p].target)
    BY DEF LocalFacts, Facts, TargetIsSession, Targets, Closing
  <2>4. run[p].goal = "archive" => run[p].known \in Sessions /\ Closing(run[p].known)
    BY DEF Settled, Closing
  <2> QED BY <2>1, <2>2, <2>3, <2>4, VerifiedStays DEF Settled
<1> QED BY <1>1, <1>2

\* What such a run reports completed has been verified.
LEMMA CompletedIsVerified ==
  ASSUME TypeOK, \A p \in Processes : LocalFacts(p), \A p \in Processes : Settled(p),
         ClosedIsArchived, EvidenceNext,
         NEW p \in Processes, outcome'[p] # outcome[p], outcome'[p].kind = "completed"
  PROVE  outcome'[p].session \in verified'
<1>0. [Next]_vars
  BY DEF EvidenceNext
<1>1. CommandStep(p) \/ Fault(p) \/ AcquireChangeLock(p)
  BY <1>0, OnlyOwnSteps DEF DaemonAnswers
<1>2. session' = session
  BY <1>1, CommandLeavesSessions
<1>3. outcome'[p].session \in Sessions /\ session[outcome'[p].session] = "archived"
  BY <1>1, CompletedWhenArchived
<1>4. outcome'[p].session \notin TakenUp
  BY <1>2, <1>3 DEF TakenUp
<1>5. ASSUME NEW kind, kind # "completed", NEW s, Exit(p, kind, s)
      PROVE  FALSE
  BY <1>5 DEF Exit, TypeOK
<1>6. CASE ReadWorkingTree(p)
  <2>1. /\ Exit(p, IF dirty THEN "closedWithChanges" ELSE "completed", run[p].target)
        /\ run[p].seen = "closed"
    BY <1>5, <1>6 DEF ReadWorkingTree, HandToHuman, NextIteration, Proceed
  <2>2. outcome'[p].session = run[p].target
    BY <2>1 DEF Exit, TypeOK
  <2>3. ~ dirty
    BY <1>5, <2>1
  <2>4. outcome'[p].session \in ReadClean
    BY <1>3, <1>6, <2>1, <2>2, <2>3 DEF ReadClean, Working
  <2> QED BY <1>4, <2>4 DEF EvidenceNext
<1>7. CASE InspectToArchive(p) \/ InspectBeforeArchive(p) \/ InspectAfterArchive(p)
  <2>1. outcome'[p].session = run[p].target
    BY <1>7 DEF InspectToArchive, InspectBeforeArchive, InspectAfterArchive, Obstacle,
                ObservationChanged, NextIteration, Proceed, Send, Exit, TypeOK
  <2>2. run[p].goal = "archive" /\ Targets(pc[p], run[p], call[p])
    BY <1>7 DEF InspectToArchive, InspectBeforeArchive, InspectAfterArchive, Targets, LocalFacts,
                Facts, ArchivesItsOwn, Settled
  <2>3. run[p].known \in Sessions /\ run[p].known \in verified
    BY <2>2 DEF Settled
  <2>4. run[p].target = run[p].known
    BY <2>2, <2>3, NoneAssumption DEF LocalFacts, Facts, KnownIsTarget
  <2> QED BY <1>4, <2>1, <2>3, <2>4 DEF EvidenceNext
<1>8. CASE AcquireChangeLock(p)
  BY <1>8 DEF AcquireChangeLock, NoOutcome, TypeOK
<1> QED
  BY <1>1, <1>5, <1>6, <1>7, <1>8
     DEF CommandStep, Fault, FindActiveWorkspace, ListBroad, ListExact, InspectToSelect,
         InspectToCreate, RecheckNoWorkspace, FindFreshWorkspace, ReceiveAnswer, CallFails,
         WaitReturns, PauseEnds, SourceFails, Interrupt, WaitTimesOut, Obstacle,
         ObservationChanged, HandToHuman, NextIteration, Proceed, Send

\* Success rests on a clean tree read after the last turn of the session,
\* however invocations, daemon, agents and edits interleave, as long as the user
\* gives no session new work that a run has seen finished and is about to
\* archive: that resumption is the only gap in CompletedAfterLastTurn.
THEOREM SuccessIsVerified == EvidenceSpec /\ NobodyResumesClosing => CompletedAfterLastTurn
<1>1. EvidenceInit => \A p \in Processes : Settled(p)
  BY DEF EvidenceInit, Init, FreshRun, NoCall, Settled
<1>2. /\ TypeOK /\ (\A p \in Processes : LocalFacts(p)) /\ (\A p \in Processes : Settled(p))
      /\ [EvidenceNext]_evidence
      /\ [\A s \in Sessions : Closing(s) => ~ UserResumes(s)]_evidence
      => (\A p \in Processes : Settled(p))'
  <2> SUFFICES ASSUME TypeOK, \A p \in Processes : LocalFacts(p), \A p \in Processes : Settled(p),
                      EvidenceNext \/ UNCHANGED evidence,
                      \/ \A s \in Sessions : Closing(s) => ~ UserResumes(s)
                      \/ UNCHANGED evidence
               PROVE  \A p \in Processes : Settled(p)'
    OBVIOUS
  <2>1. moves \in Nat
    BY MovesAssumption DEF TypeOK
  <2>2. UNCHANGED evidence => moves' = moves
    BY DEF evidence, vars
  <2>3. UNCHANGED evidence => \A s \in Sessions : ~ UserResumes(s)
    BY <2>1, <2>2 DEF UserResumes, UserMoves
  <2> QED BY <2>3, SettledStep
<1>3. /\ TypeOK /\ (\A p \in Processes : LocalFacts(p)) /\ (\A p \in Processes : Settled(p))
      /\ ClosedIsArchived /\ [EvidenceNext]_evidence
      => [\A p \in Processes :
            outcome'[p] # outcome[p] /\ outcome'[p].kind = "completed" =>
              outcome'[p].session \in verified']_evidence
  BY CompletedIsVerified
<1> QED
  BY <1>1, <1>2, <1>3, EvidenceIsSpec, TypeCorrect, FactsHold, ClosedHolds, PTL
     DEF EvidenceSpec, NobodyResumesClosing, CompletedAfterLastTurn
=============================================================================
