-------------------------- MODULE PhaseOne_proofs --------------------------
(***************************************************************************)
(* The earlier loop keeps the promise of its successor, for one invocation *)
(* at a time (OneInvocation), any sets of sessions and workspaces and any  *)
(* bound on the user.                                                      *)
(*                                                                         *)
(* Most of its steps are steps of CommitPreparation, so the step lemmas of *)
(* CommitPreparation_proofs carry over.  Four are not: they go on where    *)
(* the successor reads the working tree first.  Each of them is shown to   *)
(* keep every part of the same inductive invariant and to have one of the  *)
(* effects that the abstract specification allows.                         *)
(***************************************************************************)
EXTENDS PhaseOne, CommitPreparation_proofs

-----------------------------------------------------------------------------
(* The steps that CommitPreparation does not have.                         *)

\* No workspace and no known session: one is created, whatever the tree.
RechecksAtOnce(p) ==
  /\ pc[p] = "workspaces"
  /\ run[p].known = None
  /\ Proceed(p, "recheck", run[p])

\* No session in the workspace and none known: one is created.
CreatesAtOnce(p) ==
  /\ pc[p] = "exact"
  /\ run[p].known = None
  /\ Proceed(p, "fresh", [run[p] EXCEPT !.goal = "create"])

\* A finished session is archived.
ArchivesAtOnce(p) ==
  /\ pc[p] = "inspect"
  /\ Proceed(p, "fresh", [run[p] EXCEPT !.known = run[p].target, !.goal = "archive"])

\* An archived session ends the run.
ReportsAtOnce(p) ==
  /\ pc[p] \in {"inspect", "inspectKnown"}
  /\ session[run[p].target] = "archived"
  /\ Exit(p, "completed", run[p].target)

Novel(p) ==
  /\ RechecksAtOnce(p) \/ CreatesAtOnce(p) \/ ArchivesAtOnce(p) \/ ReportsAtOnce(p)
  /\ UNCHANGED world

\* This loop hands nothing to the user and never gets to the tree.
Plain(p) == ~ run[p].handed /\ pc[p] # "tree"

\* Every step of the loop is one of its successor or one of the four.
LEMMA StepsOfPhaseOne ==
  ASSUME TypeOK, NEW p \in Processes, Plain(p), PhaseOneStep(p)
  PROVE  CommandStep(p) \/ Fault(p) \/ Novel(p)
<1>1. CASE FindPhaseOneWorkspace(p)
  BY <1>1 DEF FindPhaseOneWorkspace, FindActiveWorkspace, CommandStep, Novel, RechecksAtOnce
<1>2. CASE ListForChoice(p)
  BY <1>2 DEF ListForChoice, CreatesSession, Novel, CreatesAtOnce
<1>3. CASE SelectPhaseOneAction(p)
  <2>1. CASE Obstacle(p) /\ UNCHANGED world
    BY <1>3, <2>1 DEF SelectPhaseOneAction, SourceFails, Fault
  <2>2. CASE /\ pc[p] = "inspect" /\ session[run[p].target] \in Working
             /\ NextIteration(p, "wait", run[p].target, FALSE, FALSE)
    <3>1. run[p].handed = FALSE
      BY DEF TypeOK, Locals, Plain
    <3>2. InspectToSelect(p)
      BY <1>3, <2>2, <3>1 DEF SelectPhaseOneAction, InspectToSelect
    <3> QED BY <3>2 DEF CommandStep
  <2> QED
    BY <1>3, <2>1, <2>2 DEF SelectPhaseOneAction, NeedsHuman, Novel, ArchivesAtOnce, ReportsAtOnce
<1> QED
  BY <1>1, <1>2, <1>3 DEF PhaseOneStep, ListAsSuccessor, CommandStep

\* None of the four sends anything or touches the world; each leaves the run at
\* work with the lock, or ends it and gives the lock back.
LEMMA NovelIsOrderly ==
  ASSUME TypeOK, NEW p \in Processes, Novel(p)
  PROVE  /\ pc[p] # "off" /\ pc'[p] # "exact"
         /\ \/ owner' = owner /\ pc'[p] # "off"
            \/ owner' = None /\ pc'[p] = "off" /\ \E s, kind : Exit(p, kind, s)
         /\ call'[p] \in {call[p], NoCall}
         /\ dispatched' = dispatched
         /\ UNCHANGED world
<1>1. ASSUME NEW place \in {"recheck", "fresh"}, NEW r, Proceed(p, place, r)
      PROVE  /\ pc'[p] = place /\ owner' = owner /\ call'[p] = call[p]
             /\ dispatched' = dispatched
  BY <1>1 DEF Proceed, Goto, TypeOK
<1>2. ASSUME NEW kind, NEW s, Exit(p, kind, s)
      PROVE  /\ pc'[p] = "off" /\ owner' = None /\ call'[p] = NoCall
             /\ dispatched' = dispatched
  BY <1>2 DEF Exit, Goto, TypeOK
<1> QED
  BY <1>1, <1>2 DEF Novel, RechecksAtOnce, CreatesAtOnce, ArchivesAtOnce, ReportsAtOnce

\* They leave the other invocations alone.
LEMMA NovelLeavesOthers ==
  ASSUME TypeOK, NEW p \in Processes, NEW q \in Processes, p # q, Novel(q)
  PROVE  /\ pc'[p] = pc[p] /\ run'[p] = run[p] /\ call'[p] = call[p]
         /\ dispatched'[p] = dispatched[p] /\ outcome'[p] = outcome[p]
BY DEF Novel, RechecksAtOnce, CreatesAtOnce, ArchivesAtOnce, ReportsAtOnce, Proceed, Exit, Goto,
       TypeOK

\* What they make of the locals of the run.
LEMMA NovelLocals ==
  ASSUME TypeOK, NEW p \in Processes, Novel(p)
  PROVE  \/ \E place \in {"recheck", "fresh"}, r \in Locals :
              /\ Proceed(p, place, r)
              /\ r.handed = run[p].handed /\ r.target = run[p].target
              /\ \/ pc[p] = "inspect" /\ r.known = run[p].target /\ r.goal = "archive"
                 \/ /\ pc[p] \in {"workspaces", "exact"} /\ run[p].known = None
                    /\ r.known = None /\ r.goal \in {run[p].goal, "create"}
         \/ ReportsAtOnce(p)
<1>1. run[p] \in Locals
  BY DEF TypeOK
<1>2. CASE RechecksAtOnce(p)
  BY <1>1, <1>2 DEF RechecksAtOnce
<1>3. CASE CreatesAtOnce(p)
  <2> DEFINE r == [run[p] EXCEPT !.goal = "create"]
  <2>1. /\ r \in Locals /\ r.handed = run[p].handed /\ r.target = run[p].target
        /\ r.known = run[p].known /\ r.goal = "create"
    BY <1>1 DEF Locals
  <2> QED BY <1>3, <2>1 DEF CreatesAtOnce
<1>4. CASE ArchivesAtOnce(p)
  <2> DEFINE r == [run[p] EXCEPT !.known = run[p].target, !.goal = "archive"]
  <2>1. /\ r \in Locals /\ r.handed = run[p].handed /\ r.target = run[p].target
        /\ r.known = run[p].target /\ r.goal = "archive"
    BY <1>1 DEF Locals
  <2> QED BY <1>4, <2>1 DEF ArchivesAtOnce
<1> QED BY <1>2, <1>3, <1>4 DEF Novel

-----------------------------------------------------------------------------
(* They keep the invariant, part by part.                                  *)

\* They keep the types,
LEMMA NovelType ==
  ASSUME TypeOK, NEW p \in Processes, Novel(p)
  PROVE  TypeOK'
<1>1. CommandType /\ WorldType
  BY DEF TypeOK, CommandType, WorldType
<1>2. WorldType'
  BY <1>1, NovelIsOrderly DEF WorldType, world
<1>3. run[p].target \in Sessions \cup {None}
  BY DEF TypeOK, Locals
<1>4. CommandType'
  BY <1>1, <1>3, NovelLocals, ProceedType, ExitType DEF ReportsAtOnce, Location
<1> QED BY <1>2, <1>4 DEF TypeOK, CommandType, WorldType

\* the facts about the locals of a run,
LEMMA NovelFacts ==
  ASSUME TypeOK, NEW p \in Processes, LocalFacts(p), Plain(p), Novel(p)
  PROVE  LocalFacts(p)'
<1>1. CASE ReportsAtOnce(p)
  BY <1>1, ExitFacts DEF ReportsAtOnce
<1>2. ASSUME NEW place \in {"recheck", "fresh"}, NEW r \in Locals, Proceed(p, place, r),
             r.handed = run[p].handed, r.target = run[p].target,
             \/ pc[p] = "inspect" /\ r.known = run[p].target /\ r.goal = "archive"
             \/ /\ pc[p] \in {"workspaces", "exact"} /\ run[p].known = None
                /\ r.known = None /\ r.goal \in {run[p].goal, "create"}
      PROVE  LocalFacts(p)'
  <2>1. call[p].op = "none"
    BY <1>2 DEF LocalFacts, Facts, CallIsAwaited
  <2>2. pc[p] = "inspect" => run[p].target # None
    BY NoneAssumption DEF LocalFacts, Facts, TargetIsSession, Targets
  <2>3. dispatched[p] => run[p].known # None
    BY <1>2, <2>1 DEF LocalFacts, Facts, CreatedIsKnown
  <2>4. Facts(place, r, call[p], dispatched[p])
    BY <1>2, <2>1, <2>2, <2>3
       DEF Plain, Facts, CallIsAwaited, Targets, TargetIsSession, KnownIsTarget, CreatedIsKnown,
           ArchivesItsOwn
  <2> QED BY <1>2, <2>4, ProceedFacts
<1> QED BY <1>1, <1>2, NovelLocals

\* and name only what exists.
LEMMA NovelNames ==
  ASSUME TypeOK, NEW p \in Processes, LocalFacts(p), NamesExist(p), Novel(p)
  PROVE  NamesExist(p)'
<1>0. session' = session
  BY NovelIsOrderly DEF world
<1>1. CASE ReportsAtOnce(p)
  BY <1>1, ExitNames DEF ReportsAtOnce
<1>2. ASSUME NEW place \in {"recheck", "fresh"}, NEW r \in Locals, Proceed(p, place, r),
             \/ pc[p] = "inspect" /\ r.known = run[p].target
             \/ pc[p] \in {"workspaces", "exact"} /\ r.known = None
      PROVE  NamesExist(p)'
  <2>1. call[p].op = "none"
    BY <1>2 DEF LocalFacts, Facts, CallIsAwaited
  <2>2. Names(place, r, call[p])
    BY <1>2, <2>1 DEF NamesExist, Names, Targets
  <2> QED BY <1>0, <1>2, <2>2, ProceedNames
<1> QED BY <1>1, <1>2, NovelLocals

\* What they do to what the run has told and to whom it accompanies.
LEMMA NovelEffects ==
  ASSUME TypeOK, NEW p \in Processes, LocalFacts(p), NamesExist(p), Novel(p)
  PROVE  Effect(p)
<1>0. lost' = lost
  BY NovelIsOrderly DEF world
<1>1. pc[p] \in {"inspect", "inspectKnown"} =>
        Exists(run[p].target) /\ run[p].known \in {None, run[p].target}
  BY DEF NamesExist, Names, LocalFacts, Facts, KnownIsTarget, Targets
<1>2. CASE ReportsAtOnce(p)
  <2>1. EndsTruly(p)
    BY <1>0, <1>1, <1>2 DEF ReportsAtOnce, EndsTruly, Exists
  <2> QED BY <2>1 DEF Effect
<1>3. ASSUME NEW place, NEW r \in Locals, Proceed(p, place, r),
             \/ pc[p] = "inspect" /\ r.known = run[p].target
             \/ run[p].known = None /\ r.known = None
      PROVE  Effect(p)
  <2>1. run'[p] = r /\ outcome' = outcome
    BY <1>3 DEF Proceed, TypeOK
  <2> QED BY <1>0, <1>1, <1>3, <2>1 DEF Effect, KeepsBond, BindsTo
<1> QED BY <1>2, <1>3, NovelLocals

\* No step of the loop hands a session over or leads to the tree.
LEMMA PlainStep ==
  ASSUME TypeOK, NEW p \in Processes, Plain(p),
         PhaseOneStep(p) \/ Fault(p) \/ AcquireChangeLock(p)
  PROVE  Plain(p)'
<1>1. run[p] \in Locals /\ ~ run[p].handed
  BY DEF TypeOK, Plain
<1>2. ASSUME NEW kind, NEW s, Exit(p, kind, s)
      PROVE  Plain(p)'
  BY <1>2 DEF Exit, Goto, FreshRun, Plain, TypeOK
<1>3. ASSUME NEW place \in Location \ {"tree"}, NEW r, ~ r.handed, Proceed(p, place, r)
      PROVE  Plain(p)'
  BY <1>3 DEF Proceed, Goto, Plain, TypeOK
<1>4. ASSUME NEW place \in Location \ {"tree"}, NEW known, NEW prepared, NEW handed, ~ handed,
             NextIteration(p, place, known, prepared, handed)
      PROVE  Plain(p)'
  BY <1>4 DEF NextIteration, Iteration, FreshRun, Goto, Plain, TypeOK
<1>5. ASSUME NEW op, NEW w, NEW s, Send(p, op, w, s)
      PROVE  Plain(p)'
  BY <1>1, <1>5 DEF Send, Goto, Plain, TypeOK
<1>6. ObservationChanged(p) => Plain(p)'
  BY <1>1, <1>4 DEF ObservationChanged, Location
<1>7. Obstacle(p) => Plain(p)'
  BY <1>2 DEF Obstacle
<1>8. \A w : ~ [run[p] EXCEPT !.ws = w, !.goal = "select"].handed
  BY <1>1 DEF Locals
<1>a. CASE Novel(p)
  <2>1. CASE ReportsAtOnce(p)
    BY <1>2, <2>1 DEF ReportsAtOnce
  <2>2. ASSUME NEW place \in {"recheck", "fresh"}, NEW r \in Locals, Proceed(p, place, r),
               r.handed = run[p].handed
        PROVE  Plain(p)'
    <3>1. ~ r.handed
      BY <1>1, <2>2 DEF Locals
    <3>2. place \in Location \ {"tree"}
      BY <2>2 DEF Location
    <3> QED BY <1>3, <2>2, <3>1, <3>2
  <2> QED BY <1>a, <2>1, <2>2, NovelLocals
<1>b. CASE FindPhaseOneWorkspace(p)
  BY <1>1, <1>3, <1>7, <1>8, <1>b DEF FindPhaseOneWorkspace, Location
<1>c. CASE ListBroad(p)
  <2>1. ~ [run[p] EXCEPT !.broad = OwnSessions].handed
    BY <1>1 DEF Locals
  <2> QED BY <1>3, <1>c, <2>1 DEF ListBroad, Location
<1>d. CASE ListForChoice(p)
  <2>1. ~ [run[p] EXCEPT !.goal = "create"].handed
    BY <1>1 DEF Locals
  <2> QED BY <1>3, <1>d, <2>1 DEF ListForChoice, Location
<1>e. CASE ListAsSuccessor(p)
  <2>1. \A s : ~ [run[p] EXCEPT !.target = s].handed
    BY <1>1 DEF Locals
  <2>2. ~ Proceed(p, "tree", [run[p] EXCEPT !.seen = "absent"])
    BY <1>e DEF ListAsSuccessor, Proceed, Goto, TypeOK
  <2> QED
    BY <1>3, <1>5, <1>6, <1>7, <1>e, <2>1, <2>2 DEF ListAsSuccessor, ListExact, Location
<1>f. CASE SelectPhaseOneAction(p)
  <2>1. ~ [run[p] EXCEPT !.known = run[p].target, !.goal = "archive"].handed
    BY <1>1 DEF Locals
  <2> QED
    BY <1>2, <1>3, <1>4, <1>7, <1>f, <2>1 DEF SelectPhaseOneAction, NeedsHuman, Location
<1>g. CASE \/ InspectToCreate(p) \/ InspectToArchive(p) \/ RecheckNoWorkspace(p)
           \/ FindFreshWorkspace(p) \/ InspectBeforeArchive(p) \/ InspectAfterArchive(p)
           \/ WaitReturns(p)
  BY <1>1, <1>2, <1>3, <1>5, <1>6, <1>7, <1>g
     DEF InspectToCreate, InspectToArchive, RecheckNoWorkspace, FindFreshWorkspace,
         InspectBeforeArchive, InspectAfterArchive, WaitReturns, Location
<1>h. CASE ReceiveAnswer(p)
  <2>1. \A known, prepared : ~ Iteration(known, prepared, run[p].handed).handed
    BY <1>1 DEF Iteration, FreshRun
  <2>2. \/ run' = run
        \/ \E known, prepared :
             run' = [run EXCEPT ![p] = Iteration(known, prepared, run[p].handed)]
    BY <1>h DEF ReceiveAnswer, TypeOK
  <2>3. ~ run'[p].handed
    BY <1>1, <2>1, <2>2 DEF TypeOK
  <2>4. pc'[p] # "tree"
    BY <1>h DEF ReceiveAnswer, Goto, TypeOK
  <2> QED BY <2>3, <2>4 DEF Plain
<1>i. CASE CallFails(p)
  <2>1. CASE ~ Obstacle(p)
    BY <1>1, <1>i, <2>1 DEF CallFails, Goto, Plain, TypeOK
  <2> QED BY <1>7, <2>1
<1>j. CASE Fault(p)
  BY <1>2, <1>6, <1>7, <1>j DEF Fault, SourceFails, Interrupt, WaitTimesOut
<1>k. CASE AcquireChangeLock(p)
  BY <1>1, <1>k DEF AcquireChangeLock, Goto, Plain, TypeOK
<1> QED
  BY <1>a, <1>b, <1>c, <1>d, <1>e, <1>f, <1>g, <1>h, <1>i, <1>j, <1>k DEF PhaseOneStep

-----------------------------------------------------------------------------
(* The inductive invariant: that of CommitPreparation, without what is     *)
(* observed for the tree, and that the tree is never read.                 *)

PhaseOneInv ==
  /\ TypeOK
  /\ OneCommandPerChange
  /\ OneAtATime
  /\ \A p \in Processes : LocalFacts(p)
  /\ \A p \in Processes : NamesExist(p)
  /\ LateNamesExist
  /\ \A p \in Processes : Quiet(p)
  /\ \A p \in Processes : Plain(p)

\* What the invariant of CommitPreparation says of a closed session at the tree
\* holds because nobody is there.
LEMMA NobodyAtTree ==
  ASSUME PhaseOneInv
  PROVE  ClosedIsArchived
BY DEF PhaseOneInv, Plain, ClosedIsArchived

\* A step of the system is one that CommitPreparation has too, or one of the
\* four.
LEMMA PhaseOneSteps ==
  ASSUME PhaseOneInv, [PhaseOneNext]_vars
  PROVE  [Next]_vars \/ \E p \in Processes : Novel(p)
BY StepsOfPhaseOne DEF PhaseOneInv, PhaseOneNext, Next

\* Every part is kept by the steps of CommitPreparation,
LEMMA SharedStepKeeps ==
  ASSUME PhaseOneInv, [Next]_vars
  PROVE  /\ TypeOK' /\ OneCommandPerChange' /\ OneAtATime'
         /\ \A p \in Processes : LocalFacts(p)'
         /\ \A p \in Processes : NamesExist(p)'
         /\ LateNamesExist'
         /\ \A p \in Processes : Quiet(p)'
BY NobodyAtTree, TypeStep, LockStep, OneAtATimeStep, FactsStep, NamesStep, QuietStep DEF PhaseOneInv

\* and by the four,
LEMMA NovelKeeps ==
  ASSUME PhaseOneInv, NEW q \in Processes, Novel(q)
  PROVE  /\ TypeOK' /\ OneCommandPerChange' /\ OneAtATime'
         /\ \A p \in Processes : LocalFacts(p)'
         /\ \A p \in Processes : NamesExist(p)'
         /\ LateNamesExist'
         /\ \A p \in Processes : Quiet(p)'
<1> USE DEF PhaseOneInv
<1>1. session' = session /\ late' = late /\ lost' = lost
  BY NovelIsOrderly DEF world
<1>2. OwnSessions' = OwnSessions
  BY <1>1 DEF OwnSessions
<1>3. TypeOK'
  BY NovelType
<1>4. OneCommandPerChange'
  <2> SUFFICES ASSUME NEW p \in Processes PROVE pc'[p] # "off" <=> owner' = p
    BY DEF OneCommandPerChange
  <2>1. owner = q /\ (pc[p] # "off" <=> owner = p)
    BY NovelIsOrderly DEF OneCommandPerChange
  <2>2. CASE p = q
    BY <2>1, <2>2, NovelIsOrderly, NoneAssumption
  <2>3. CASE p # q
    BY <2>1, <2>3, NovelIsOrderly, NovelLeavesOthers, NoneAssumption
  <2> QED BY <2>2, <2>3
<1>5. OneAtATime'
  <2> SUFFICES ASSUME ~ lost, NEW p \in Processes
               PROVE  /\ pc'[p] = "exact" => OwnSessions \subseteq run'[p].broad
                      /\ call'[p].op = "run" /\ call'[p].state = "sent" => OwnSessions = {}
    BY <1>1, <1>2 DEF OneAtATime
  <2>1. CASE p = q
    BY <2>1, NovelIsOrderly DEF OneAtATime, NoCall
  <2>2. CASE p # q
    BY <2>2, NovelLeavesOthers DEF OneAtATime
  <2> QED BY <2>1, <2>2
<1>6. ASSUME NEW p \in Processes PROVE LocalFacts(p)'
  <2>1. CASE p # q
    BY <2>1, NovelLeavesOthers DEF LocalFacts
  <2> QED BY <2>1, NovelFacts
<1>7. ASSUME NEW p \in Processes PROVE NamesExist(p)'
  <2>1. CASE p # q
    BY <1>1, <2>1, NovelLeavesOthers DEF NamesExist, Names, Exists
  <2> QED BY <2>1, NovelNames
<1>8. LateNamesExist'
  BY <1>1 DEF LateNamesExist, Exists
<1>9. ASSUME NEW p \in Processes PROVE Quiet(p)'
  <2>1. CASE p # q
    BY <2>1, NovelLeavesOthers DEF Quiet
  <2>2. CASE p = q
    BY <2>2, NovelEffects, NovelIsOrderly, EffectIsQuiet
  <2> QED BY <2>1, <2>2
<1> QED BY <1>3, <1>4, <1>5, <1>6, <1>7, <1>8, <1>9

\* so the invariant is inductive.
LEMMA PhaseOneInvStep ==
  ASSUME PhaseOneInv, [PhaseOneNext]_vars
  PROVE  PhaseOneInv'
<1>1. /\ TypeOK' /\ OneCommandPerChange' /\ OneAtATime'
      /\ \A p \in Processes : LocalFacts(p)'
      /\ \A p \in Processes : NamesExist(p)'
      /\ LateNamesExist'
      /\ \A p \in Processes : Quiet(p)'
  BY PhaseOneSteps, SharedStepKeeps, NovelKeeps
<1>2. ASSUME NEW p \in Processes PROVE Plain(p)'
  <2>0. TypeOK /\ Plain(p)
    BY DEF PhaseOneInv
  <2>1. CASE PhaseOneStep(p) \/ Fault(p) \/ AcquireChangeLock(p)
    BY <2>0, <2>1, PlainStep
  <2>2. CASE ~ (PhaseOneStep(p) \/ Fault(p) \/ AcquireChangeLock(p))
    <3>1. CASE \E q \in Processes : PhaseOneStep(q) \/ Fault(q) \/ AcquireChangeLock(q)
      <4>1. PICK q \in Processes : PhaseOneStep(q) \/ Fault(q) \/ AcquireChangeLock(q)
        BY <3>1
      <4>2. CommandStep(q) \/ Fault(q) \/ AcquireChangeLock(q) \/ Novel(q)
        BY <2>0, <4>1, StepsOfPhaseOne DEF PhaseOneInv
      <4>3. p # q
        BY <2>2, <4>1
      <4> QED BY <2>0, <4>2, <4>3, OthersLeaveAlone, NovelLeavesOthers DEF Plain
    <3>2. CASE UNCHANGED command \/ UNCHANGED vars \/ \E q \in Processes : DaemonAnswers(q)
      BY <2>0, <3>2 DEF command, vars, DaemonAnswers, Plain
    <3> QED BY <3>1, <3>2, WorldLeavesCommand DEF PhaseOneNext, Daemon
  <2> QED BY <2>1, <2>2
<1> QED BY <1>1, <1>2 DEF PhaseOneInv

\* The invariant holds from the start.
LEMMA PhaseOneInvHolds == PhaseOneSpec => []PhaseOneInv
<1>1. Init => PhaseOneInv
  <2>1. Init => \A p \in Processes : Plain(p)
    BY DEF Init, FreshRun, Plain
  <2> QED
    BY <2>1, InitType, InitLock, InitOneAtATime, InitFacts, InitNames, InitQuiet DEF PhaseOneInv
<1>2. PhaseOneInv /\ [PhaseOneNext]_vars => PhaseOneInv'
  BY PhaseOneInvStep
<1> QED BY <1>1, <1>2, PTL DEF PhaseOneSpec

-----------------------------------------------------------------------------
(* The theorems.                                                           *)

\* The variables keep their types in the earlier loop as well.
THEOREM PhaseOneTypeCorrect == PhaseOneSpec => []TypeOK
BY PhaseOneInvHolds, PTL DEF PhaseOneInv

\* As long as no creation was lost, the change has at most one active session:
\* not reading the working tree costs no exclusion.
THEOREM PhaseOneAtMostOneSession == PhaseOneSpec => []OneAssignment
<1>1. PhaseOneInv => OneAssignment
  BY DEF PhaseOneInv, OneAtATime, OneAssignment
<1> QED
  BY <1>1, PhaseOneInvHolds, PTL

\* What one of the four reports a success of is archived when it is reported.
LEMMA NovelCompletes ==
  ASSUME PhaseOneInv, CompletedIsArchived, NEW q \in Processes, Novel(q)
  PROVE  CompletedIsArchived'
<1> SUFFICES ASSUME NEW p \in Processes, outcome'[p].kind = "completed"
             PROVE  /\ outcome'[p].session \in Sessions
                    /\ session'[outcome'[p].session] = "archived"
  BY DEF CompletedIsArchived
<1>1. session' = session
  BY NovelIsOrderly DEF PhaseOneInv, world
<1>2. CASE p # q
  BY <1>1, <1>2, NovelLeavesOthers DEF PhaseOneInv, CompletedIsArchived
<1>3. CASE p = q /\ ReportsAtOnce(q)
  <2>1. outcome'[p] = [kind |-> "completed", session |-> run[p].target]
    BY <1>3 DEF ReportsAtOnce, Exit, PhaseOneInv, TypeOK
  <2>2. Exists(run[p].target)
    BY <1>3 DEF ReportsAtOnce, PhaseOneInv, NamesExist, Names, Targets
  <2> QED
    BY <1>1, <1>3, <2>1, <2>2 DEF ReportsAtOnce, Exists
<1>4. CASE p = q /\ ~ ReportsAtOnce(q)
  <2>1. outcome' = outcome
    BY <1>4, NovelLocals DEF PhaseOneInv, Proceed
  <2> QED
    BY <1>1, <2>1 DEF CompletedIsArchived
<1> QED
  BY <1>2, <1>3, <1>4

\* Success always speaks of a session that is archived for certain, though
\* this loop reports it in one place more.
THEOREM PhaseOneSuccessIsArchived == PhaseOneSpec => []CompletedIsArchived
<1>1. PhaseOneInv /\ CompletedIsArchived /\ [PhaseOneNext]_vars => CompletedIsArchived'
  <2> SUFFICES ASSUME PhaseOneInv, CompletedIsArchived, [PhaseOneNext]_vars
               PROVE  CompletedIsArchived'
    OBVIOUS
  <2>1. CASE [Next]_vars
    BY <2>1, NobodyAtTree, CompletedStep DEF PhaseOneInv
  <2>2. CASE \E p \in Processes : Novel(p)
    BY <2>2, NovelCompletes
  <2> QED
    BY <2>1, <2>2, PhaseOneSteps
<1> QED
  BY <1>1, InitCompleted, PhaseOneInvHolds, PTL DEF PhaseOneSpec

\* One run sends `paseo run` at most once, in this loop too.
THEOREM PhaseOneRunIsSentOnce == PhaseOneSpec => SendsRunOnce
<1>1. PhaseOneInv /\ [PhaseOneNext]_vars
        => [\A p \in Processes : call[p].op # "run" /\ call'[p].op = "run" => ~ dispatched[p]]_vars
  <2> SUFFICES ASSUME PhaseOneInv, [PhaseOneNext]_vars, NEW p \in Processes,
                      call[p].op # "run", call'[p].op = "run"
               PROVE  ~ dispatched[p]
    OBVIOUS
  <2>1. CASE [Next]_vars
    BY <2>1, SendsOnceStep DEF PhaseOneInv
  <2>2. ASSUME NEW q \in Processes, Novel(q)
        PROVE  FALSE
    <3>1. call'[p] \in {call[p], NoCall}
      BY <2>2, NovelIsOrderly, NovelLeavesOthers DEF PhaseOneInv
    <3> QED BY <3>1 DEF NoCall
  <2> QED
    BY <2>1, <2>2, PhaseOneSteps
<1> QED
  BY <1>1, PhaseOneInvHolds, PTL DEF PhaseOneSpec, SendsRunOnce

\* The session of a run stays the same until the run ends, in this loop too.
THEOREM PhaseOneKnownStays == PhaseOneSpec => KnownSessionIsKept
<1>1. PhaseOneInv /\ [PhaseOneNext]_vars
        => [\A p \in Processes :
              run[p].known # None /\ pc'[p] # "off" => run'[p].known = run[p].known]_vars
  <2> SUFFICES ASSUME PhaseOneInv, [PhaseOneNext]_vars, NEW p \in Processes,
                      run[p].known # None, pc'[p] # "off"
               PROVE  run'[p].known = run[p].known
    OBVIOUS
  <2>1. CASE [Next]_vars
    BY <2>1, KnownStep DEF PhaseOneInv
  <2>2. ASSUME NEW q \in Processes, Novel(q), p # q
        PROVE  run'[p].known = run[p].known
    BY <2>2, NovelLeavesOthers DEF PhaseOneInv
  <2>3. CASE Novel(p)
    <3>1. CASE ReportsAtOnce(p)
      BY <3>1 DEF ReportsAtOnce, Exit, Goto, PhaseOneInv, TypeOK
    <3>2. ASSUME NEW place, NEW r \in Locals, Proceed(p, place, r),
                 pc[p] = "inspect", r.known = run[p].target
          PROVE  run'[p].known = run[p].known
      <4>1. run[p].known = run[p].target
        BY <3>2 DEF PhaseOneInv, LocalFacts, Facts, KnownIsTarget, Targets
      <4>2. run'[p] = r
        BY <3>2 DEF Proceed, PhaseOneInv, TypeOK
      <4> QED BY <3>2, <4>1, <4>2
    <3> QED
      BY <2>3, <3>1, <3>2, NovelLocals DEF PhaseOneInv
  <2> QED
    BY <2>1, <2>2, <2>3, PhaseOneSteps
<1> QED
  BY <1>1, PhaseOneInvHolds, PTL DEF PhaseOneSpec, KnownSessionIsKept

\* One of the four is a step of the promise or invisible to it.
LEMMA NovelRefines ==
  ASSUME PhaseOneInv, NEW p \in Processes, Novel(p)
  PROVE  [Promise!Next]_(Promise!promise)
<1>1. TypeOK /\ OneCommandPerChange /\ (\A q \in Processes : Quiet(q))
  BY DEF PhaseOneInv
<1>2. Effect(p)
  BY NovelEffects DEF PhaseOneInv
<1>3. pc[p] # "off" /\ session' = session
  BY <1>1, NovelIsOrderly DEF world
<1>4. \A q \in Processes \ {p} : run'[q] = run[q]
  BY <1>1, NovelLeavesOthers
<1> QED
  BY <1>1, <1>2, <1>3, <1>4, EffectRefines

\* PhaseOne implements Assignment: the earlier loop keeps the promise of its
\* successor, whatever the interleaving with daemon, agents and user.
THEOREM PhaseOnePromiseIsKept == PhaseOneSpec => PhaseOneKeepsPromise
<1>1. Init => Promise!Init
  BY InitRefines
<1>2. PhaseOneInv /\ [PhaseOneNext]_vars => [Promise!Next]_(Promise!promise)
  <2> SUFFICES ASSUME PhaseOneInv, [PhaseOneNext]_vars
               PROVE  [Promise!Next]_(Promise!promise)
    OBVIOUS
  <2>1. CASE [Next]_vars
    BY <2>1, NobodyAtTree, NextRefines DEF PhaseOneInv
  <2>2. CASE \E p \in Processes : Novel(p)
    BY <2>2, NovelRefines
  <2> QED
    BY <2>1, <2>2, PhaseOneSteps
<1> QED
  BY <1>1, <1>2, PhaseOneInvHolds, PTL DEF PhaseOneSpec, PhaseOneKeepsPromise, Promise!Spec

\* Hence what the promise amounts to for this loop: a completed session is
\* archived for good, and unless a creation has escaped one session is active.
THEOREM PhaseOnePromiseHolds == PhaseOneSpec => []Promise!Meaning
BY PhaseOnePromiseIsKept, PromiseMeans, PTL DEF PhaseOneKeepsPromise
=============================================================================
