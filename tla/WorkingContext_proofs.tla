------------------------ MODULE WorkingContext_proofs ------------------------
(***************************************************************************)
(* Proofs about WorkingContext, for any set of roots.  What two commands   *)
(* said is related to the world of their call by three histories, and the  *)
(* invariants say how: what OpenSpec held at any moment of a resolution is *)
(* among `held`, answers of a call in which nothing moved are those of     *)
(* now, and the root of a repository that has been checked is still its    *)
(* root unless `swapped` says otherwise.                                   *)
(***************************************************************************)
EXTENDS WorkingContext, TLAPS

\* What moves leaves the run alone.
LEMMA WorldLeavesRun ==
  ASSUME World
  PROVE  UNCHANGED <<selected, cli, pc, answers, initial, opened, tree, end>>
BY DEF World, OpenSpecMoves, ChangeMoves, RepositoryMoves, TreeChanges, Moves, answers

\* The end of a run has the types of an end.
LEMMA EndType ==
  ASSUME TypeOK, NEW result \in {"failed", "unavailable", "inconsistent", "moved"}, End(result)
  PROVE  TypeOK'
BY DEF TypeOK, End, CallEnds, world

\* What a version of openspec prints for a resolution is one if it is accepted.
LEMMA AcceptedIsResolution ==
  ASSUME TypeOK, NEW c, parseRootSource(Printed(Reading(c)))
  PROVE  Printed(Reading(c)) \in Resolution /\ Printed(Reading(c)) = Reading(c)
<1>1. Reading(c) \in Resolution
  BY DEF Reading, Resolution, Placements, TypeOK
<1>2. Reading(c).source = "nearest" <=> Reading(c).id = None
  BY <1>1, NoneAssumption DEF Resolution
<1>3. cli.wellFormed
  <2> SUFFICES ASSUME ~ cli.wellFormed PROVE FALSE
    OBVIOUS
  <2>1. Printed(Reading(c)) = [Reading(c) EXCEPT !.id = IF @ = None THEN "other" ELSE None]
    BY DEF Printed
  <2>2. /\ Printed(Reading(c)).source = Reading(c).source
        /\ Printed(Reading(c)).id = IF Reading(c).id = None THEN "other" ELSE None
    BY <1>1, <2>1 DEF Resolution
  <2> QED BY <1>2, <2>2, NoneAssumption DEF parseRootSource
<1> QED
  BY <1>1, <1>3 DEF Printed

\* There are two answers when they are compared.
AnswersAreRead ==
  /\ pc \in {"status", "build"} => context \in Resolution
  /\ pc = "build" => status \in Resolution

\* Types and answers, whatever the commands of one call say.
LEMMA PlaceInvariant == Spec => [](TypeOK /\ AnswersAreRead)
<1>1. Init => TypeOK /\ AnswersAreRead
  <2> SUFFICES ASSUME Init PROVE TypeOK /\ AnswersAreRead
    OBVIOUS
  <2>1. cli \in CLI
    BY DEF Init, SoundCLI, CLI
  <2>2. held \in SUBSET Roots
    BY DEF Init, Truth
  <2> QED BY <2>1, <2>2 DEF Init, TypeOK, AnswersAreRead
<1>2. TypeOK /\ AnswersAreRead /\ [Next]_vars => TypeOK'
  <2> SUFFICES ASSUME TypeOK, AnswersAreRead, [Next]_vars PROVE TypeOK'
    OBVIOUS
  <2>1. CASE SourceFails
    BY <2>1, EndType DEF SourceFails
  <2>2. CASE ReadContext
    BY <2>2, AcceptedIsResolution DEF ReadContext, TypeOK, world, history
  <2>3. CASE ReadStatus
    BY <2>3, AcceptedIsResolution, EndType DEF ReadStatus, TypeOK, world, history
  <2>4. CASE BuildChangeContext
    <3>1. ASSUME NEW location \in {"open", "pass"}, Accept(location, status.root), Consistent,
                 pc = "build"
          PROVE  TypeOK'
      <4>1. status.root \in Roots
        BY <3>1 DEF AnswersAreRead, Resolution
      <4> QED BY <3>1, <4>1 DEF Accept, TypeOK, CallEnds, world
    <3> QED BY <2>4, <3>1, EndType DEF BuildChangeContext
  <2>5. CASE OpenRepository
    BY <2>5 DEF OpenRepository, TypeOK, Toplevel, Repositories, world, answers, history
  <2>6. CASE RefreshActiveChange \/ ReadWorkingTree
    <3>1. Truth \in SUBSET Roots
      BY DEF Truth
    <3> QED BY <2>6, <3>1 DEF RefreshActiveChange, ReadWorkingTree, NextCall, CallBegins, TypeOK,
                              world, answers
  <2>7. CASE CheckWorkingDirectory
    BY <2>7, EndType DEF CheckWorkingDirectory, TypeOK, world, answers, history
  <2>8. CASE CheckRoot
    BY <2>8, EndType DEF CheckRoot, TypeOK, world, answers, history
  <2>9. CASE LookAtTree
    BY <2>9 DEF LookAtTree, TypeOK, CallEnds, world, answers
  <2>10. CASE World
    <3>1. held' \in SUBSET Roots
      BY <2>10 DEF World, OpenSpecMoves, ChangeMoves, RepositoryMoves, TreeChanges, Moves, Truth,
                   history, TypeOK
    <3>2. quiet' \in BOOLEAN /\ swapped' \in BOOLEAN
      BY <2>10 DEF World, OpenSpecMoves, ChangeMoves, RepositoryMoves, TreeChanges, Moves, InCall,
                   history, TypeOK
    <3>3. /\ registry' \in Roots /\ placement' \in Placements
          /\ changeDir' \in [Roots -> {"none", "own", "link"}]
          /\ inner' \in BOOLEAN /\ sameCwd' \in BOOLEAN /\ dirty' \in [Repositories -> BOOLEAN]
      BY <2>10 DEF World, OpenSpecMoves, ChangeMoves, RepositoryMoves, TreeChanges, TypeOK
    <3> QED BY <2>10, <3>1, <3>2, <3>3, WorldLeavesRun DEF TypeOK, answers
  <2>11. CASE UNCHANGED vars
    BY <2>11 DEF vars, TypeOK
  <2> QED
    BY <2>1, <2>2, <2>3, <2>4, <2>5, <2>6, <2>7, <2>8, <2>9, <2>10, <2>11 DEF Next, Run
<1>3. TypeOK /\ AnswersAreRead /\ [Next]_vars => AnswersAreRead'
  <2> SUFFICES ASSUME TypeOK, AnswersAreRead, [Next]_vars PROVE AnswersAreRead'
    OBVIOUS
  <2>1. CASE Run /\ pc = "context"
    BY <2>1, AcceptedIsResolution
       DEF Run, SourceFails, End, ReadContext, ReadStatus, BuildChangeContext, OpenRepository,
           RefreshActiveChange, ReadWorkingTree, NextCall, CheckWorkingDirectory, CheckRoot,
           LookAtTree, AnswersAreRead
  <2>2. CASE Run /\ pc = "status"
    BY <2>2, AcceptedIsResolution
       DEF Run, SourceFails, End, ReadContext, ReadStatus, BuildChangeContext, OpenRepository,
           RefreshActiveChange, ReadWorkingTree, NextCall, CheckWorkingDirectory, CheckRoot,
           LookAtTree, AnswersAreRead, answers
  <2>3. CASE Run /\ pc \notin {"context", "status"}
    BY <2>3
       DEF Run, SourceFails, End, ReadContext, ReadStatus, BuildChangeContext, Accept,
           OpenRepository, RefreshActiveChange, ReadWorkingTree, NextCall, CheckWorkingDirectory,
           CheckRoot, LookAtTree, AnswersAreRead
  <2>4. CASE World \/ UNCHANGED vars
    BY <2>4, WorldLeavesRun DEF vars, answers, AnswersAreRead
  <2> QED BY <2>1, <2>2, <2>3, <2>4 DEF Next
<1> QED
  BY <1>1, <1>2, <1>3, PTL DEF Spec

\* Every variable keeps its type.
THEOREM PlaceTypeCorrect == Spec => []TypeOK
BY PlaceInvariant, PTL

-----------------------------------------------------------------------------
(* The change of a resolution was where the run takes it to be.            *)

Resolving == pc \in {"context", "status", "build"}

\* Where the change is now, it was during this call; and what `openspec status`
\* said of the place the run asked for, held then.
SeenInCall ==
  /\ Resolving => Truth \subseteq held
  /\ pc = "build" /\ (selected => status.source = "store") => status.root \in held

\* The answer of `openspec status` holds when it is given.
LEMMA StatusIsTrue ==
  ASSUME TypeOK, parseRootSource(Printed(Reading("status"))),
         changeDir[Printed(Reading("status")).root] # "none",
         selected => Printed(Reading("status")).source = "store"
  PROVE  Printed(Reading("status")).root \in Truth
<1>1. Printed(Reading("status")) = Reading("status") /\ Reading("status") \in Resolution
  BY AcceptedIsResolution
<1>2. Reading("status").root = Wanted
  <2>1. CASE selected /\ "status" \in cli.honours
    BY <2>1 DEF Reading, Wanted
  <2>2. CASE ~ selected
    BY <2>2 DEF Reading, Wanted
  <2>3. CASE selected /\ "status" \notin cli.honours
    <3>1. placement.source = "store"
      BY <1>1, <2>3 DEF Reading
    <3> QED BY <3>1, <2>3 DEF Placements, TypeOK
  <2> QED BY <2>1, <2>2, <2>3
<1>3. Reading("status").root \in Roots
  BY <1>1 DEF Resolution
<1> QED
  BY <1>1, <1>2, <1>3 DEF Truth

\* Every step of a call keeps it, and nothing that moves takes it away.
LEMMA SeenHolds == Spec => []SeenInCall
<1>1. Init => SeenInCall
  BY DEF Init, SeenInCall, Resolving
<1>2. TypeOK /\ AnswersAreRead /\ SeenInCall /\ [Next]_vars => SeenInCall'
  <2> SUFFICES ASSUME TypeOK, AnswersAreRead, SeenInCall, [Next]_vars PROVE SeenInCall'
    OBVIOUS
  <2>1. CASE \E result \in {"failed", "unavailable", "inconsistent", "moved"} : End(result)
    BY <2>1 DEF End, SeenInCall, Resolving
  <2>2. CASE ReadContext
    <3>1. Truth' = Truth /\ held' = held /\ pc' = "status" /\ pc = "context"
      BY <2>2 DEF ReadContext, Truth, Wanted, world, history
    <3> QED BY <3>1 DEF SeenInCall, Resolving
  <2>3. CASE ReadStatus /\ pc' = "build"
    <3>1. Truth' = Truth /\ held' = held /\ pc = "status" /\ selected' = selected
      BY <2>3 DEF ReadStatus, End, Truth, Wanted, world, history
    <3>2. /\ parseRootSource(Printed(Reading("status")))
          /\ changeDir[Printed(Reading("status")).root] # "none"
          /\ status' = Printed(Reading("status"))
      BY <2>3 DEF ReadStatus, End
    <3>3. (selected => status'.source = "store") => status'.root \in held
      BY <3>1, <3>2, StatusIsTrue DEF SeenInCall, Resolving
    <3> QED BY <3>1, <3>3, <2>3 DEF SeenInCall, Resolving
  <2>4. CASE pc' \in {"open", "pass", "cwd", "root", "look"}
    BY <2>4 DEF SeenInCall, Resolving
  <2>5. CASE RefreshActiveChange
    <3>1. Truth' = Truth /\ held' = Truth /\ pc' = "context"
      BY <2>5 DEF RefreshActiveChange, NextCall, CallBegins, Truth, Wanted, world
    <3> QED BY <3>1 DEF SeenInCall, Resolving
  <2>6. CASE World
    <3>1. Resolving => Truth' \subseteq held' /\ held \subseteq held'
      <4>1. CASE TreeChanges
        BY <4>1 DEF TreeChanges, SeenInCall, Resolving, Truth, Wanted, history
      <4>2. CASE Moves
        BY <4>2 DEF Moves, Resolving
      <4> QED BY <2>6, <4>1, <4>2 DEF World, OpenSpecMoves, ChangeMoves, RepositoryMoves
    <3> QED BY <2>6, <3>1, WorldLeavesRun DEF SeenInCall, Resolving, answers
  <2>7. CASE UNCHANGED vars
    BY <2>7 DEF vars, SeenInCall, Resolving, Truth, Wanted
  <2> QED
    BY <2>1, <2>2, <2>3, <2>4, <2>5, <2>6, <2>7
       DEF Next, Run, SourceFails, ReadStatus, BuildChangeContext, Accept, OpenRepository,
           ReadWorkingTree, NextCall, CheckWorkingDirectory, CheckRoot, LookAtTree
<1> QED
  BY <1>1, <1>2, PlaceInvariant, PTL DEF Spec

\* A run starts and goes on only where the change was during the call that says
\* so, though two commands said it and everything may have moved between them.
THEOREM RunIsWhereChangeWas == Spec => ActsOnlyForActiveChange
<1>1. TypeOK /\ AnswersAreRead /\ SeenInCall /\ [Next]_vars
      => [pc = "build" /\ pc' \in {"open", "pass"} => initial' \in held]_vars
  <2> SUFFICES ASSUME TypeOK, AnswersAreRead, SeenInCall, Next,
                      pc = "build", pc' \in {"open", "pass"}
               PROVE  initial' \in held
    OBVIOUS
  <2>1. pc' # pc
    OBVIOUS
  <2>2. BuildChangeContext
    BY <2>1, WorldLeavesRun
       DEF Next, Run, SourceFails, End, ReadContext, ReadStatus, OpenRepository,
           RefreshActiveChange, ReadWorkingTree, NextCall, CheckWorkingDirectory, CheckRoot,
           LookAtTree
  <2>3. Consistent /\ initial' = status.root
    BY <2>2 DEF BuildChangeContext, End, Accept
  <2>4. selected => status.source = "store"
    BY <2>3 DEF Consistent, SelectedStore
  <2> QED BY <2>3, <2>4 DEF SeenInCall
<1> QED
  BY <1>1, PlaceInvariant, SeenHolds, PTL DEF Spec, ActsOnlyForActiveChange

-----------------------------------------------------------------------------
(* The tree is that of the opened repository.                              *)

RootIsChecked == pc = "look" /\ ~ swapped => Toplevel = opened

\* The root that was checked stays the root, or the swap is remembered.
LEMMA CheckedRootStays == Spec => []RootIsChecked
<1>1. Init => RootIsChecked
  BY DEF Init, RootIsChecked
<1>2. TypeOK /\ RootIsChecked /\ [Next]_vars => RootIsChecked'
  <2> SUFFICES ASSUME TypeOK, RootIsChecked, [Next]_vars PROVE RootIsChecked'
    OBVIOUS
  <2>1. CASE Run
    BY <2>1
       DEF Run, SourceFails, End, ReadContext, ReadStatus, BuildChangeContext, Accept,
           OpenRepository, RefreshActiveChange, ReadWorkingTree, NextCall, CheckWorkingDirectory,
           CheckRoot, SameRoot, LookAtTree, RootIsChecked, Toplevel, world
  <2>2. CASE World
    <3>1. pc' = pc /\ opened' = opened
      BY <2>2, WorldLeavesRun
    <3>2. (inner' = inner /\ swapped' = swapped) \/ (pc = "look" => swapped')
      BY <2>2 DEF World, OpenSpecMoves, ChangeMoves, RepositoryMoves, TreeChanges, history
    <3> QED BY <3>1, <3>2 DEF RootIsChecked, Toplevel
  <2>3. CASE UNCHANGED vars
    BY <2>3 DEF vars, RootIsChecked, Toplevel
  <2> QED BY <2>1, <2>2, <2>3 DEF Next
<1> QED
  BY <1>1, <1>2, PlaceInvariant, PTL DEF Spec

\* What `git status` calls clean is the opened repository, unless another took
\* its place after `git rev-parse`.
THEOREM CleanIsItsOwn == Spec => CleanIsOfOpenedTree
<1>1. TypeOK /\ RootIsChecked /\ [Next]_vars
      => [pc = "look" /\ pc' = "pass" /\ tree' = "clean" => ~ dirty[opened] \/ swapped]_vars
  <2> SUFFICES ASSUME TypeOK, RootIsChecked, Next, pc = "look", pc' = "pass",
                      tree' = "clean", ~ swapped
               PROVE  ~ dirty[opened]
    OBVIOUS
  <2>1. LookAtTree
    BY WorldLeavesRun
       DEF Next, Run, SourceFails, End, ReadContext, ReadStatus, BuildChangeContext, Accept,
           OpenRepository, RefreshActiveChange, ReadWorkingTree, NextCall, CheckWorkingDirectory,
           CheckRoot
  <2>2. Reported = opened
    BY DEF RootIsChecked, Reported, Toplevel
  <2> QED BY <2>1, <2>2 DEF LookAtTree
<1> QED
  BY <1>1, PlaceInvariant, CheckedRootStays, PTL DEF Spec, CleanIsOfOpenedTree

-----------------------------------------------------------------------------
(* A sound openspec is believed as long as nothing moves.                  *)

\* Answers of a call in which nothing has moved say what they would say now.
AnswersAreCurrent ==
  quiet /\ cli = SoundCLI =>
    /\ pc \in {"status", "build"} => context = Reading("context")
    /\ pc = "build" => status = Reading("status") /\ changeDir[Wanted] # "none"

\* What a sound openspec answers, is what it prints, and is about the place
\* the run asks for.
LEMMA SoundAnswer ==
  ASSUME TypeOK, cli = SoundCLI, NEW c \in {"context", "status"}
  PROVE  /\ Printed(Reading(c)) = Reading(c)
         /\ parseRootSource(Reading(c))
         /\ Reading(c).root = Wanted
         /\ SelectedStore(Reading(c))
<1>1. cli.wellFormed = TRUE /\ cli.honours = {"context", "status"}
  BY DEF SoundCLI
<1>2. CASE selected
  <2>1. Reading(c) = [root |-> registry, source |-> "store", id |-> "selected"]
    BY <1>1, <1>2 DEF Reading
  <2> QED BY <1>1, <1>2, <2>1, NoneAssumption DEF Printed, parseRootSource, Wanted, SelectedStore
<1>3. CASE ~ selected
  <2>1. Reading(c) = placement
    BY <1>3 DEF Reading
  <2>2. placement.source = "nearest" <=> placement.id = None
    BY NoneAssumption DEF TypeOK, Placements, Resolution
  <2> QED BY <1>1, <1>3, <2>1, <2>2 DEF Printed, parseRootSource, Wanted, SelectedStore
<1> QED
  BY <1>2, <1>3 DEF TypeOK

\* A step of the run leaves the answers of a quiet call current.
LEMMA CurrentHolds == Spec => []AnswersAreCurrent
<1>1. Init => AnswersAreCurrent
  BY DEF Init, AnswersAreCurrent
<1>2. TypeOK /\ AnswersAreCurrent /\ [Next]_vars => AnswersAreCurrent'
  <2> SUFFICES ASSUME TypeOK, AnswersAreCurrent, [Next]_vars PROVE AnswersAreCurrent'
    OBVIOUS
  <2>1. CASE pc' \notin {"status", "build"}
    BY <2>1 DEF AnswersAreCurrent
  <2>2. CASE ReadContext
    <3>1. /\ Reading("context")' = Reading("context") /\ cli' = cli /\ quiet' = quiet
          /\ pc' = "status" /\ context' = Printed(Reading("context"))
      BY <2>2 DEF ReadContext, Reading, world, history
    <3> QED BY <3>1, SoundAnswer DEF AnswersAreCurrent
  <2>3. CASE ReadStatus /\ pc' = "build"
    <3>1. /\ Reading("context")' = Reading("context") /\ Reading("status")' = Reading("status")
          /\ cli' = cli /\ quiet' = quiet /\ context' = context /\ pc = "status"
          /\ status' = Printed(Reading("status"))
          /\ changeDir[Printed(Reading("status")).root] # "none"
          /\ changeDir[Wanted]' = changeDir[Wanted]
      BY <2>3 DEF ReadStatus, End, Reading, Wanted, world, history
    <3> QED BY <2>3, <3>1, SoundAnswer DEF AnswersAreCurrent
  <2>4. CASE TreeChanges
    BY <2>4 DEF TreeChanges, AnswersAreCurrent, Reading, Wanted, history, answers
  <2>5. CASE Moves /\ pc \in {"status", "build"}
    BY <2>5 DEF Moves, InCall, AnswersAreCurrent
  <2>6. CASE UNCHANGED vars
    BY <2>6 DEF vars, AnswersAreCurrent, Reading, Wanted
  <2>7. World => pc' = pc
    BY WorldLeavesRun
  <2> QED
    BY <2>1, <2>2, <2>3, <2>4, <2>5, <2>6, <2>7
       DEF Next, Run, SourceFails, End, ReadContext, ReadStatus, BuildChangeContext, Accept,
           OpenRepository, RefreshActiveChange, ReadWorkingTree, NextCall, CheckWorkingDirectory,
           CheckRoot, LookAtTree, World, OpenSpecMoves, ChangeMoves, RepositoryMoves
<1> QED
  BY <1>1, <1>2, PlaceInvariant, PTL DEF Spec

\* A run whose openspec is sound and that nothing has moved under, goes on: it
\* ends only over a failed command, a change that is gone or linked away, or a
\* place that is another one than at the start.
THEOREM QuietIsAccepted == Spec => QuietReadIsAccepted
<1> DEFINE Justified ==
       \/ end' = "failed"
       \/ end' = "unavailable" /\ changeDir[Wanted] = "none"
       \/ end' = "inconsistent" /\ changeDir[Wanted] = "link"
       \/ end' = "moved" /\ (Wanted # initial \/ ~ sameCwd \/ Toplevel # opened)
<1>1. TypeOK /\ AnswersAreCurrent /\ [Next]_vars
      => [quiet /\ cli = SoundCLI /\ pc # "ended" /\ pc' = "ended" => Justified]_vars
  <2> SUFFICES ASSUME TypeOK, AnswersAreCurrent, Next, quiet, cli = SoundCLI,
                      pc # "ended", pc' = "ended"
               PROVE  Justified
    OBVIOUS
  <2>1. CASE SourceFails
    BY <2>1 DEF SourceFails, End
  <2>2. CASE ReadStatus
    BY <2>2, SoundAnswer DEF ReadStatus, End
  <2>3. CASE BuildChangeContext
    <3>1. /\ context = Reading("context") /\ status = Reading("status")
          /\ changeDir[Wanted] # "none"
      BY <2>3 DEF BuildChangeContext, AnswersAreCurrent
    <3>2. context = status
      <4>1. cli.honours = {"context", "status"}
        BY DEF SoundCLI
      <4> QED BY <3>1, <4>1 DEF Reading
    <3>3. status.root = Wanted /\ SelectedStore(context) /\ cli.scope = TRUE
      BY <3>1, SoundAnswer DEF SoundCLI
    <3>4. CASE ~ Consistent /\ End("inconsistent")
      <4>1. changeDir[Wanted] # "own"
        BY <3>2, <3>3, <3>4 DEF Consistent, SameDirectory
      <4>2. Wanted \in Roots
        BY DEF Wanted, TypeOK, Placements, Resolution
      <4> QED BY <3>1, <3>4, <4>1, <4>2 DEF End, TypeOK
    <3>5. CASE ~ SamePlace(status.root) /\ End("moved")
      BY <3>3, <3>5 DEF SamePlace, End
    <3> QED BY <2>3, <3>4, <3>5 DEF BuildChangeContext, Accept
  <2>4. CASE CheckWorkingDirectory
    BY <2>4 DEF CheckWorkingDirectory, End
  <2>5. CASE CheckRoot
    BY <2>5 DEF CheckRoot, SameRoot, End
  <2> QED
    BY <2>1, <2>2, <2>3, <2>4, <2>5, WorldLeavesRun
       DEF Next, Run, ReadContext, OpenRepository, RefreshActiveChange, ReadWorkingTree, NextCall,
           LookAtTree
<1> QED
  BY <1>1, PlaceInvariant, CurrentHolds, PTL DEF Spec, QuietReadIsAccepted
=============================================================================
