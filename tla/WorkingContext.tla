--------------------------- MODULE WorkingContext ---------------------------
(***************************************************************************)
(* What a run takes for its place: the root in which OpenSpec plans the    *)
(* selected change, and the Git repository of the working directory.  The  *)
(* place is resolved once at the start and then checked in every pass,     *)
(* each time by several commands - `openspec context` and `openspec        *)
(* status`, `git rev-parse` and `git status` - with the file system and    *)
(* the user free to move things between any two of them.                   *)
(*                                                                         *)
(* A command is one look or fails, which is what module ChildCommand shows *)
(* of an answer.  Directories stand for canonical paths; the two commands  *)
(* of openspec name the same directory differently.                        *)
(***************************************************************************)
CONSTANTS
  Roots,       \* directories that may hold an OpenSpec root
  None         \* no root, no store, no repository

ASSUME NoneAssumption == None \notin Roots \cup {"selected", "other", "outer", "inner"}

VARIABLES
  selected,    \* the run was given --store
  cli,         \* what the installed openspec does
  registry,    \* the root of the selected store
  placement,   \* what openspec resolves without --store
  changeDir,   \* changeDir[r]: the directory of the change in root r
  inner,       \* the working directory is the root of a nested repository
  sameCwd,     \* the requested path leads to the directory it led to
  dirty,       \* dirty[g]: uncommitted changes in the repository g
  pc,          \* what the run does next
  context,     \* checked answer of `openspec context`, or None
  status,      \* checked answer of `openspec status`, or None
  initial,     \* initialChange: the root the run was started for
  opened,      \* Repository.root
  tree,        \* result of the latest Repository.Read
  end,         \* how the run has ended
  held,        \* history: where the change was during this call
  quiet,       \* history: nothing has moved during this call
  swapped      \* history: the repository changed after the check of the root

world   == <<selected, cli, registry, placement, changeDir, inner, sameCwd, dirty>>
answers == <<context, status>>
history == <<held, quiet, swapped>>
vars == <<selected, cli, registry, placement, changeDir, inner, sameCwd, dirty,
          pc, context, status, initial, opened, tree, end, held, quiet, swapped>>
-----------------------------------------------------------------------------
(* The world.                                                              *)

Repositories == {"outer", "inner"}

\* A resolution of OpenSpec: the root, why this one, and the store it is.
Resolution ==
  [root: Roots, source: {"store"}, id: {"selected"}]
  \cup [root: Roots, source: {"declared"}, id: {"other"}]
  \cup [root: Roots, source: {"nearest"}, id: {None}]

\* Without --store no command of openspec speaks of a store.
Placements == {r \in Resolution : r.source # "store"}

\* Versions of openspec: the commands that obey --store, whether the planning
\* home is among the roots it allows to edit, whether source and store agree.
CLI == [honours: SUBSET {"context", "status"}, scope: BOOLEAN, wellFormed: BOOLEAN]

SoundCLI == [honours |-> {"context", "status"}, scope |-> TRUE, wellFormed |-> TRUE]

\* Where OpenSpec plans the selected change, and whether it is active there.
Wanted == IF selected THEN registry ELSE placement.root

Truth == {r \in Roots : r = Wanted /\ changeDir[r] # "none"}

Toplevel == IF inner THEN "inner" ELSE "outer"

TypeOK ==
  /\ selected \in BOOLEAN
  /\ cli \in CLI
  /\ registry \in Roots
  /\ placement \in Placements
  /\ changeDir \in [Roots -> {"none", "own", "link"}]
  /\ inner \in BOOLEAN
  /\ sameCwd \in BOOLEAN
  /\ dirty \in [Repositories -> BOOLEAN]
  /\ pc \in {"context", "status", "build", "open", "pass", "cwd", "root", "look", "ended"}
  /\ context \in Resolution \cup {None}
  /\ status \in Resolution \cup {None}
  /\ initial \in Roots \cup {None}
  /\ opened \in Repositories \cup {None}
  /\ tree \in {"unread", "clean", "dirty"}
  /\ end \in {"none", "failed", "unavailable", "inconsistent", "moved"}
  /\ held \in SUBSET Roots
  /\ quiet \in BOOLEAN
  /\ swapped \in BOOLEAN

Init ==
  /\ selected \in BOOLEAN
  /\ \/ cli \in {[SoundCLI EXCEPT !.scope = FALSE], [SoundCLI EXCEPT !.wellFormed = FALSE]}
     \/ cli \in {[SoundCLI EXCEPT !.honours = c] :
                   c \in IF selected THEN SUBSET SoundCLI.honours ELSE {SoundCLI.honours}}
  /\ registry \in Roots
  /\ placement \in Placements
  /\ changeDir \in [Roots -> {"none", "own", "link"}]
  /\ inner \in BOOLEAN
  /\ sameCwd = TRUE
  /\ dirty = [g \in Repositories |-> TRUE]
  /\ pc = "context"
  /\ context = None
  /\ status = None
  /\ initial = None
  /\ opened = None
  /\ tree = "unread"
  /\ end = "none"
  /\ held = Truth
  /\ quiet = TRUE
  /\ swapped = FALSE
-----------------------------------------------------------------------------
(* Calls, and the end of a run.                                            *)

CallBegins == held' = Truth /\ quiet' = TRUE /\ swapped' = FALSE

CallEnds == held' = {} /\ quiet' = TRUE /\ swapped' = FALSE

InCall == pc \notin {"open", "pass", "ended"}

End(result) ==
  /\ pc' = "ended"
  /\ end' = result
  /\ context' = None
  /\ status' = None
  /\ initial' = None
  /\ opened' = None
  /\ tree' = "unread"
  /\ CallEnds
  /\ UNCHANGED world

\* A command fails, hits its deadline, prints too much or no valid document.
SourceFails == pc \notin {"pass", "ended"} /\ End("failed")

-----------------------------------------------------------------------------
(* ResolveChange: two commands, then one comparison.                       *)

\* What the command c says now.
Reading(c) ==
  IF selected /\ c \in cli.honours
    THEN [root |-> registry, source |-> "store", id |-> "selected"]
    ELSE placement

\* Mutant: source and store are not compared.
AnySource(resolution) == TRUE

\* parseRootSource: a store has an identifier, a directory has none.
parseRootSource(resolution) == resolution.source = "nearest" <=> resolution.id = None

\* What is printed for it: another version may print a store for a directory.
Printed(resolution) ==
  IF cli.wellFormed THEN resolution
  ELSE [resolution EXCEPT !.id = IF @ = None THEN "other" ELSE None]

ReadContext ==
  LET printed == Printed(Reading("context")) IN
  /\ pc = "context"
  /\ parseRootSource(printed)
  /\ context' = printed
  /\ pc' = "status"
  /\ UNCHANGED <<world, status, initial, opened, tree, end, history>>

\* change_error in the diagnostics of the failed command: ErrChangeUnavailable.
ReadStatus ==
  LET printed == Printed(Reading("status")) IN
  /\ pc = "status"
  /\ \/ /\ changeDir[printed.root] = "none"
        /\ End("unavailable")
     \/ /\ changeDir[printed.root] # "none"
        /\ parseRootSource(printed)
        /\ status' = printed
        /\ pc' = "build"
        /\ UNCHANGED <<world, context, initial, opened, tree, end, history>>

\* Mutant: paths are compared as they are printed, which is never alike.
SameSpelling(a, b) == FALSE

\* canonicalExistingDirectory on both sides.
SameDirectory(a, b) == a.root = b.root

\* Mutant: --store is taken for granted.
AnySelection(resolution) == TRUE

SelectedStore(resolution) ==
  selected => resolution.source = "store" /\ resolution.id = "selected"

\* buildChangeContext; the directory of the change lies in the changes
\* directory of the planning home, which it does not when it is a link.
Consistent ==
  /\ SameDirectory(context, status)
  /\ context.source = status.source
  /\ context.id = status.id
  /\ changeDir[status.root] = "own"
  /\ SelectedStore(context)
  /\ cli.scope

\* The key of the change and its root, compared with those of the start.
SamePlace(root) == root = initial

Accept(location, root) ==
  /\ pc' = location
  /\ initial' = root
  /\ context' = None
  /\ status' = None
  /\ CallEnds
  /\ UNCHANGED <<world, opened, tree, end>>

\* The first resolution fixes the place, RefreshActiveChange insists on it.
BuildChangeContext ==
  LET root == status.root IN
  /\ pc = "build"
  /\ \/ ~ Consistent /\ End("inconsistent")
     \/ Consistent /\ initial = None /\ Accept("open", root)
     \/ Consistent /\ initial # None /\ SamePlace(root) /\ Accept("pass", root)
     \/ Consistent /\ initial # None /\ ~ SamePlace(root) /\ End("moved")

-----------------------------------------------------------------------------
(* The repository: Open, then Read in any pass that needs the tree.        *)

OpenRepository ==
  /\ pc = "open"
  /\ opened' = Toplevel
  /\ pc' = "pass"
  /\ UNCHANGED <<world, answers, initial, tree, end, history>>

NextCall(location) ==
  /\ pc = "pass"
  /\ pc' = location
  /\ tree' = "unread"
  /\ CallBegins
  /\ UNCHANGED <<world, answers, initial, opened, end>>

RefreshActiveChange == NextCall("context")

ReadWorkingTree == NextCall("cwd")

CheckWorkingDirectory ==
  /\ pc = "cwd"
  /\ \/ ~ sameCwd /\ End("moved")
     \/ /\ sameCwd
        /\ pc' = "root"
        /\ UNCHANGED <<world, answers, initial, opened, tree, end, history>>

\* Mutant: the root is not resolved again.
AnyRoot == TRUE

SameRoot == Toplevel = opened

CheckRoot ==
  /\ pc = "root"
  /\ \/ ~ SameRoot /\ End("moved")
     \/ /\ SameRoot
        /\ pc' = "look"
        /\ UNCHANGED <<world, answers, initial, opened, tree, end, history>>

\* `git status` in the directory of the opened root answers for the repository
\* that directory belongs to now.
Reported == IF opened = "inner" /\ ~ inner THEN "outer" ELSE opened

LookAtTree ==
  /\ pc = "look"
  /\ tree' = IF dirty[Reported] THEN "dirty" ELSE "clean"
  /\ pc' = "pass"
  /\ CallEnds
  /\ UNCHANGED <<world, answers, initial, opened, end>>

-----------------------------------------------------------------------------
(* What moves.                                                             *)

Moves ==
  /\ pc # "ended"
  /\ UNCHANGED <<selected, cli, pc, answers, initial, opened, tree, end>>
  /\ held' = IF pc \in {"context", "status", "build"} THEN held \cup Truth' ELSE held
  /\ quiet' = (quiet /\ ~ InCall)

\* Another store directory, another declaration, another nearest root.
OpenSpecMoves ==
  /\ \/ registry' \in Roots /\ UNCHANGED placement
     \/ placement' \in Placements /\ UNCHANGED registry
  /\ UNCHANGED <<changeDir, inner, sameCwd, dirty, swapped>>
  /\ Moves

\* The change is archived, restored, or replaced by a link.
ChangeMoves ==
  /\ \E r \in Roots : \E d \in {"none", "own", "link"} : changeDir' = [changeDir EXCEPT ![r] = d]
  /\ UNCHANGED <<registry, placement, inner, sameCwd, dirty, swapped>>
  /\ Moves

\* A nested repository appears or goes; the requested path is linked anew.
RepositoryMoves ==
  /\ \/ inner' = ~ inner /\ swapped' = (pc = "look") /\ UNCHANGED sameCwd
     \/ sameCwd' = ~ sameCwd /\ UNCHANGED <<inner, swapped>>
  /\ UNCHANGED <<registry, placement, changeDir, dirty>>
  /\ Moves

TreeChanges ==
  /\ pc # "ended"
  /\ \E g \in Repositories : dirty' = [dirty EXCEPT ![g] = ~ @]
  /\ UNCHANGED <<selected, cli, registry, placement, changeDir, inner, sameCwd,
                 pc, answers, initial, opened, tree, end, history>>
-----------------------------------------------------------------------------
Run ==
  \/ ReadContext \/ ReadStatus \/ BuildChangeContext \/ OpenRepository
  \/ RefreshActiveChange \/ ReadWorkingTree
  \/ CheckWorkingDirectory \/ CheckRoot \/ LookAtTree
  \/ SourceFails

World == OpenSpecMoves \/ ChangeMoves \/ RepositoryMoves \/ TreeChanges

Next == Run \/ World

Spec == Init /\ [][Next]_vars
-----------------------------------------------------------------------------
\* A run starts and goes on only for a change that OpenSpec had, for the store
\* it was asked for, in the place of the run at some moment of the very call
\* that says so: not for a root two commands disagree upon, not for a place
\* the change has left, not for what a version says that ignores --store.
ActsOnlyForActiveChange ==
  [][pc = "build" /\ pc' \in {"open", "pass"} => initial' \in held]_vars

\* A clean tree is never that of another repository, but for one that takes the
\* place of the opened one between `git rev-parse` and `git status`.
CleanIsOfOpenedTree ==
  [][pc = "look" /\ pc' = "pass" /\ tree' = "clean" => ~ dirty[opened] \/ swapped]_vars

\* A sound openspec that answers while nothing moves is believed, however it
\* spells its paths: the run ends only over what has really changed.
QuietReadIsAccepted ==
  [][quiet /\ cli = SoundCLI /\ pc # "ended" /\ pc' = "ended" =>
       \/ end' = "failed"
       \/ end' = "unavailable" /\ changeDir[Wanted] = "none"
       \/ end' = "inconsistent" /\ changeDir[Wanted] = "link"
       \/ end' = "moved" /\ (Wanted # initial \/ ~ sameCwd \/ Toplevel # opened)]_vars
=============================================================================
