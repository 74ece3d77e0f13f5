# A verification development of `prepare-commits`

`openspec-apply-orchestrator prepare-commits` accompanies the commits of one
OpenSpec change: it gives an agent session of Paseo the assignment to split the
working tree into commits, waits, hands the session to the user when it needs
one, and archives it over a clean tree.  This directory models that command in
TLA+, checks the models with TLC and proves their safety with TLAPS.
Sources are named relative to `src/`.

## 1. Inventory

### Components, their state and their operations

| component | state it keeps | operations | modelled in |
|---|---|---|---|
| reconciler (`internal/orchestrator/commit_preparation.go`) | `knownSession`, `prepared`, `handedToHuman`, `deliveredEpisode`; nothing on disk | `Run`: observe, choose one of eleven actions, perform it, again | `CommitPreparation`; the episodes in `Intervention` |
| gateway to Paseo (`internal/paseo/reconcile_gateway.go`, `mutations.go`, `wait.go`, `directory.go`) | none | fresh reads before each mutation; `workspace create`, `run`, `archive`, `wait` | `CommitPreparation` |
| session directory (`internal/paseo/session_directory.go`, `orchestrator/session.go`, `paseocli/session.go`) | none | broad filter, exact filter, `inspect`; classification | `SessionDirectory`; its outcome for sound data in `CommitPreparation` |
| intervention delivery (`cmd/.../gateway.go`, `internal/notify`) | resolved channel, last event, `retrying` | `Resolve`, `Deliver`, `observeSessionProgress` | `Intervention` |
| change lock (`internal/ownership`) | an open directory with a `flock` | check, open, compare, lock, close | `Invocation`; as `owner` in `CommitPreparation` |
| command and signals (`cmd/.../prepare_commits.go`, `signals.go`, `main.go`) | context, exit code | order of the checks, deferred release, signals | `Invocation` |
| reporter (`cmd/.../reporting.go`) | journal on stdout | one line per event | which kind of line, in `Intervention`; exit codes, in `Invocation` |
| configuration snapshot (`internal/config`) | bytes of the file, read once | validate a part when it is needed | the channel in `Intervention`; the inputs of a session in `NewSession` |
| Paseo environment, catalog, settings (`internal/paseo`) | executable chosen once | check, list providers and models, verify settings | `NewSession` |
| OpenSpec context (`internal/openspec`) | a located executable; the place the run was started for | `ResolveActiveChange`, `RefreshActiveChange`: two commands and their comparison | `WorkingContext`; elsewhere a read that fails or not |
| Git state (`internal/gitstate`) | the root of the opened repository | `Open`; `Read`: working directory, `git rev-parse`, `git status` | `WorkingContext`; elsewhere one look at `dirty`, or a failure |
| child processes (`paseocli/runner.go`, `openspec/command.go`, `gitstate/command.go`, `paseocli/wait.go`) | two capped buffers per call | start, copy, kill, wait, judge; the abandoned `paseo wait` | `ChildCommand` over `CommandAnswer` |
| phase one reconciler (`orchestrator/reconcile.go`) | as the reconciler, `knownSession` only | the loop before Git was read; no command uses it | `PhaseOne` |
| identity, prompt, process stand | - | pure data, test code | not modelled |

### How they interact

Everything is synchronous and sequential within one process: the command calls
the reconciler, the reconciler calls its gateway, the gateway runs one child
process at a time - `openspec`, `git` or `paseo` - and takes its output for the
answer.  Only the wait for a session has a goroutine of its own, which its caller
abandons when the process is told to stop.  What is concurrent is
outside of the process and is modelled with it: a second invocation, the
daemon of Paseo, the agent in a session, the user (who prompts, archives,
commits, edits, replaces directories) and the operating system (signals,
crashes, the release of locks).  The only state that outlives a process is
that of Paseo, of Git and of the file system; a new process *discovers* its
session.

### What is hard here

* A read and the mutation it justifies are different child processes; anything
  may happen between them (`reconcile_gateway.go:95-215`).
* A mutation may be executed though its command failed, was killed or reached
  its ten seconds; it may also be executed later (`mutations.go:132`).
* Two listings and one inspection make one answer (`session_directory.go:104`).
* `handedToHuman`, `prepared` and `knownSession` are all that tells the loop
  what it has done; each must survive exactly the right iterations.
* Two memories of an announced need are reset at different events
  (`commit_preparation.go:533`, `gateway.go:223`).
* The lock is of a directory, the change is of a path (`lock_linux.go:48`).
* `openspec context` and `openspec status`, `git rev-parse` and `git status` are
  pairs of commands; the place of a run lasts for hours (`context.go:144`,
  `repository.go:92`, `gateway.go:25`).
* Output, exit, deadline, signal, a full buffer and a pipe that somebody else
  holds race within every single call (`runner.go:69-200`); an empty output means
  a clean tree.
* The result of the command, the release of the lock and a signal race for the
  exit code (`prepare_commits.go:185`, `signals.go:17`).

`PROJECT.json` lists the hazards with their lines and the properties that watch
them.

### What makes each component correct

* Reconciler and gateway: at most one active session per change; one `run` per
  run of the command; a known session is never replaced; a handed over session
  is never archived by the run that handed it over; success only of an archived
  session; a run ends or hands over.
* Session directory: no candidate is passed over, no stranger is named, a
  quiet daemon gets no false obstacle, what is gone counts as closed only when
  it is.
* Intervention: a confirmed need is not posted again, attempts are paced, a
  lasting need is told in the end.
* Lock and command: whoever accompanies holds the lock of the directory it
  checked; the exit code tells how the work and the release of the lock have
  ended, unless a signal takes its place; a signal ends the process.
* Start: nothing in Paseo is influenced before everything a session needs was
  verified, and what a session is created with was verified in the same run.
* OpenSpec context and Git state: a run acts only where the change was active
  during the very call that says so; a clean tree is that of the repository the
  run has opened; nothing that stands still is refused.
* Child processes: an answer is the whole output of a child that succeeded; a
  call returns whatever the child does; a child that prints much is not held up; no
  mutation outlives its process.

## 2. Plan

Done, in this order:

1. `CommitPreparation` with its abstract specification `Assignment`, its
   invariants and their proofs: the behaviour the program exists for.
2. `Intervention`, `Invocation`, `SessionDirectory`, `NewSession`: what the loop
   relies on, each with everything its own component can meet.
3. `ChildCommand` with its abstract specification `CommandAnswer`: what every
   other module takes for granted of an answer.
4. `WorkingContext`: OpenSpec and Git, which the loop reads as one step each.
5. `PhaseOne`: the earlier loop, composed of the reads and mutations of
   `CommitPreparation`.
6. Proofs of the safety properties of all of them, among them the refinements of
   `Assignment` by both loops and of `CommandAnswer` by the runner, and what these
   abstract specifications amount to.
7. `ChangeLock`, the abstract lock between `CommitPreparation`, which relies on
   it, and `Invocation`, which provides it: both proved.
8. The positive counterpart of each violated property, proved: how much of what
   the documents say the code does keep (section 6).

Next:

1. *Composition*: the place of `WorkingContext` under the lock of `Invocation`.
2. *What no property watches*: a need that vanishes within a pause and returns, and
   a CLI or daemon that is replaced in the hours after the check of the environment.

## 3. Modules and the code

One action is one handler or one read of an outside source; whatever the code
does between two reads is part of the action before the next one.

### `CommitPreparation`

`run[p]` holds the variables of `CommitPreparationReconciler.Run` that survive an
iteration (`known`, `prepared`, `handed`) and those of one iteration; `Iteration`
resets the latter.  `pc[p]` is the place in the loop:

| place | code |
|---|---|
| `workspaces` | `nextAction`: `RefreshActiveChange`, `FindActiveWorkspace` |
| `broad`, `exact` | the two listings of `findOwnSessionCandidates` |
| `inspect`, `inspectKnown` | the inspection of a listed session, and of a known one that is no longer listed |
| `tree` | `readWorkingTree` and the choice after it |
| `recheck`, `fresh`, `before` | the gateway's own reads before `workspace create`, before `run` and `archive`, and directly before `archive` |
| `call` | a mutating child process runs |
| `after` | the inspection after `archive` |
| `wait`, `pause` | `paseo wait`; the thirty seconds of `interventionObservationInterval` |

The directory reads are shared by three callers; `goal` says which one, as the
call stack does.  `call[p]` is the child process: it is *sent*, the daemon
answers, the command receives; `CallFails` is a failure, a deadline or an answer
that proves nothing, after which the request may be in `late` and be executed at
any later time.  `Interrupt` is a signal, a crash or a power loss at any place.
`lost` is a history variable: some `run` was left behind without an answer.

### `ChangeLock`

The lock without directories, descriptors and signals: it is taken while it is
free, with it the accompaniment begins, and it becomes free only together with or
after the end of the accompaniment.  `ReliedLock` at the end of `CommitPreparation`
and `ProvidedLock` at the end of `Invocation` are its two mappings.

### `Assignment`

The promise without reads, calls and failures: a session begins only while no
other is active (unless a creation escaped), a run accompanies one session, and
its end is reported once, of a closed session.  `CommitPreparation` implements
it under the mapping at its end (`KeepsPromise`).

### `CompletionEvidence`

`CommitPreparation` with one history variable: the sessions that have done
nothing since a run read the tree clean on their account.

### `PhaseOne`

`PhaseOneReconciler`, whose reads and mutations *are* those of
`CommitPreparation`: it extends that module, takes over the listings, the
inspections, the rechecks and the calls, and replaces the choice
(`FindPhaseOneWorkspace`, `ListForChoice`, `SelectPhaseOneAction`).  There is
no tree and no hand-over; one invocation runs at a time, its lock always free.
`ListAsSuccessor` is the rest of the exact listing, where both loops do the same.

### `WorkingContext`

One run and the two things it takes for its place.  `ResolveChange` is three
steps (`ReadContext`, `ReadStatus`, `BuildChangeContext`), at the start and, as
`RefreshActiveChange`, in any pass; `Repository.Read` is three more
(`CheckWorkingDirectory`, `CheckRoot`, `LookAtTree`).  A root is a canonical
directory; that the two commands of openspec spell it differently is why
`SameDirectory` exists.  `cli` stands for what the installed version of openspec
does, versions included that ignore `--store` or print a source without its
store.  `held`, `quiet` and `swapped` are history variables about the call in
progress.

### `CommandAnswer` and `ChildCommand`

`CommandAnswer` is what a caller may conclude: an answer is all that a successful
command has printed, a refusal is the command's own exit code, any other reply
says nothing.  `ChildCommand` is one call of the runner: `Launch`, `Fork`,
`Copy(c)` (the goroutine of a stream and its `cappedBuffer`), `Kill`,
`DelayOver` (`WaitDelay`), `RunReturns`, `Judge`; the caller (`front`) waits for
the judgement or, in `WaitOwnSession`, gives up.  `heir` is a process the child
left behind with its pipes; either of them prints only while the pipe has room
(`PipeIsFull`), and the pipe has room again only if `Copy` goes on behind a full
buffer.  The three runners of the repository have the same
code and are one module; output is counted, not spelled out, since a pipe keeps
the order.

### `SessionDirectory`

One query as three reads (`ListBroad`, `ListExact`, `Inspect`) over agents that
carry damaged labels, a parent, another directory, contradictory states, or are
archived by force, and change between the reads.  An agent that loses its labels
lives on out of sight and may get them back.  The classification is a chain
of operators in the order of the code: `Malformed`, `StatusOf`, `AttentionOf`,
`Consistent`, `ObservationOf`, `Inspected`.

### `Intervention`

What one run tells the user.  `delivered` is `deliveredEpisode` of the
reconciler; `channel`, `episode` and `retrying` are the fields of
`snapshotInterventionDelivery`.  A run accompanies one session, so the reason of
a need stands for its episode.

### `Invocation`

One process from its start to its exit code.  An inode stands for the directory
that is at the path of the change root; the lock belongs to the inode.  `checked`
is what `CheckLocalEnvironment` looked at, `fd` the open directory.  `result` is
the code on its way through the deferred function; `ended` and `failed` are history
variables: what the accompaniment ended with, and whether the release of the lock
reported an error.

### `NewSession`

The inputs of a new session: `snapshot` (`configuration.Snapshot`), the two reads
of `CheckEnvironment` (`ReadVersion`, `ReadStatus`), the channel, the section of
the snapshot and the two reads of `VerifySessionSettings`, then the mutations.
The loop around them is that of `CommitPreparation` reduced to what the inputs
depend on: whether a session was found, and whether inputs are prepared.
Whether the workspace exists and the tree is dirty is left open at every look.

## 4. Runs

| run | instance | question and answer |
|---|---|---|
| `commit_preparation` | 2 invocations, 2 sessions, 2 workspaces, 1 user move | Who may begin, keep and archive a session, when invocations race, crash, lose answers and leave requests behind?  All safety properties hold, and every step is one of `Assignment` or none. |
| `liveness` | 1 invocation, 2 sessions, 1 workspace, 2 user moves, fair | Does a run end?  It ends or hands over, and it ends once the session is closed. |
| `stale_tree` | 1 invocation, 1 session | *Violation*: success over a tree that nobody has read since the last turn. |
| `session_directory` | 2 agents | What does one answer prove although the agents change between its three reads?  Nobody listed throughout is passed over, "finished" is archivable, a quiet query is answered, "gone" is closed. |
| `intervention` | 3 reasons, fair | How often is a need posted and how is it called?  Not again after a confirmation, never twice without a pause, a new turn is no retry, a lasting need gets through. |
| `changed_need_is_announced` | 3 reasons | *Violation*: a need that changed and changed back while a delivery failed is not announced. |
| `invocation` | 2 processes, 2 inodes, fair | Whom does the lock exclude, what does the exit code say, does a signal end the process?  The lock is of the checked directory, it excludes unless the directory is replaced, the code is success only if work and release have succeeded and no signal was taken, no other outcome is hidden by the release, a signal ends the process. |
| `replaced_root` | 2 processes, 2 inodes | *Violation*: two invocations accompany one change after its directory was replaced. |
| `new_session` | 3 settings: supported with and without reasoning, unsupported | What is verified before anything is created, while file, installation, catalog and sessions move at every step?  Nothing is influenced before the inputs are known, `run` gives the snapshot, recovery needs none of it, and sound inputs are accepted. |
| `child_command` | limit 2, pipes of 2, up to 5 units of output on each of two streams, fair | What does one answer prove, does it come, and which child outlives the process?  Every behaviour is one of `CommandAnswer`, a bounded or cancelled call returns though the child hangs or hands its pipes on, no child stays blocked on a full pipe, and only `paseo wait` may outlive its process. |
| `working_context` | 2 roots, with and without `--store`, sound and unsound versions of openspec | For which place and of which tree does a run act, while stores, roots, the change and repositories move between any two commands?  Only where the change was during the call, only on the opened tree, and what stands still is believed. |
| `phase_one` | 1 invocation, 2 sessions, 1 workspace, 2 user moves, fair | Does the earlier loop keep the promise of `Assignment`, with lost answers and late executions, and does it end?  It does both. |

Each violated property quotes a document, a comment or the name of a test; the
entry in `PROJECT.json` under `findings` gives the place and the run's story.  What
holds in its place is proved: `SuccessIsVerified`, `SilenceIsTold`, and
`LockSerialises` with `LockIsProvided` (section 6).

### Bounds

* `Processes`: the lock lets one invocation work at a time; two are enough for
  every race for it, and a process may run again any number of times.
* `Sessions`, `Workspaces`: identities that the daemon may give, not those that
  exist at once.  Two are enough to make two active sessions, a session in
  another workspace, a foreign session in a known session's place.  When they are
  used up, a creation is not executed any more.
* `MaxMoves`: how often the user resumes, archives, edits.  The agents edit,
  commit and stop without bound.  One move is enough to archive a workspace under
  a session, to resume a session between two reads and to close one; the run
  `liveness` has two (resume, then close).  The theorems hold for any bound.
* `late` is a set: two identical requests that nobody waits for are one.
* `Limit`, `PipeSize` and `MaxOutput`: a limit of 2 and 5 units of output give a
  buffer that is short of its limit, at it, and beyond it, reached by one chunk or by
  many, and enough more to fill a pipe of 2 behind a full buffer.  The theorems hold
  for any limit and any pipe.
* `Roots`: two directories make a disagreement, a move and a return.  There are
  two repositories, the one around the working directory and one nested in it.
* `Agents`: two make an ambiguity, and a stranger beside the known session.
* `Inodes`: two make a replacement, and a replacement back.
* `Settings`: three cover a provider that is not supported, one that is, and
  both ways to ask for reasoning.

No run uses a state constraint.  Symmetry is declared in safety runs only.
Four configurations turn the deadlock check off, because the system may really
stop: in `intervention` and `changed_need_is_announced` a closed session whose run
has ended has nothing left to do; `child_command` is one call, and after it the
process is gone; in `working_context` nothing is of interest once the run has
ended.

## 5. Fairness

* `CommitPreparation`: `WF(CommandStep(p))`.  The command is single-threaded and
  blocks only in a child process or a pause; each child has a deadline
  (`paseocli/runner.go`), so a call fails if it is not answered; the pause has a
  length.  `paseo wait` is not fair on its own: `WaitReturns` is enabled only by
  the end of a turn.  That a turn ends (`WF(AgentStarts)`, `WF(AgentStops)`) is an
  assumption about agents, without which no command could promise an end.  No
  fairness is assumed of the user, of faults, of late requests or of a restart.
* `PhaseOne`: the same for `PhaseOneStep(p)` and the turns of the agents.  The loop
  restarts without a pause when an observation has changed, so that it ends rests
  on the changes ending: the moves of the user are bounded, turns end.
* `ChildCommand`: the goroutines of the process are scheduled (`Launch`, `Fork`,
  `Copy(c)`, `RunReturns`, `Judge`, `GiveUp`) and its timers fire (`Deadline`, `Kill`,
  `DelayOver`).  Nothing is assumed of the child, of what it leaves behind, or of
  the signal.
* `Intervention`: the run takes its next step, and a service that is asked
  again and again confirms some time (`SF(PostConfirmed)`).  The second is an
  assumption about the service; without it nothing can be promised.
* `Invocation`: the process takes its steps, the goroutine of `runWithSignals`
  receives, and an accompaniment returns once its context is cancelled - every
  wait, pause and child process of the code is tied to that context.  An
  accompaniment that is not cancelled may last for ever.

## 6. Proofs

Eight modules hold proofs that TLAPS checks, for every value of the constants.
They use the named assumptions of the modules they are about (`None` is no
identity, bounds are natural numbers) and nothing else.

### `CommitPreparation_proofs`

For any sets of invocations, sessions and workspaces and any bound on the user:

| theorem | states |
|---|---|
| `TypeCorrect` | `Spec => []TypeOK` |
| `LockExcludes` | `Spec => []OneCommandPerChange` |
| `AtMostOneSession` | `Spec => []OneAssignment` |
| `SuccessIsArchived` | `Spec => []CompletedIsArchived` |
| `RunIsSentOnce` | `Spec => SendsRunOnce` |
| `KnownStays` | `Spec => KnownSessionIsKept` |
| `HandedStaysOpen` | `Spec => HandedIsNotArchived` |
| `LockIsRelied` | `Spec => ReliedLock!Spec`, the refinement of `ChangeLock` |
| `PromiseIsKept` | `Spec => KeepsPromise`, the refinement of `Assignment` |
| `PromiseHolds` | `Spec => []Promise!Meaning` |
| `SuccessIsVerified` | `EvidenceSpec /\ NobodyResumesClosing => CompletedAfterLastTurn` |

The invariants are not inductive by themselves; the strengthening has four parts.

* `LocalFacts(p)` speaks of one invocation: a call is in flight exactly at the
  place `call` (`CallIsAwaited`); the target is a session wherever it is used
  (`TargetIsSession`); a run with a known session reads on its account and never
  gets to a creation (`KnownIsTarget`); what a run has sent for creation it knows
  (`CreatedIsKnown`); it gets to archiving only if it has not handed over
  (`ArchivesItsOwn`).  From it follow the three action properties: in the state
  that sends `run` nothing was dispatched before, since otherwise a session would
  be known and the goal not be `create`.
* `RunsOrEnds` keeps the lock: every step of an invocation leaves it running and
  the lock alone, or ends it and frees the lock.
* `OneAtATime` needs more than that two active sessions do not exist, because a
  `run` is executed after the reads that justify it.  Between the broad and the
  exact listing the set of active sessions can only shrink, so the broad answer
  covers it; when both are equal and empty, none is active, in whatever
  workspace; and that stays so while the `run` is in flight, since nobody else
  can send one (`LockExcludes`) and none is left behind (`~ lost`).  This is why
  the broad filter without the workspace label is needed: a session in an
  archived workspace is in no exact answer.
* `ClosedIsArchived` carries the observation "closed" over the reading of Git: an
  archived session never comes back.

The proofs are layered like the loop: lemmas about `Exit`, `Proceed`,
`NextIteration`, `ObservationChanged` and `Send` first, then one case per action.

Of the lock the command asks only that it is taken while it is free
(`LockIsTakenFree`); that the run and its lock are one and the same is
`OneCommandPerChange` again (`LockMoves`).

*The refinement of `Assignment`.*  Every step of the command, the daemon, an agent
or the user is mapped to a step of `Assignment` or to none.  Three facts are needed
beyond the invariants above:

* `NamesExist` and `LateNamesExist`: whatever a run, a call or a request left
  behind names has been created, so an archiving never meets a session that
  `Assignment` has not begun.
* `Quiet`: a run that is off accompanies nobody and has sent nothing, so the next
  `AcquireChangeLock` starts where `Assignment` starts.
* `OneAtATime` and `ClosedIsArchived`, for the guards of a beginning and of a
  reported end.

`CommandEffects` says once what each step of an invocation may do to the part of
the state that the mapping sees; `CommandRefines` and `SessionsRefine` go by it.
`Meaning` is what the abstract specification amounts to, by an induction over its
own steps (`MeaningStep`); the refinement hands it down to the loop.  It
says more than the invariants of the run: also `closedWithChanges` is told of a
closed session, and two runs never accompany even different sessions.

*The evidence of success.*  `CompletedAfterLastTurn` is violated (`stale_tree`), and
`SuccessIsVerified` says by how little: whoever rules out that the user resumes a
session which a run has seen finished and is about to archive
(`NobodyResumesClosing`) has the criterion of the CLI, for any interleaving of
invocations, agents, edits, lost answers and late archivings.  `Settled` is the
invariant: such a session stays idle or is archived, and from the reading of the
tree on it is verified; `ClosingBegins` shows that nothing but that reading leads
to archiving.  Resuming a session before it was seen finished, or after it was
handed to the user, is not excluded.

### `PhaseOne_proofs`

| theorem | states |
|---|---|
| `PhaseOneTypeCorrect` | `PhaseOneSpec => []TypeOK` |
| `PhaseOneAtMostOneSession` | `PhaseOneSpec => []OneAssignment` |
| `PhaseOneSuccessIsArchived` | `PhaseOneSpec => []CompletedIsArchived` |
| `PhaseOneRunIsSentOnce` | `PhaseOneSpec => SendsRunOnce` |
| `PhaseOneKnownStays` | `PhaseOneSpec => KnownSessionIsKept` |
| `PhaseOnePromiseIsKept` | `PhaseOneSpec => PhaseOneKeepsPromise`, the refinement of `Assignment` |
| `PhaseOnePromiseHolds` | `PhaseOneSpec => []Promise!Meaning` |

A step of the earlier loop is a step of `CommitPreparation` or one of four
(`Novel`): where the successor reads the tree first, it goes on at once to the
recheck, to the creation, to the archiving, or ends (`RechecksAtOnce`,
`CreatesAtOnce`, `ArchivesAtOnce`, `ReportsAtOnce`).  The step lemmas of
`CommitPreparation_proofs` are about single actions, so they serve here too; the
four are shown to keep each part of the same invariant.  One part is added:
`Plain`, that no run has handed over or carries an observation over a reading of
the tree; nobody is at that place (`NobodyAtTree`), so what is known of `tree` is
vacuous here.  The theorems are about one invocation at a time (`OneInvocation`):
`PhaseOneReconciler` itself takes no lock, and the `owner` of `CommitPreparation` is
only carried along in its invariant.

### `ChildCommand_proofs`

| theorem | states |
|---|---|
| `CallTypeCorrect` | `Spec => []TypeOK` |
| `MutationsDoNotOutlive` | `Spec => []OnlyWaitOutlives` |
| `RunnerKeepsPromise` | `Spec => ImplementsCommand`, the refinement of `CommandAnswer` |
| `AnswerStaysTrue` | `Spec => []Promise!Meaning` |

The invariant ties three pairs together: a buffer without overflow holds all that
was read and all that was read was printed (`BuffersTell`); a returned runner has
no running child, and unless it was cut off it has read everything and no writer
is left (`RunnerAndChild`); a caller that waits has a runner at work, and a process
that is gone has a child only after a wait (`CallerAndRunner`).  The first two make
`Verdict` a proof of what it says (`VerdictIsProven`).  `AnswerStaysTrue` is what the
abstract specification amounts to: the text of an answer is, for good, all that the
command has printed, and a refusal is its own.

### `Invocation_proofs`

| theorem | states |
|---|---|
| `InvocationTypeCorrect` | `Spec => []TypeOK` |
| `LockIsOfCheckedDirectory` | `Spec => []LockIsOfCheckedRoot` |
| `LockSerialises` | `Spec => []SerialisedUnlessReplaced` |
| `ExitCodeIsTrue` | `Spec => []ExitCodeTellsOutcome` |
| `LockIsProvided` | `Spec /\ RootStaysInPlace => ProvidedLock!Spec`, the refinement of `ChangeLock` |

A lock has a holder that is at work with that directory open
(`HoldersAreAtWork`); the way to the lock fixes `checked` before `fd` and `fd`
before the lock (`WayToTheLock`); as long as no root was replaced everybody has
checked the same one (`OneRoot`), and one directory has one holder.

`ExitCodeIsTrue` follows the code from place to place (`CodeIsHandedOn`): the result of
the accompaniment, the named result of `runPrepareCommits` behind its deferred
function, and what the process exits with; only a signal drops it.

`LockIsProvided` is the other side of `LockIsRelied`: the `owner` of
`CommitPreparation` may stand for the flock.  The abstract owner is the holder of
the directory at the path, which is exactly who is between the lock and its release
(`RootIsOwned`); every step of a process is a taking, an end or a release, or does
not concern the lock (`ComesAndGoes`).  The condition is the one that the run
`replaced_root` shows to be needed: no root is replaced under an invocation in
progress.  Between invocations it may be replaced as often as one likes.

### `WorkingContext_proofs`

| theorem | states |
|---|---|
| `PlaceTypeCorrect` | `Spec => []TypeOK` |
| `RunIsWhereChangeWas` | `Spec => ActsOnlyForActiveChange` |
| `CleanIsItsOwn` | `Spec => CleanIsOfOpenedTree` |
| `QuietIsAccepted` | `Spec => QuietReadIsAccepted` |

A document that was accepted is a resolution (`AcceptedIsResolution`) and is there
when it is compared (`AnswersAreRead`).  `SeenInCall` carries the history: where
the change is, it was during the call, and an answer of `openspec status` that
speaks of the selected store named a root of it.  `RootIsChecked` says the same of
the repository.  `AnswersAreCurrent` is the converse for a sound version of openspec
and a call during which nothing moves: both answers are what is true now.

### `SessionDirectory_proofs`

| theorem | states |
|---|---|
| `DirectoryTypeCorrect` | `Spec => []TypeOK` |
| `NobodyPassedOver` | `Spec => NobodyIsPassedOver` |
| `StrangersAreNotNamed` | `Spec => NamedIsOwn` |
| `FinishedIsArchivable` | `Spec => FinishedMayBeArchived` |
| `GoneWasClosed` | `Spec => GoneIsClosed` |
| `QuietIsAnswered` | `Spec => QuietQueryIsAnswered` |

Half of it is about the classification alone and holds for whatever an agent
carries (`NamedMarks`, `FinishedPasses`, `SoundIsNamed`, `ArchivedIsClosed`).  The
other half joins three reads: who was listed throughout is in the broad answer
(`SteadyIsListed`), the inspected session is all of that answer (`TargetIsOnly`),
the answer stays true while nothing happens (`CalmIsListed`), and a known session
does not become a stranger (`KnownIsOwn`).

### `NewSession_proofs`

| theorem | states |
|---|---|
| `InputsTypeCorrect` | `Spec => []TypeOK` |
| `InfluenceNeedsInputs` | `Spec => InputsBeforeInfluence` |
| `SessionGetsSnapshot` | `Spec => RunGivesSnapshot` |
| `AccompanyingNeedsNoInputs` | `Spec => RecoveryNeedsNoInputs` |
| `EnvironmentIsCompatible` | `Spec => CheckedIsCompatible` |
| `SoundIsAccepted` | `Spec => SoundInputsAreAccepted` |

`ReadsInOrder` is what each read of the preparation leaves for the next,
`PreparedIsTrue` what is known while inputs are prepared; three more parts tie the
history variables to the catalog and the session, without which neither "was
offered" nor "nothing moved" could be used.

### `Intervention_proofs`

| theorem | states |
|---|---|
| `EpisodeTypeCorrect` | `Spec => []TypeOK` |
| `ConfirmedIsNotRepeated` | `Spec => ConfirmedOnce` |
| `AttemptsPause` | `Spec => AttemptsArePaced` |
| `RetryIsWithinTurn` | `Spec => NewTurnIsNoRetry` |
| `SilenceIsTold` | `Spec => SilenceIsOfToldNeed` |

What the service confirmed last is what the reconciler remembers
(`ConfirmedIsDelivered`), no attempt is unpaused but the one under way
(`PausedSinceAttempt`), and an observed turn has cleared `retrying`
(`TurnEndsRetry`).

`SilenceIsTold` is what the code does promise in the place of the violated
`ChangedNeedIsAnnounced`: it is silent about a need only if the service confirmed
that very need in this run, none has vanished since as far as the run could see,
and no other one was confirmed in between (`DeliveredWasTold`).  So the
run is never silent about a need of which the user has not heard from it; what may
be missing is word that the need came back.

### Only model-checked

Every liveness property (`EndsOrHandsOver`, `ClosedSessionEndsRun`,
`LastingNeedIsTold`, `SignalEndsProcess`, `CallReturns`, `ChildIsNotBlocked`,
`PhaseOneEnds`): fairness
and `ENABLED` are beyond the prover.  Every safety and action property and every
refinement that a run checks is proved.
The violations are counterexamples and need no proof.

## 7. Abstractions, and what is not modelled

* Texts, JSON fields, HTTP headers, path syntax: their only effect on the control
  is a refusal, which is `SourceFails`, `CallFails`, `EarlyFailure` or a value such
  as "broken" or "malformed".  Output limits, deadlines and exit codes are modelled
  once, in `ChildCommand`; every other module takes a command for one look that
  answers or fails, which is what `ImplementsCommand` and `CallReturns` justify.
* The daemon, as the adapters rely on it: a created entity has an unused identity
  and is listed at once; `archive` without force refuses a working agent; an
  archived session does not come back.  In `CommitPreparation` a session is
  closed only by archiving; the status closed without archiving is in
  `SessionDirectory`.
* In `CommitPreparation` `RefreshActiveChange` is a read that fails or not and
  `git status` one look at clean or dirty; `WorkingContext` takes both apart.
* What a change looks like to OpenSpec is a root, the reason for it and whether its
  directory is missing, its own or a link; the remaining fields that
  `buildChangeContext` compares are one disagreement.
* `ChildCommand` takes from the operating system that a killed child ends and that a
  pipe keeps its order; the WaitDelay of half a second is "some time after the end of
  the child".
* Time: the ten seconds of a mutation, the thirty seconds of a pause and the
  progress ticker have no length; deadlines may pass at any moment.
* `OneCommandPerChange`, `KnownSessionIsKept` and `NamedIsOwn` are proved
  (`LockExcludes`, `KnownStays`, `StrangersAreNotNamed`) and are no property of a run.
* Not modelled: the digest of the change key and the text of the prompt, which are
  pure data (`WorkingContext` uses that equal keys mean equal fields); the wording of
  the journal; the wiring of dependencies in `production.go`; the process stand
  `testpaseo` and the system tests, which are test code.
