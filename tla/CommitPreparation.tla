------------------------- MODULE CommitPreparation -------------------------
(***************************************************************************)
(* The accompanying loop of `prepare-commits` for ONE OpenSpec change: the *)
(* CommitPreparationReconciler, the Paseo gateway it calls and the change  *)
(* lock it runs under, composed with what they act upon - the Paseo        *)
(* daemon, its agents, the Git working tree and the user.                  *)
(*                                                                         *)
(* Every read of a source (workspace ls, ls, inspect, git status) is one   *)
(* step, so that anything may happen between two reads and between a read  *)
(* and the mutation it justifies.  A mutation of Paseo is three steps: the *)
(* CLI sends it, the daemon executes it, the CLI receives the answer; the  *)
(* answer may be lost, and a request whose sender is gone may be executed  *)
(* later.                                                                  *)
(*                                                                         *)
(* deliveredEpisode and the notification it stands for decide no branch of *)
(* the loop; they are the subject of module Intervention.                  *)
(***************************************************************************)
EXTENDS Naturals, FiniteSets

CONSTANTS
  Processes,    \* running or future invocations of prepare-commits
  Sessions,     \* identities the daemon may give to own sessions
  Workspaces,   \* identities the daemon may give to managed workspaces
  None,         \* no session, no workspace, no process
  MaxMoves      \* bound: how often the user intervenes

ASSUME NoneAssumption  == None \notin Processes \cup Sessions \cup Workspaces
ASSUME MovesAssumption == MaxMoves \in Nat

VARIABLES
  owner,        \* the process that holds the lock of the change, or None
  pc,           \* pc[p]: what invocation p does next
  run,          \* run[p]: the local variables of its loop
  call,         \* call[p]: its mutating command in flight
  outcome,      \* outcome[p]: what its latest run has reported
  dispatched,   \* history: this run of p has sent `paseo run`
  workspace,    \* workspace[w]: state of the managed workspace w in Paseo
  session,      \* session[s]: state of the own session s in Paseo
  home,         \* home[s]: the label oa.workspace of s
  dirty,        \* the Git working tree has uncommitted changes
  late,         \* requests the daemon may execute though nobody waits
  lost,         \* history: some `paseo run` became such a request
  moves         \* user interventions so far

command == <<owner, pc, run, call, outcome, dispatched>>
world   == <<workspace, session, home, dirty, late, lost, moves>>
vars    == <<owner, pc, run, call, outcome, dispatched,
             workspace, session, home, dirty, late, lost, moves>>
-----------------------------------------------------------------------------
Working      == {"initializing", "running"}
SessionState == Working \cup {"absent", "permission", "idle", "error", "archived"}

Location ==
  {"off", "workspaces", "broad", "exact", "inspect", "inspectKnown", "tree",
   "recheck", "fresh", "before", "call", "after", "wait", "pause"}

Locals ==
  [known: Sessions \cup {None},      \* knownSession
   prepared: BOOLEAN,                \* prepared.valid()
   handed: BOOLEAN,                  \* handedToHuman
   goal: {"select", "create", "archive"},  \* on whose behalf sessions are read
   ws: Workspaces \cup {None},       \* workspace observed in this pass
   broad: SUBSET Sessions,           \* answer to the broad label filter
   target: Sessions \cup {None},     \* session being observed or archived
   seen: {"absent", "finished", "closed"}]  \* observation awaiting Git

FreshRun ==
  [known |-> None, prepared |-> FALSE, handed |-> FALSE, goal |-> "select",
   ws |-> None, broad |-> {}, target |-> None, seen |-> "absent"]

Call ==
  [op: {"none", "workspace", "run", "archive"},
   state: {"sent", "done", "failed"},
   ws: Workspaces \cup {None},
   session: Sessions \cup {None}]

NoCall == [op |-> "none", state |-> "done", ws |-> None, session |-> None]

Outcome ==
  [kind: {"none", "noWork", "completed", "closedWithChanges", "obstacle", "interrupted"},
   session: Sessions \cup {None}]

NoOutcome == [kind |-> "none", session |-> None]

TypeOK ==
  /\ owner \in Processes \cup {None}
  /\ pc \in [Processes -> Location]
  /\ run \in [Processes -> Locals]
  /\ call \in [Processes -> Call]
  /\ outcome \in [Processes -> Outcome]
  /\ dispatched \in [Processes -> BOOLEAN]
  /\ workspace \in [Workspaces -> {"absent", "active", "archived"}]
  /\ session \in [Sessions -> SessionState]
  /\ home \in [Sessions -> Workspaces \cup {None}]
  /\ dirty \in BOOLEAN
  /\ late \in SUBSET Call
  /\ lost \in BOOLEAN
  /\ moves \in 0 .. MaxMoves

\* A machine on which the change was never accompanied before.
Init ==
  /\ owner = None
  /\ pc = [p \in Processes |-> "off"]
  /\ run = [p \in Processes |-> FreshRun]
  /\ call = [p \in Processes |-> NoCall]
  /\ outcome = [p \in Processes |-> NoOutcome]
  /\ dispatched = [p \in Processes |-> FALSE]
  /\ workspace = [w \in Workspaces |-> "absent"]
  /\ session = [s \in Sessions |-> "absent"]
  /\ home = [s \in Sessions |-> None]
  /\ dirty \in BOOLEAN
  /\ late = {}
  /\ lost = FALSE
  /\ moves = 0
-----------------------------------------------------------------------------
(* What the daemon answers to the three listings.                          *)

\* `workspace ls` narrowed to the managed name and the working directory.
ActiveWorkspaces == {w \in Workspaces : workspace[w] = "active"}

\* `ls` with the labels owner and change: archived sessions are history.
OwnSessions == {s \in Sessions : session[s] \notin {"absent", "archived"}}

\* `ls` with version, kind and the workspace label added.
OwnSessionsIn(w) == {s \in OwnSessions : home[s] = w}

\* Mutant: the comparison of the lengths is missing.
RightAmongLeft(left, right) == right \subseteq left

\* The broad and the exact answer must name the same agents.
SameAgentSet(left, right) == left = right
-----------------------------------------------------------------------------
(* Moves of an invocation through its loop.                                *)

Goto(p, location) == pc' = [pc EXCEPT ![p] = location]

\* A new iteration keeps knownSession, prepared and handedToHuman only.
Iteration(known, prepared, handed) ==
  [FreshRun EXCEPT !.known = known, !.prepared = prepared, !.handed = handed]

NextIteration(p, location, known, prepared, handed) ==
  /\ run' = [run EXCEPT ![p] = Iteration(known, prepared, handed)]
  /\ Goto(p, location)
  /\ UNCHANGED <<owner, call, outcome, dispatched>>

\* errors.Is(err, ErrReconcileObservationChanged): start over at once.
ObservationChanged(p) ==
  NextIteration(p, "workspaces", run[p].known, run[p].prepared, run[p].handed)

\* Run returns, the outcome is reported and the change lock is closed.
Exit(p, kind, s) ==
  /\ owner' = None
  /\ Goto(p, "off")
  /\ run' = [run EXCEPT ![p] = FreshRun]
  /\ call' = [call EXCEPT ![p] = NoCall]
  /\ outcome' = [outcome EXCEPT ![p] = [kind |-> kind, session |-> s]]
  /\ UNCHANGED dispatched

Obstacle(p) == Exit(p, "obstacle", None)

\* Stay in the same iteration with locals r.
Proceed(p, location, r) ==
  /\ run' = [run EXCEPT ![p] = r]
  /\ Goto(p, location)
  /\ UNCHANGED <<owner, call, outcome, dispatched>>

Send(p, op, w, s) ==
  /\ call' = [call EXCEPT ![p] = [op |-> op, state |-> "sent", ws |-> w, session |-> s]]
  /\ dispatched' = [dispatched EXCEPT ![p] = @ \/ op = "run"]
  /\ Goto(p, "call")
  /\ UNCHANGED <<owner, run, outcome>>
-----------------------------------------------------------------------------
(* Start: local checks, then flock(LOCK_EX|LOCK_NB) on the change root.  A *)
(* second invocation finds the change busy and ends: nothing changes.      *)

LockIsFree == owner = None

AcquireChangeLock(p) ==
  /\ pc[p] = "off"
  /\ LockIsFree
  /\ owner' = p
  /\ Goto(p, "workspaces")
  /\ dispatched' = [dispatched EXCEPT ![p] = FALSE]
  /\ outcome' = [outcome EXCEPT ![p] = NoOutcome]
  /\ UNCHANGED <<run, call, world>>

-----------------------------------------------------------------------------
(* Reads of one iteration.                                                 *)

\* RefreshActiveChange, then `workspace ls`.
FindActiveWorkspace(p) ==
  /\ pc[p] = "workspaces"
  /\ \/ /\ ActiveWorkspaces = {}
        /\ run[p].known # None
        /\ Obstacle(p)
     \/ /\ ActiveWorkspaces = {}
        /\ run[p].known = None
        /\ Proceed(p, "tree", [run[p] EXCEPT !.seen = "absent", !.ws = None])
     \/ \E w \in Workspaces :
          /\ ActiveWorkspaces = {w}
          /\ Proceed(p, "broad", [run[p] EXCEPT !.ws = w, !.goal = "select"])
     \/ /\ \E v, w \in ActiveWorkspaces : v # w
        /\ Obstacle(p)
  /\ UNCHANGED world

\* First listing of findOwnSessionCandidates.
ListBroad(p) ==
  /\ pc[p] = "broad"
  /\ Proceed(p, "exact", [run[p] EXCEPT !.broad = OwnSessions])
  /\ UNCHANGED world

\* Mutant: the workspace is passed for the session.
ExpectedWorkspace(p) == run[p].ws

\* FindOwnSessions while no session is known or before a creation,
\* ObserveOwnSession of the known session otherwise.
Expected(p) == IF run[p].goal = "create" THEN None ELSE run[p].known

\* Second listing: what the exact set means for the caller of the directory.
ListExact(p) ==
  LET exact == OwnSessionsIn(run[p].ws) IN
  /\ pc[p] = "exact"
  /\ \/ /\ ~ SameAgentSet(run[p].broad, exact)           \* ErrCorruptSessionOwnership
        /\ Obstacle(p)
     \/ /\ SameAgentSet(run[p].broad, exact)
        /\ \/ /\ exact = {} /\ Expected(p) # None
              /\ Proceed(p, "inspectKnown", [run[p] EXCEPT !.target = Expected(p)])
           \/ /\ exact = {} /\ Expected(p) = None
              /\ \/ /\ run[p].goal = "create"
                    /\ Send(p, "run", run[p].ws, None)
                 \/ /\ run[p].goal # "create"
                    /\ Proceed(p, "tree", [run[p] EXCEPT !.seen = "absent"])
           \/ \E s \in exact :
                /\ exact = {s} /\ Expected(p) \in {None, s}
                /\ Proceed(p, "inspect", [run[p] EXCEPT !.target = s])
           \/ \E s \in exact :
                /\ exact = {s} /\ Expected(p) \notin {None, s}  \* ErrSessionIdentityMismatch
                /\ Obstacle(p)
           \/ /\ \E s, t \in exact : s # t
              /\ IF run[p].goal = "select" THEN Obstacle(p) ELSE ObservationChanged(p)
  /\ UNCHANGED world

\* HumanInterventionRequired: the need is announced and the same session is
\* looked at again after interventionObservationInterval.
HandToHuman(p) == NextIteration(p, "pause", run[p].target, FALSE, TRUE)

\* `inspect` in nextAction: selectSessionAction up to its reads of Git.
InspectToSelect(p) ==
  LET s == run[p].target IN
  /\ pc[p] \in {"inspect", "inspectKnown"}
  /\ run[p].goal = "select"
  /\ \/ /\ pc[p] = "inspectKnown" /\ session[s] # "archived"  \* active but not listed
        /\ Obstacle(p)
     \/ /\ pc[p] = "inspect" /\ session[s] \in Working
        /\ NextIteration(p, "wait", s, FALSE, run[p].handed)
     \/ /\ pc[p] = "inspect" /\ session[s] \in {"error", "permission"}
        /\ HandToHuman(p)
     \/ /\ pc[p] = "inspect" /\ session[s] = "idle"
        /\ Proceed(p, "tree", [run[p] EXCEPT !.seen = "finished"])
     \/ /\ session[s] = "archived"
        /\ Proceed(p, "tree", [run[p] EXCEPT !.seen = "closed"])
  /\ UNCHANGED world

\* `inspect` under createOwnSession: any own session forbids the creation.
InspectToCreate(p) ==
  /\ pc[p] = "inspect"
  /\ run[p].goal = "create"
  /\ ObservationChanged(p)
  /\ UNCHANGED world

\* `inspect` under ReconcileGateway.ArchiveOwnSession.
InspectToArchive(p) ==
  LET s == run[p].target IN
  /\ pc[p] \in {"inspect", "inspectKnown"}
  /\ run[p].goal = "archive"
  /\ \/ /\ pc[p] = "inspectKnown" /\ session[s] # "archived"
        /\ Obstacle(p)
     \/ /\ session[s] = "archived"
        /\ Exit(p, "completed", s)
     \/ /\ pc[p] = "inspect" /\ session[s] = "idle"
        /\ Proceed(p, "before", run[p])
     \/ /\ pc[p] = "inspect" /\ session[s] \notin {"idle", "archived"}
        /\ ObservationChanged(p)
  /\ UNCHANGED world

\* Mutant: a session finished over a clean tree is always archived.
MonitorsNever(p) == FALSE

\* Mutant: a session finished over a clean tree is never archived.
MonitorsAlways(p) == TRUE

\* A session handed over in this run is left for the user to close.
Monitors(p) == run[p].handed

\* readWorkingTree and the choice that depends on it.
ReadWorkingTree(p) ==
  LET s == run[p].target IN
  /\ pc[p] = "tree"
  /\ \/ /\ run[p].seen = "closed"
        /\ Exit(p, IF dirty THEN "closedWithChanges" ELSE "completed", s)
     \/ /\ run[p].seen = "finished" /\ dirty
        /\ HandToHuman(p)
     \/ /\ run[p].seen = "finished" /\ ~dirty /\ Monitors(p)
        /\ NextIteration(p, "pause", s, FALSE, run[p].handed)
     \/ /\ run[p].seen = "finished" /\ ~dirty /\ ~ Monitors(p)
        /\ Proceed(p, "fresh", [run[p] EXCEPT !.known = s, !.prepared = FALSE,
                                              !.goal = "archive"])
     \/ /\ run[p].seen = "absent" /\ ~dirty
        /\ Exit(p, "noWork", None)
     \/ /\ run[p].seen = "absent" /\ dirty /\ ~run[p].prepared   \* PrepareNewSession
        /\ NextIteration(p, "workspaces", run[p].known, TRUE, run[p].handed)
     \/ /\ run[p].seen = "absent" /\ dirty /\ run[p].prepared
        /\ IF run[p].ws = None
             THEN Proceed(p, "recheck", run[p])
             ELSE Proceed(p, "fresh", [run[p] EXCEPT !.goal = "create"])
  /\ UNCHANGED world

-----------------------------------------------------------------------------
(* The gateway's own reads right before a mutation, and the mutations.     *)

\* ReconcileGateway.CreateWorkspace.
RecheckNoWorkspace(p) ==
  /\ pc[p] = "recheck"
  /\ \/ ActiveWorkspaces # {} /\ ObservationChanged(p)
     \/ ActiveWorkspaces = {} /\ Send(p, "workspace", None, None)
  /\ UNCHANGED world

\* findFreshWorkspace, first step of creating and of archiving a session.
FindFreshWorkspace(p) ==
  /\ pc[p] = "fresh"
  /\ \/ ActiveWorkspaces # {run[p].ws} /\ ObservationChanged(p)
     \/ ActiveWorkspaces = {run[p].ws} /\ Proceed(p, "broad", run[p])
  /\ UNCHANGED world

\* Client.ArchiveOwnSession: the inspection before the mutation.
InspectBeforeArchive(p) ==
  LET s == run[p].target IN
  /\ pc[p] = "before"
  /\ \/ session[s] = "archived" /\ Exit(p, "completed", s)
     \/ /\ session[s] \in Working \cup {"permission"}     \* ErrSessionStillRunning
        /\ ObservationChanged(p)
     \/ session[s] \in {"idle", "error"} /\ Send(p, "archive", run[p].ws, s)
  /\ UNCHANGED world

\* Mutant: the answer of `archive` is believed.
ArchiveAnswerBelieved(p) ==
  /\ pc[p] = "after"
  /\ Exit(p, "completed", run[p].target)
  /\ UNCHANGED world

\* Client.ArchiveOwnSession: only a new inspection decides, whatever the
\* command answered.
InspectAfterArchive(p) ==
  LET s == run[p].target IN
  /\ pc[p] = "after"
  /\ \/ session[s] = "archived" /\ Exit(p, "completed", s)
     \/ session[s] # "archived" /\ Obstacle(p)
  /\ UNCHANGED world

\* The command answered with valid JSON.
ReceiveAnswer(p) ==
  /\ pc[p] = "call"
  /\ call[p].state = "done"
  /\ call' = [call EXCEPT ![p] = NoCall]
  /\ \/ /\ call[p].op = "workspace"
        /\ run' = [run EXCEPT ![p] = Iteration(@.known, @.prepared, @.handed)]
        /\ Goto(p, "workspaces")
     \/ /\ call[p].op = "run"
        /\ run' = [run EXCEPT ![p] = Iteration(call[p].session, FALSE, @.handed)]
        /\ Goto(p, "workspaces")
     \/ /\ call[p].op = "archive"
        /\ Goto(p, "after")
        /\ UNCHANGED run
  /\ UNCHANGED <<owner, outcome, dispatched, world>>

\* What becomes of a request nobody waits for: the daemon never got it, or
\* it will be executed some time.
Abandon(p) ==
  /\ \/ UNCHANGED late
     \/ call[p].op # "none" /\ call[p].state = "sent" /\ late' = late \cup {call[p]}
  /\ lost' = (lost \/ (late' # late /\ call[p].op = "run"))
  /\ UNCHANGED <<workspace, session, home, dirty, moves>>

\* Mutant: an unknown outcome of `run` is treated as a changed observation.
CallIsRetried(p) ==
  /\ pc[p] = "call"
  /\ Abandon(p)
  /\ call' = [call EXCEPT ![p] = NoCall]
  /\ Goto(p, "workspaces")
  /\ UNCHANGED <<owner, run, outcome, dispatched>>

\* The command failed, hit its ten seconds or answered something unproven.
CallFails(p) ==
  /\ pc[p] = "call"
  /\ Abandon(p)
  /\ \/ /\ call[p].op \in {"workspace", "run"}            \* ErrRunOutcomeUnknown
        /\ Obstacle(p)
     \/ /\ call[p].op = "archive"
        /\ call' = [call EXCEPT ![p] = NoCall]
        /\ Goto(p, "after")
        /\ UNCHANGED <<owner, run, outcome, dispatched>>

-----------------------------------------------------------------------------
(* Waiting, and the ways a run is cut short.                               *)

\* Mutant: the wait is only ended by a session that needs attention.
WaitNeedsAttention(p) ==
  /\ pc[p] = "wait"
  /\ session[run[p].known] \in {"idle", "error", "permission"}
  /\ ObservationChanged(p)
  /\ UNCHANGED world

\* `paseo wait` returns: the turn ended, or the daemon's own timeout.
WaitReturns(p) ==
  /\ pc[p] = "wait"
  /\ session[run[p].known] \notin Working
  /\ ObservationChanged(p)
  /\ UNCHANGED world

WaitTimesOut(p) ==
  /\ pc[p] = "wait"
  /\ session[run[p].known] \in Working
  /\ ObservationChanged(p)
  /\ UNCHANGED world

PauseEnds(p) ==
  /\ pc[p] = "pause"
  /\ ObservationChanged(p)
  /\ UNCHANGED world

\* Any read of OpenSpec, Paseo or Git, the preparation of inputs or the wait
\* fails: no recovery, no further influence.
SourceFails(p) ==
  /\ pc[p] \notin {"off", "call", "pause"}
  /\ Obstacle(p)
  /\ UNCHANGED world

\* SIGINT, SIGTERM, a crash or a power loss: the kernel drops the lock.
Interrupt(p) ==
  /\ pc[p] # "off"
  /\ Abandon(p)
  /\ Exit(p, "interrupted", None)

-----------------------------------------------------------------------------
(* The Paseo daemon, as the adapters rely on it: a created entity gets an  *)
(* unused identity and is listed at once; archive without --force refuses  *)
(* a working agent; an archived session never comes back.                  *)

CreateWorkspace(w) ==
  /\ workspace[w] = "absent"
  /\ workspace' = [workspace EXCEPT ![w] = "active"]
  /\ UNCHANGED <<session, home>>

RunSession(s, w) ==
  /\ session[s] = "absent"
  /\ session' = [session EXCEPT ![s] = "initializing"]
  /\ home' = [home EXCEPT ![s] = w]
  /\ UNCHANGED workspace

ArchiveSession(s) ==
  /\ session[s] \notin Working
  /\ session' = [session EXCEPT ![s] = "archived"]
  /\ UNCHANGED <<workspace, home>>

\* The daemon executes the command that p is waiting for.
DaemonAnswers(p) ==
  LET c == call[p] IN
  /\ c.op # "none"
  /\ c.state = "sent"
  /\ \/ /\ c.op = "workspace"
        /\ \E w \in Workspaces : CreateWorkspace(w)
        /\ call' = [call EXCEPT ![p].state = "done"]
     \/ /\ c.op = "run"
        /\ \E s \in Sessions :
             /\ RunSession(s, c.ws)
             /\ call' = [call EXCEPT ![p].state = "done", ![p].session = s]
     \/ /\ c.op = "archive"
        /\ ArchiveSession(c.session)
        /\ call' = [call EXCEPT ![p].state = "done"]
     \/ /\ c.op = "archive" /\ session[c.session] \in Working
        /\ call' = [call EXCEPT ![p].state = "failed"]
        /\ UNCHANGED <<workspace, session, home>>
  /\ UNCHANGED <<owner, pc, run, outcome, dispatched, dirty, late, lost, moves>>

\* The daemon executes a command whose sender is gone.
DaemonExecutesLate(c) ==
  /\ late' = late \ {c}
  /\ \/ c.op = "workspace" /\ \E w \in Workspaces : CreateWorkspace(w)
     \/ c.op = "run" /\ \E s \in Sessions : RunSession(s, c.ws)
     \/ c.op = "archive" /\ ArchiveSession(c.session)
     \/ /\ c.op = "archive" /\ session[c.session] \in Working
        /\ UNCHANGED <<workspace, session, home>>
  /\ UNCHANGED <<command, dirty, lost, moves>>

-----------------------------------------------------------------------------
(* The agent of a session and the user.                                    *)

SessionBecomes(s, from, to) ==
  /\ session[s] \in from
  /\ session' = [session EXCEPT ![s] = to]
  /\ UNCHANGED <<command, workspace, home, dirty, late, lost>>

AgentStarts(s) == SessionBecomes(s, {"initializing"}, "running") /\ UNCHANGED moves

\* Edits, commits and hooks of the agent change the tree in both directions.
AgentWrites(s) ==
  /\ session[s] = "running"
  /\ dirty' = ~dirty
  /\ UNCHANGED <<command, workspace, session, home, late, lost, moves>>

AgentStops(s) ==
  /\ \E to \in {"idle", "error", "permission"} : SessionBecomes(s, {"running"}, to)
  /\ UNCHANGED moves

UserMoves == moves < MaxMoves /\ moves' = moves + 1

\* A new prompt, an answered permission request, a retried turn.
UserResumes(s) == UserMoves /\ SessionBecomes(s, {"idle", "error", "permission"}, "running")

UserArchives(s) == UserMoves /\ SessionBecomes(s, SessionState \ {"absent", "archived"}, "archived")

UserArchivesWorkspace(w) ==
  /\ UserMoves
  /\ workspace[w] = "active"
  /\ workspace' = [workspace EXCEPT ![w] = "archived"]
  /\ UNCHANGED <<command, session, home, dirty, late, lost>>

UserEdits ==
  /\ UserMoves
  /\ dirty' = ~dirty
  /\ UNCHANGED <<command, workspace, session, home, late, lost>>

-----------------------------------------------------------------------------
\* The steps the invocation takes by itself.
CommandStep(p) ==
  \/ FindActiveWorkspace(p) \/ ListBroad(p) \/ ListExact(p)
  \/ InspectToSelect(p) \/ InspectToCreate(p) \/ InspectToArchive(p)
  \/ ReadWorkingTree(p) \/ RecheckNoWorkspace(p) \/ FindFreshWorkspace(p)
  \/ InspectBeforeArchive(p) \/ InspectAfterArchive(p)
  \/ ReceiveAnswer(p) \/ CallFails(p) \/ WaitReturns(p) \/ PauseEnds(p)

Fault(p) == SourceFails(p) \/ Interrupt(p) \/ WaitTimesOut(p)

Daemon == (\E p \in Processes : DaemonAnswers(p)) \/ (\E c \in late : DaemonExecutesLate(c))

Agent(s) == AgentStarts(s) \/ AgentWrites(s) \/ AgentStops(s)

User ==
  \/ \E s \in Sessions : UserResumes(s) \/ UserArchives(s)
  \/ \E w \in Workspaces : UserArchivesWorkspace(w)
  \/ UserEdits

Next ==
  \/ \E p \in Processes : AcquireChangeLock(p) \/ CommandStep(p) \/ Fault(p)
  \/ Daemon
  \/ \E s \in Sessions : Agent(s)
  \/ User

Spec == Init /\ [][Next]_vars

(***************************************************************************)
(* The command is never blocked but by `paseo wait`, so its steps happen;  *)
(* every child process has a deadline, so a call without an answer fails.  *)
(* That a turn ends is an assumption about agents.  Nothing is assumed of  *)
(* the user, of faults, of late requests and of the start of a command.    *)
(***************************************************************************)
Fairness ==
  /\ \A p \in Processes : WF_vars(CommandStep(p))
  /\ \A s \in Sessions : WF_vars(AgentStarts(s)) /\ WF_vars(AgentStops(s))

FairSpec == Spec /\ Fairness
-----------------------------------------------------------------------------
(* Safety.                                                                 *)

\* Two invocations never accompany the same change at the same time, and the
\* lock is held exactly while one does: the flock of AcquireChangeLock.
OneCommandPerChange ==
  \A p \in Processes : pc[p] # "off" <=> owner = p

\* "At most one active own session": as long as no `paseo run` was left to
\* the daemon without a waiting sender, two active sessions of one change
\* cannot come into being - not by a second invocation, not by a user who
\* archives the workspace under a running session, not by a restart.
OneAssignment ==
  ~ lost => \A s, t \in OwnSessions : s = t

\* CommitPreparationCompleted is reported only of a session that is archived
\* for certain, also when the answer to `archive` was lost or negative.
CompletedIsArchived ==
  \A p \in Processes :
    outcome[p].kind = "completed" =>
      outcome[p].session \in Sessions /\ session[outcome[p].session] = "archived"

\* One run of the command sends `paseo run` at most once: an unknown outcome
\* is not retried and an accompanied session is never replaced by a new one.
SendsRunOnce ==
  [][\A p \in Processes :
       call[p].op # "run" /\ call'[p].op = "run" => ~ dispatched[p]]_vars

\* Within one run the accompanied session never becomes another session.
KnownSessionIsKept ==
  [][\A p \in Processes :
       run[p].known # None /\ pc'[p] # "off" => run'[p].known = run[p].known]_vars

\* A session handed to the user is only watched: the run that handed it over
\* never archives it, even when it is finished over a clean tree.
HandedIsNotArchived ==
  [][\A p \in Processes :
       call[p].op # "archive" /\ call'[p].op = "archive" => ~ run[p].handed]_vars

-----------------------------------------------------------------------------
(* The command implements the promise of module Assignment.                *)

Promise ==
  INSTANCE Assignment WITH
    active  <- OwnSessions,
    closed  <- {s \in Sessions : session[s] = "archived"},
    escaped <- lost,
    bound   <- [p \in Processes |-> run[p].known],
    report  <- outcome

\* Whatever the interleaving of two invocations, the daemon, the agent and the
\* user: a session begins only while no other is active, one run accompanies
\* one session, and the end of a session is reported of a closed one.
KeepsPromise == Promise!Spec

\* What the command relies on, and module Invocation provides.
ReliedLock ==
  INSTANCE ChangeLock WITH owner <- owner, working <- {p \in Processes : pc[p] # "off"}

-----------------------------------------------------------------------------
(* Liveness.                                                               *)

\* Every run ends or reaches the state in which it watches a session that
\* needs the user.
EndsOrHandsOver ==
  \A p \in Processes : pc[p] # "off" ~> (pc[p] = "off" \/ run[p].handed)

\* A run that watches a session ends once the user has closed the session.
ClosedSessionEndsRun ==
  \A p \in Processes : \A s \in Sessions :
    (run[p].known = s /\ session[s] = "archived") ~> (pc[p] = "off")
=============================================================================
