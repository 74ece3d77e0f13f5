------------------------------ MODULE PhaseOne ------------------------------
(***************************************************************************)
(* PhaseOneReconciler: the loop from which CommitPreparationReconciler     *)
(* grew, kept beside it over the same gateway.  It reads neither OpenSpec  *)
(* nor Git, verifies no settings, hands nothing to a human: a change       *)
(* without a session gets one, a finished session is archived, a session   *)
(* that asks for a human ends the run.  Its reads, its mutations and what  *)
(* they act upon are those of CommitPreparation; the gateway is the one of *)
(* the repository's tests, and one invocation runs at a time: its lock is  *)
(* always free.                                                            *)
(***************************************************************************)
EXTENDS CommitPreparation

ASSUME OneInvocation == \A p, q \in Processes : p = q

\* nextAction: the workspace, then the sessions in it.
FindPhaseOneWorkspace(p) ==
  /\ pc[p] = "workspaces"
  /\ \/ /\ ActiveWorkspaces = {} /\ run[p].known # None
        /\ Obstacle(p)
     \/ /\ ActiveWorkspaces = {} /\ run[p].known = None
        /\ Proceed(p, "recheck", run[p])
     \/ \E w \in Workspaces :
          /\ ActiveWorkspaces = {w}
          /\ Proceed(p, "broad", [run[p] EXCEPT !.ws = w, !.goal = "select"])
     \/ /\ \E v, w \in ActiveWorkspaces : v # w
        /\ Obstacle(p)
  /\ UNCHANGED world

\* Mutant: no session is in sight, so none is known.
CreatesWheneverAbsent(p) == TRUE

\* NoActiveOwnSession is an obstacle once a session is known, in
\* validateKnownSessionObservation.
CreatesSession(p) == run[p].known = None

\* The exact listing while the sessions are read for the choice; those of a
\* creation and of an archiving are the ones of the gateway.
ListForChoice(p) ==
  LET exact == OwnSessionsIn(run[p].ws) IN
  /\ pc[p] = "exact"
  /\ run[p].goal = "select"
  /\ SameAgentSet(run[p].broad, exact)
  /\ exact = {}
  /\ CreatesSession(p)
  /\ Proceed(p, "fresh", [run[p] EXCEPT !.goal = "create"])
  /\ UNCHANGED world

\* Every other answer of the two listings means to this loop what it means to
\* its successor.
ListAsSuccessor(p) ==
  /\ ListExact(p)
  /\ pc'[p] # "tree"

\* Mutant: a session that asks for a human is looked at again.
LooksAgain(p) == ObservationChanged(p)

\* ErrSessionNeedsAction.
NeedsHuman(p) == Obstacle(p)

\* selectSessionAction and validateKnownSessionObservation.
SelectPhaseOneAction(p) ==
  LET s == run[p].target IN
  /\ pc[p] \in {"inspect", "inspectKnown"}
  /\ run[p].goal = "select"
  /\ \/ /\ pc[p] = "inspectKnown" /\ session[s] # "archived"
        /\ Obstacle(p)
     \/ /\ pc[p] = "inspect" /\ session[s] \in Working
        /\ NextIteration(p, "wait", s, FALSE, FALSE)
     \/ /\ pc[p] = "inspect" /\ session[s] \in {"error", "permission"}
        /\ NeedsHuman(p)
     \/ /\ pc[p] = "inspect" /\ session[s] = "idle"
        /\ Proceed(p, "fresh", [run[p] EXCEPT !.known = s, !.goal = "archive"])
     \/ /\ session[s] = "archived"
        /\ Exit(p, "completed", s)
  /\ UNCHANGED world
-----------------------------------------------------------------------------
PhaseOneStep(p) ==
  \/ FindPhaseOneWorkspace(p) \/ ListBroad(p) \/ ListForChoice(p) \/ ListAsSuccessor(p)
  \/ SelectPhaseOneAction(p) \/ InspectToCreate(p) \/ InspectToArchive(p)
  \/ RecheckNoWorkspace(p) \/ FindFreshWorkspace(p)
  \/ InspectBeforeArchive(p) \/ InspectAfterArchive(p)
  \/ ReceiveAnswer(p) \/ CallFails(p) \/ WaitReturns(p)

PhaseOneNext ==
  \/ \E p \in Processes : AcquireChangeLock(p) \/ PhaseOneStep(p) \/ Fault(p)
  \/ Daemon
  \/ \E s \in Sessions : Agent(s)
  \/ User

\* As in CommitPreparation: the loop is never blocked but by `paseo wait`, and
\* turns end.
PhaseOneFairness ==
  /\ \A p \in Processes : WF_vars(PhaseOneStep(p))
  /\ \A s \in Sessions : WF_vars(AgentStarts(s)) /\ WF_vars(AgentStops(s))

PhaseOneSpec == Init /\ [][PhaseOneNext]_vars /\ PhaseOneFairness
-----------------------------------------------------------------------------
\* The earlier loop keeps the same promise as its successor, whatever becomes
\* of its calls and however the user intervenes between two of its reads.
PhaseOneKeepsPromise == Promise!Spec

\* Nothing keeps it running but a working session: a session that needs a human
\* ends the run, and observations that change end with the changes.
PhaseOneEnds == \A p \in Processes : pc[p] # "off" ~> pc[p] = "off"
=============================================================================
