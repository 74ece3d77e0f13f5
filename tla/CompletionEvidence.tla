------------------------- MODULE CompletionEvidence -------------------------
(***************************************************************************)
(* CommitPreparation with a history variable that remembers what the       *)
(* success of a run rests on: a reading of the clean working tree that is  *)
(* later than the last turn of the session.                                *)
(***************************************************************************)
EXTENDS CommitPreparation

VARIABLE verified  \* sessions that did nothing since a run read the tree clean
                   \* on their account

evidence == <<vars, verified>>

EvidenceInit == Init /\ verified = {}

\* Sessions for which this step reads the tree clean after their turn.
ReadClean ==
  {s \in Sessions :
     /\ session[s] \notin Working /\ ~ dirty
     /\ \E p \in Processes :
          /\ ReadWorkingTree(p)
          /\ run[p].seen # "absent" /\ run[p].target = s}

\* Sessions whose agent takes up work in this step.
TakenUp == {s \in Sessions : session[s] # "running" /\ session'[s] = "running"}

EvidenceNext == Next /\ verified' = (verified \cup ReadClean) \ TakenUp

EvidenceSpec == EvidenceInit /\ [][EvidenceNext]_evidence

\* "The only criterion of the CLI is that there are no uncommitted changes
\* after the work of the session has ended": success is reported for s only
\* if the tree was read clean after the latest turn of s.
CompletedAfterLastTurn ==
  [][\A p \in Processes :
       outcome'[p] # outcome[p] /\ outcome'[p].kind = "completed" =>
         outcome'[p].session \in verified']_evidence

\* A run has seen that s is finished, and is on its way to archive it.
Closing(s) ==
  \E p \in Processes :
    \/ pc[p] = "tree" /\ run[p].seen = "finished" /\ run[p].target = s
    \/ run[p].goal = "archive" /\ run[p].known = s

\* The user does not go back to a session that a run is about to archive: all
\* it takes for CompletedAfterLastTurn.
NobodyResumesClosing ==
  [][\A s \in Sessions : Closing(s) => ~ UserResumes(s)]_evidence
=============================================================================
