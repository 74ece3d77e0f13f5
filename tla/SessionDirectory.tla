--------------------------- MODULE SessionDirectory ---------------------------
(***************************************************************************)
(* How an answer of the Paseo CLI becomes one of the observations of the   *)
(* domain: the two label filters, `inspect`, the checks of its JSON, the   *)
(* translation into an UntrustedOwnSession and ObserveOwnSessions.         *)
(*                                                                         *)
(* One query is three reads.  CommitPreparation takes their outcome for    *)
(* agents whose data is sound; here the agents of the daemon may carry     *)
(* damaged labels, a parent or another working directory, ask for a        *)
(* permission in any state and be archived by force, at any moment.        *)
(*                                                                         *)
(* `ls` lists what is not archived, also agents with the status closed:    *)
(* parseSessionState accepts that status in a listing.                     *)
(***************************************************************************)
CONSTANTS Agents, None

ASSUME NoneAssumption == None \notin Agents

VARIABLES
  agent,       \* agent[a]: what the daemon holds of agent a
  pc,          \* the next read of the query in progress, or "idle"
  known,       \* None: FindOwnSessions, otherwise ObserveOwnSession(known)
  broad,       \* answer to the broad filter
  target,      \* the agent to inspect
  answer,      \* what the latest query returned
  steady,      \* history: candidates listed ever since the query began
  calm         \* history: nothing has happened since the query began

query   == <<pc, known, broad, target, answer>>
vars    == <<agent, pc, known, broad, target, answer, steady, calm>>
-----------------------------------------------------------------------------
\* "own" fits in every respect, "child" has a parent, "elsewhere" another
\* working directory, "damaged" lacks one of the labels of the exact filter
\* and "stripped" one of the broad filter.
Marks    == {"own", "child", "elsewhere", "damaged", "stripped"}
OwnMarks == {"own", "damaged", "stripped"}
Statuses == {"initializing", "running", "idle", "error", "closed"}

Agent ==
  [marks: Marks, status: Statuses \cup {"absent"}, archived: BOOLEAN, permission: BOOLEAN]

Observations == {"absent", "working", "finished", "permission", "error", "closed", "ambiguous"}

\* Observations that name one session.
Named == Observations \ {"absent", "ambiguous"}

Errors ==
  {"corrupt", "mismatch", "wrongDirectory", "foreignParent", "malformed", "contradictory"}

Answer == [is: Observations \cup Errors \cup {"none"}, session: Agents \cup {None}]

NoAnswer == [is |-> "none", session |-> None]

TypeOK ==
  /\ agent \in [Agents -> Agent]
  /\ pc \in {"idle", "broad", "exact", "inspect"}
  /\ known \in Agents \cup {None}
  /\ broad \in SUBSET Agents
  /\ target \in Agents \cup {None}
  /\ answer \in Answer
  /\ steady \in SUBSET Agents
  /\ calm \in BOOLEAN

Init ==
  /\ agent \in [Agents -> [marks: Marks \ {"stripped"}, status: {"absent"},
                           archived: {FALSE}, permission: {FALSE}]]
  /\ pc = "idle"
  /\ known = None
  /\ broad = {}
  /\ target = None
  /\ answer = NoAnswer
  /\ steady = {}
  /\ calm = FALSE
-----------------------------------------------------------------------------
(* What the daemon lists.                                                  *)

\* Filter by owner and change.
Candidates ==
  {a \in Agents :
     agent[a].status # "absent" /\ ~ agent[a].archived /\ agent[a].marks # "stripped"}

\* Filter by version, kind and workspace too.
ExactCandidates == {a \in Candidates : agent[a].marks # "damaged"}
-----------------------------------------------------------------------------
(* From an inspection to an observation.                                   *)

\* validateSessionInspection: an archived agent neither works nor asks.
Malformed(x) ==
  x.archived /\ (x.status \in {"initializing", "running"} \/ x.permission)

\* untrustedOwnSession: archiving outweighs the status.
StatusOf(x) == IF x.archived THEN "closed" ELSE x.status

\* Mutant: a finished turn outweighs a pending permission.
FinishedFirst(x) ==
  IF StatusOf(x) = "closed" THEN "none"
  ELSE IF StatusOf(x) = "error" THEN "error"
  ELSE IF StatusOf(x) = "idle" THEN "finished"
  ELSE IF x.permission THEN "permission"
  ELSE "none"

\* untrustedOwnSession: closed before error before permission before idle.
AttentionOf(x) ==
  IF StatusOf(x) = "closed" THEN "none"
  ELSE IF StatusOf(x) = "error" THEN "error"
  ELSE IF x.permission THEN "permission"
  ELSE IF StatusOf(x) = "idle" THEN "finished"
  ELSE "none"

\* Mutant: a working turn must not ask for anything.
WithoutPermissionInTurn ==
  {<<"initializing", "none">>, <<"running", "none">>,
   <<"idle", "finished">>, <<"idle", "permission">>, <<"error", "error">>, <<"closed", "none">>}

\* validateSessionState: the statuses and the reasons that go together.
Consistent ==
  {<<"initializing", "none">>, <<"running", "none">>, <<"running", "permission">>,
   <<"idle", "finished">>, <<"idle", "permission">>, <<"error", "error">>, <<"closed", "none">>}

\* Mutant: a status of Paseo leaks into the domain.
StatusReturned(x) == IF AttentionOf(x) # "none" THEN AttentionOf(x) ELSE StatusOf(x)

\* observationFor.
ObservationOf(x) ==
  IF AttentionOf(x) # "none" THEN AttentionOf(x)
  ELSE IF StatusOf(x) = "closed" THEN "closed"
  ELSE "working"

\* inspectOwnSession, in the order of its checks.
Inspected(x) ==
  IF Malformed(x) THEN "malformed"
  ELSE IF x.marks = "elsewhere" THEN "wrongDirectory"
  ELSE IF x.marks = "child" THEN "foreignParent"
  ELSE IF <<StatusOf(x), AttentionOf(x)>> \notin Consistent THEN "contradictory"
  ELSE ObservationOf(x)

\* The check of Client.ArchiveOwnSession before its mutation.
MayArchive(x) ==
  ~ x.archived /\ x.status \notin {"initializing", "running"} /\ ~ x.permission
-----------------------------------------------------------------------------
(* The query.                                                              *)

Return(is, s) ==
  /\ answer' = [is |-> is, session |-> s]
  /\ pc' = "idle"
  /\ UNCHANGED <<known, broad, target>>

\* A session is known because an earlier query or `run` has named it: it is
\* one of our own, at that time.
Ask(k) ==
  /\ pc = "idle"
  /\ k # None => agent[k].marks \in OwnMarks /\ agent[k].status # "absent"
  /\ pc' = "broad"
  /\ known' = k
  /\ broad' = {}
  /\ target' = None
  /\ answer' = NoAnswer
  /\ steady' = Candidates
  /\ calm' = TRUE
  /\ UNCHANGED agent

ListBroad ==
  /\ pc = "broad"
  /\ broad' = Candidates
  /\ pc' = "exact"
  /\ UNCHANGED <<agent, known, target, answer, steady, calm>>

\* Mutant: the comparison of the lengths is missing.
RightAmongLeft(left, right) == right \subseteq left

SameAgentSet(left, right) == left = right

ListExact ==
  /\ pc = "exact"
  /\ \/ /\ ~ SameAgentSet(broad, ExactCandidates)
        /\ Return("corrupt", None)
     \/ /\ SameAgentSet(broad, ExactCandidates)
        /\ \/ /\ \E a, b \in ExactCandidates : a # b
              /\ Return("ambiguous", None)
           \/ /\ ExactCandidates = {} /\ known = None
              /\ Return("absent", None)
           \/ /\ \E a \in ExactCandidates : known \notin {None, a} /\ ExactCandidates = {a}
              /\ Return("mismatch", None)
           \/ \E a \in Agents :
                /\ \/ ExactCandidates = {a} /\ known \in {None, a}
                   \/ ExactCandidates = {} /\ known = a
                /\ target' = a
                /\ pc' = "inspect"
                /\ UNCHANGED <<known, broad, answer>>
  /\ UNCHANGED <<agent, steady, calm>>

\* Mutant: a known session that is not listed is observed like any other.
UnlistedIsIgnored == FALSE

\* ObserveOwnSession: an unlisted session must prove to be closed.
UnlistedIsActive == target \notin broad /\ Inspected(agent[target]) \in Named \ {"closed"}

Inspect ==
  /\ pc = "inspect"
  /\ \/ UnlistedIsActive /\ Return("corrupt", None)
     \/ /\ ~ UnlistedIsActive
        /\ Return(Inspected(agent[target]),
                  IF Inspected(agent[target]) \in Named THEN target ELSE None)
  /\ UNCHANGED <<agent, steady, calm>>
-----------------------------------------------------------------------------
(* The daemon, its agents and its users, between any two reads.            *)

Becomes(a, x) ==
  /\ agent' = [agent EXCEPT ![a] = x]
  /\ steady' = steady \cap Candidates'
  /\ calm' = FALSE
  /\ UNCHANGED query

\* Agents live on whether or not the filters still list them.
Alive(a) == agent[a].status # "absent" /\ ~ agent[a].archived

Appears(a) ==
  /\ agent[a].status = "absent"
  /\ Becomes(a, [agent[a] EXCEPT !.status = "initializing"])

Turns(a) ==
  /\ Alive(a)
  /\ \/ agent[a].status = "initializing"
        /\ Becomes(a, [agent[a] EXCEPT !.status = "running"])
     \/ agent[a].status = "running"
        /\ \E to \in {"idle", "error", "closed"} : Becomes(a, [agent[a] EXCEPT !.status = to])
     \/ agent[a].status \in {"idle", "error", "closed"}
        /\ \E to \in {"running", "closed"} \ {agent[a].status} :
             Becomes(a, [agent[a] EXCEPT !.status = to])

AsksOrIsAnswered(a) ==
  /\ Alive(a)
  /\ Becomes(a, [agent[a] EXCEPT !.permission = ~ @])

Archives(a) ==
  /\ Alive(a)
  /\ \E asks \in {FALSE, agent[a].permission} :
       Becomes(a, [agent[a] EXCEPT !.archived = TRUE, !.permission = asks])

\* Somebody takes labels from a session of our own, or gives them back.
Relabels(a) ==
  /\ Alive(a)
  /\ agent[a].marks \in OwnMarks
  /\ \E marks \in OwnMarks \ {agent[a].marks} :
       Becomes(a, [agent[a] EXCEPT !.marks = marks])

Next ==
  \/ \E k \in Agents \cup {None} : Ask(k)
  \/ ListBroad \/ ListExact \/ Inspect
  \/ \E a \in Agents : Appears(a) \/ Turns(a) \/ AsksOrIsAnswered(a) \/ Archives(a) \/ Relabels(a)

Spec == Init /\ [][Next]_vars
-----------------------------------------------------------------------------
\* The query in progress returns.
Answers == pc # "idle" /\ pc' = "idle"

\* "Several block the choice, a damaged one is an obstacle and no absence": an
\* answer never passes over a candidate that was listed during all the query.
NobodyIsPassedOver ==
  [][Answers /\ answer'.is \in Observations \ {"ambiguous"} =>
       steady \subseteq {answer'.session}]_vars

\* A session named by an observation is never a child of another agent nor at
\* work in another directory, however it came to carry our labels.
NamedIsOwn ==
  [][Answers /\ answer'.is \in Named =>
       agent[answer'.session].marks \notin {"child", "elsewhere"}]_vars

\* The reconciler and the client agree: what is observed as finished passes
\* the check of ArchiveOwnSession on the same inspection, and nothing that is
\* observed to work or to ask does.
FinishedMayBeArchived ==
  [][Answers =>
       /\ answer'.is = "finished" => MayArchive(agent[answer'.session])
       /\ answer'.is \in {"working", "permission"} => ~ MayArchive(agent[answer'.session])]_vars

\* No false obstacle: when nothing happens during the query and one candidate
\* of our own is listed in a state that makes sense, or the known session is
\* archived, the query yields an observation of it.
QuietQueryIsAnswered ==
  [][Answers /\ calm =>
       \A a \in Agents :
         LET x == agent[a] IN
         /\ x.marks = "own" /\ known \in {None, a} /\ Candidates = {a}
              /\ ~ (x.status = "initializing" /\ x.permission)
            => answer'.is \in Named /\ answer'.session = a
         /\ known = a /\ x.archived /\ Candidates = {} /\ ~ Malformed(x)
            => answer'.is = "closed" /\ answer'.session = a]_vars

\* A session that has left the filters is observed as closed only if it is
\* closed for certain.
GoneIsClosed ==
  [][Answers /\ known # None /\ target \notin broad /\ answer'.is \in Named =>
       StatusOf(agent[target]) = "closed" /\ answer'.is = "closed"]_vars
=============================================================================
