----------------------- MODULE SessionDirectory_proofs -----------------------
(***************************************************************************)
(* Proofs about SessionDirectory: what one answer says although the agents *)
(* move between its three reads.  What was listed ever since the query     *)
(* began is in the broad answer; what is inspected is all of that answer,  *)
(* or the known session when the answer is empty; a known session never    *)
(* becomes a stranger.  The rest is a property of the classification, for  *)
(* whatever data an agent carries.                                         *)
(***************************************************************************)
EXTENDS SessionDirectory, TLAPS

\* What was listed throughout is still listed, and was when it was asked for.
SteadyIsListed ==
  /\ steady \subseteq Candidates
  /\ pc \in {"exact", "inspect"} => steady \subseteq broad

\* While nothing happens the broad answer stays true.
CalmIsListed == calm /\ pc \in {"exact", "inspect"} => broad = Candidates

\* One session is inspected: the only one in sight, or the known one.
TargetIsOnly ==
  pc = "inspect" => /\ target \in Agents
                    /\ broad \in {{}, {target}}
                    /\ broad = {} => known = target
                    /\ known \in {None, target}

\* Labels change, working directory and parent do not.
KnownIsOwn ==
  pc # "idle" /\ known # None =>
    agent[known].marks \in OwnMarks /\ agent[known].status # "absent"

Reads == SteadyIsListed /\ CalmIsListed /\ TargetIsOnly /\ KnownIsOwn

Moved ==
  \E a \in Agents : Appears(a) \/ Turns(a) \/ AsksOrIsAnswered(a) \/ Archives(a) \/ Relabels(a)
-----------------------------------------------------------------------------
(* The classification of one inspection.                                   *)

LEMMA InspectedType ==
  ASSUME NEW x \in Agent
  PROVE  Inspected(x) \in Named \cup Errors
BY DEF Agent, Inspected, ObservationOf, StatusOf, AttentionOf, Consistent, Named, Observations,
       Errors, Statuses

\* Whoever is named has neither a parent nor another working directory.
LEMMA NamedMarks ==
  ASSUME NEW x \in Agent, Inspected(x) \in Named
  PROVE  /\ x.marks \notin {"child", "elsewhere"}
         /\ ~ Malformed(x)
         /\ <<StatusOf(x), AttentionOf(x)>> \in Consistent
         /\ Inspected(x) = ObservationOf(x)
BY DEF Inspected, Named, Observations

\* A finished session passes the check before `archive`, one at work does not.
LEMMA FinishedPasses ==
  ASSUME NEW x \in Agent, Inspected(x) \in Named
  PROVE  /\ Inspected(x) = "finished" => MayArchive(x)
         /\ Inspected(x) \in {"working", "permission"} => ~ MayArchive(x)
BY NamedMarks
   DEF Agent, Statuses, ObservationOf, StatusOf, AttentionOf, Consistent, MayArchive

LEMMA ClosedStatus ==
  ASSUME NEW x \in Agent, Inspected(x) = "closed"
  PROVE  StatusOf(x) = "closed"
BY DEF Agent, Statuses, Inspected, ObservationOf, StatusOf, AttentionOf

\* A session of our own that is listed in a state that makes sense is named.
LEMMA SoundIsNamed ==
  ASSUME NEW x \in Agent, x.status # "absent", ~ x.archived, x.marks = "own",
         ~ (x.status = "initializing" /\ x.permission)
  PROVE  Inspected(x) \in Named
BY DEF Agent, Statuses, Inspected, Malformed, ObservationOf, StatusOf, AttentionOf, Consistent,
       Named, Observations

LEMMA ArchivedIsClosed ==
  ASSUME NEW x \in Agent, x.archived, ~ Malformed(x), x.marks \notin {"child", "elsewhere"}
  PROVE  Inspected(x) = "closed"
BY DEF Agent, Inspected, ObservationOf, StatusOf, AttentionOf, Consistent
-----------------------------------------------------------------------------
(* The agents.                                                             *)

\* Whatever happens, it happens to one agent and leaves the query alone.
LEMMA MovedAgent ==
  ASSUME TypeOK, Moved
  PROVE  \E a \in Agents, x \in Agent :
           /\ agent' = [agent EXCEPT ![a] = x]
           /\ x.status # "absent"
           /\ x.marks = agent[a].marks \/ x.marks \in OwnMarks
           /\ steady' = steady \cap Candidates'
           /\ calm' = FALSE
           /\ UNCHANGED query
<1>1. PICK a \in Agents :
        Appears(a) \/ Turns(a) \/ AsksOrIsAnswered(a) \/ Archives(a) \/ Relabels(a)
  BY DEF Moved
<1>2. agent[a] \in Agent
  BY DEF TypeOK
<1>3. CASE Appears(a)
  <2>1. [agent[a] EXCEPT !.status = "initializing"] \in Agent
    BY <1>2 DEF Agent, Statuses
  <2> QED BY <1>2, <1>3, <2>1 DEF Appears, Becomes, Agent
<1>4. CASE Turns(a)
  <2>1. \A to \in Statuses : [agent[a] EXCEPT !.status = to] \in Agent
    BY <1>2 DEF Agent
  <2>2. PICK to \in Statuses : Becomes(a, [agent[a] EXCEPT !.status = to])
    BY <1>4 DEF Turns, Statuses
  <2>3. [agent[a] EXCEPT !.status = to].status # "absent"
    BY <1>2 DEF Agent, Statuses
  <2> QED BY <1>2, <2>1, <2>2, <2>3 DEF Becomes, Agent
<1>5. CASE AsksOrIsAnswered(a)
  <2>1. [agent[a] EXCEPT !.permission = ~ @] \in Agent
    BY <1>2 DEF Agent
  <2> QED BY <1>2, <1>5, <2>1 DEF AsksOrIsAnswered, Becomes, Agent, Alive
<1>6. CASE Archives(a)
  <2>1. PICK asks \in {FALSE, agent[a].permission} :
          Becomes(a, [agent[a] EXCEPT !.archived = TRUE, !.permission = asks])
    BY <1>6 DEF Archives
  <2>2. [agent[a] EXCEPT !.archived = TRUE, !.permission = asks] \in Agent
    BY <1>2 DEF Agent
  <2> QED BY <1>2, <1>6, <2>1, <2>2 DEF Archives, Becomes, Agent, Alive
<1>7. CASE Relabels(a)
  <2>1. PICK marks \in OwnMarks : Becomes(a, [agent[a] EXCEPT !.marks = marks])
    BY <1>7 DEF Relabels
  <2>2. [agent[a] EXCEPT !.marks = marks] \in Agent
    BY <1>2 DEF Agent, Marks, OwnMarks
  <2> QED BY <1>2, <1>7, <2>1, <2>2 DEF Relabels, Becomes, Agent, Alive
<1> QED BY <1>1, <1>3, <1>4, <1>5, <1>6, <1>7

-----------------------------------------------------------------------------
(* The query.                                                              *)

LEMMA InitHolds == Init => TypeOK /\ Reads
<1> SUFFICES ASSUME Init PROVE TypeOK /\ Reads
  OBVIOUS
<1>1. agent \in [Agents -> Agent]
  BY DEF Init, Agent, Marks
<1>2. TypeOK
  BY <1>1 DEF Init, TypeOK, NoAnswer, Answer
<1> QED BY <1>2 DEF Init, Reads, SteadyIsListed, CalmIsListed, TargetIsOnly, KnownIsOwn

\* What an inspection returns.
LEMMA InspectAnswers ==
  ASSUME TypeOK, TargetIsOnly, Inspect
  PROVE  /\ \/ answer' = [is |-> "corrupt", session |-> None]
            \/ /\ ~ UnlistedIsActive
               /\ answer'.is = Inspected(agent[target])
               /\ \/ answer'.is \in Errors /\ answer'.session = None
                  \/ answer'.is \in Named /\ answer'.session = target
         /\ answer' \in Answer
         /\ pc' = "idle"
         /\ target \in Agents /\ agent[target] \in Agent
         /\ UNCHANGED <<agent, known, broad, target, steady, calm>>
<1>1. target \in Agents /\ agent[target] \in Agent
  BY DEF Inspect, TargetIsOnly, TypeOK
<1>2. Inspected(agent[target]) \in Named \cup Errors
  BY <1>1, InspectedType
<1>3. pc' = "idle" /\ UNCHANGED <<agent, known, broad, target, steady, calm>>
  BY DEF Inspect, Return
<1>4. CASE UnlistedIsActive /\ Return("corrupt", None)
  BY <1>1, <1>3, <1>4 DEF Return, Answer, Errors
<1>5. CASE ~ UnlistedIsActive
  <2>1. answer' = [is |-> Inspected(agent[target]),
                   session |-> IF Inspected(agent[target]) \in Named THEN target ELSE None]
    BY <1>5 DEF Inspect, Return
  <2>2. Named \cap Errors = {} /\ Named \subseteq Observations
    BY DEF Named, Observations, Errors
  <2>3. CASE Inspected(agent[target]) \in Named
    <3>1. answer' = [is |-> Inspected(agent[target]), session |-> target]
      BY <2>1, <2>3
    <3> QED BY <1>1, <1>3, <1>5, <2>2, <2>3, <3>1 DEF Answer
  <2>4. CASE Inspected(agent[target]) \in Errors
    <3>1. answer' = [is |-> Inspected(agent[target]), session |-> None]
      BY <2>1, <2>2, <2>4
    <3> QED BY <1>1, <1>3, <1>5, <2>4, <3>1 DEF Answer
  <2> QED BY <1>2, <2>3, <2>4
<1> QED BY <1>4, <1>5 DEF Inspect

\* What the second listing decides by itself.
LEMMA ListExactAnswers ==
  ASSUME TypeOK, ListExact
  PROVE  /\ UNCHANGED <<agent, known, broad, steady, calm>>
         /\ \/ /\ pc' = "idle" /\ target' = target
               /\ \/ /\ answer' = [is |-> "corrupt", session |-> None]
                     /\ broad # ExactCandidates
                  \/ /\ answer' = [is |-> "ambiguous", session |-> None]
                     /\ \E a, b \in ExactCandidates : a # b
                  \/ /\ answer' = [is |-> "absent", session |-> None]
                     /\ ExactCandidates = {} /\ broad = {} /\ known = None
                  \/ /\ answer' = [is |-> "mismatch", session |-> None]
                     /\ \E a \in ExactCandidates :
                          known \notin {None, a} /\ ExactCandidates = {a}
            \/ /\ pc' = "inspect" /\ answer' = answer
               /\ target' \in Agents
               /\ broad \in {{}, {target'}}
               /\ broad = {} => known = target'
               /\ known \in {None, target'}
BY DEF ListExact, SameAgentSet, Return, Candidates, ExactCandidates

LEMMA TypeInductive == TypeOK /\ TargetIsOnly /\ [Next]_vars => TypeOK'
<1> SUFFICES ASSUME TypeOK, TargetIsOnly, [Next]_vars PROVE TypeOK'
  OBVIOUS
<1> USE DEF TypeOK
<1>1. ASSUME NEW k \in Agents \cup {None}, Ask(k) PROVE TypeOK'
  BY <1>1 DEF Ask, NoAnswer, Answer, Candidates
<1>2. CASE ListBroad
  BY <1>2 DEF ListBroad, Candidates
<1>3. CASE ListExact
  <2>1. answer' \in Answer
    BY <1>3, ListExactAnswers DEF Answer, Observations, Errors
  <2> QED BY <1>3, <2>1, ListExactAnswers
<1>4. CASE Inspect
  BY <1>4, InspectAnswers
<1>5. CASE Moved
  BY <1>5, MovedAgent DEF query
<1>6. CASE UNCHANGED vars
  BY <1>6 DEF vars
<1> QED BY <1>1, <1>2, <1>3, <1>4, <1>5, <1>6 DEF Next, Moved

LEMMA ReadsInductive == TypeOK /\ Reads /\ [Next]_vars => Reads'
<1> SUFFICES ASSUME TypeOK, Reads, [Next]_vars PROVE Reads'
  OBVIOUS
<1> USE DEF Reads, OwnMarks
<1>1. ASSUME NEW k \in Agents \cup {None}, Ask(k) PROVE Reads'
  BY <1>1 DEF Ask, SteadyIsListed, CalmIsListed, TargetIsOnly, KnownIsOwn, Candidates
<1>2. CASE ListBroad
  BY <1>2 DEF ListBroad, SteadyIsListed, CalmIsListed, TargetIsOnly, KnownIsOwn, Candidates
<1>3. CASE ListExact
  <2>1. pc = "exact" /\ Candidates' = Candidates
    BY <1>3 DEF ListExact, Candidates
  <2> QED BY <1>3, <2>1, ListExactAnswers
          DEF SteadyIsListed, CalmIsListed, TargetIsOnly, KnownIsOwn
<1>4. CASE Inspect
  <2>1. pc = "inspect" /\ Candidates' = Candidates
    BY <1>4 DEF Inspect, Candidates
  <2> QED BY <1>4, <2>1, InspectAnswers
          DEF SteadyIsListed, CalmIsListed, TargetIsOnly, KnownIsOwn
<1>5. CASE Moved
  <2>1. PICK a \in Agents, x \in Agent :
          /\ agent' = [agent EXCEPT ![a] = x]
          /\ x.status # "absent"
          /\ x.marks = agent[a].marks \/ x.marks \in OwnMarks
          /\ steady' = steady \cap Candidates'
          /\ calm' = FALSE
          /\ UNCHANGED query
    BY <1>5, MovedAgent
  <2>2. SteadyIsListed'
    BY <2>1 DEF SteadyIsListed, query
  <2>3. CalmIsListed' /\ TargetIsOnly'
    BY <2>1 DEF CalmIsListed, TargetIsOnly, query
  <2>4. KnownIsOwn'
    <3>1. known' = known /\ pc' = pc
      BY <2>1 DEF query
    <3> QED BY <2>1, <3>1 DEF KnownIsOwn, TypeOK
  <2> QED BY <2>2, <2>3, <2>4
<1>6. CASE UNCHANGED vars
  <2>1. Candidates' = Candidates
    BY <1>6 DEF vars, Candidates
  <2> QED BY <1>6, <2>1 DEF vars, SteadyIsListed, CalmIsListed, TargetIsOnly, KnownIsOwn
<1> QED BY <1>1, <1>2, <1>3, <1>4, <1>5, <1>6 DEF Next, Moved

LEMMA QueryInvariant == Spec => [](TypeOK /\ Reads)
<1>1. TypeOK /\ Reads /\ [Next]_vars => TypeOK' /\ Reads'
  BY TypeInductive, ReadsInductive DEF Reads
<1> QED BY <1>1, InitHolds, PTL DEF Spec

\* Every variable keeps its type.
THEOREM DirectoryTypeCorrect == Spec => []TypeOK
BY QueryInvariant, PTL

\* Only the second listing and the inspection answer.
LEMMA WhoAnswers ==
  ASSUME TypeOK, [Next]_vars, Answers
  PROVE  ListExact \/ Inspect
BY MovedAgent DEF Answers, Next, Moved, Ask, ListBroad, query, vars
-----------------------------------------------------------------------------
(* What an answer says.                                                    *)

\* An answer passes over nobody who was listed all the time.
THEOREM NobodyPassedOver == Spec => NobodyIsPassedOver
<1>1. TypeOK /\ Reads /\ [Next]_vars
      => [Answers /\ answer'.is \in Observations \ {"ambiguous"} =>
            steady \subseteq {answer'.session}]_vars
  <2> SUFFICES ASSUME TypeOK, Reads, [Next]_vars, Answers,
                      answer'.is \in Observations \ {"ambiguous"}
               PROVE  steady \subseteq {answer'.session}
    OBVIOUS
  <2>1. CASE ListExact
    <3>1. steady \subseteq broad
      BY <2>1 DEF ListExact, Reads, SteadyIsListed
    <3> QED BY <2>1, <3>1, ListExactAnswers DEF Answers, Observations
  <2>2. CASE Inspect
    <3>1. steady \subseteq broad /\ broad \in {{}, {target}}
      BY <2>2 DEF Inspect, Reads, SteadyIsListed, TargetIsOnly
    <3>2. answer'.session = target
      BY <2>2, InspectAnswers DEF Reads, Observations, Errors
    <3> QED BY <3>1, <3>2
  <2> QED BY <2>1, <2>2, WhoAnswers
<1> QED BY <1>1, QueryInvariant, PTL DEF Spec, NobodyIsPassedOver

\* A session named by an answer comes from an inspection.
LEMMA NamedIsInspected ==
  ASSUME TypeOK, Reads, [Next]_vars, Answers, answer'.is \in Named
  PROVE  /\ answer'.session = target /\ target \in Agents /\ agent[target] \in Agent
         /\ answer'.is = Inspected(agent[target])
         /\ ~ UnlistedIsActive
<1>1. ~ ListExact
  <2> SUFFICES ASSUME ListExact PROVE FALSE
    OBVIOUS
  <2> QED BY ListExactAnswers DEF Answers, Named, Observations
<1>2. Inspect
  BY <1>1, WhoAnswers
<1>3. "corrupt" \notin Named /\ Named \cap Errors = {}
  BY DEF Named, Observations, Errors
<1> QED BY <1>2, <1>3, InspectAnswers DEF Reads

\* No stranger is named.
THEOREM StrangersAreNotNamed == Spec => NamedIsOwn
<1>1. TypeOK /\ Reads /\ [Next]_vars
      => [Answers /\ answer'.is \in Named =>
            agent[answer'.session].marks \notin {"child", "elsewhere"}]_vars
  BY NamedIsInspected, NamedMarks
<1> QED BY <1>1, QueryInvariant, PTL DEF Spec, NamedIsOwn

\* What is found finished may be archived; what works or asks may not.
THEOREM FinishedIsArchivable == Spec => FinishedMayBeArchived
<1>1. TypeOK /\ Reads /\ [Next]_vars
      => [Answers =>
            /\ answer'.is = "finished" => MayArchive(agent[answer'.session])
            /\ answer'.is \in {"working", "permission"} => ~ MayArchive(agent[answer'.session])]_vars
  <2>1. {"finished", "working", "permission"} \subseteq Named
    BY DEF Named, Observations
  <2> QED BY <2>1, NamedIsInspected, FinishedPasses
<1> QED BY <1>1, QueryInvariant, PTL DEF Spec, FinishedMayBeArchived

\* What has left the filters is observed only when it is closed.
THEOREM GoneWasClosed == Spec => GoneIsClosed
<1>1. TypeOK /\ Reads /\ [Next]_vars
      => [Answers /\ known # None /\ target \notin broad /\ answer'.is \in Named =>
            StatusOf(agent[target]) = "closed" /\ answer'.is = "closed"]_vars
  BY NamedIsInspected, ClosedStatus DEF UnlistedIsActive
<1> QED BY <1>1, QueryInvariant, PTL DEF Spec, GoneIsClosed

\* A quiet query of a sound session is answered with it.
THEOREM QuietIsAnswered == Spec => QuietQueryIsAnswered
<1>1. ASSUME TypeOK, Reads, [Next]_vars, Answers, calm, NEW a \in Agents,
             agent[a].marks = "own", known \in {None, a}, Candidates = {a},
             ~ (agent[a].status = "initializing" /\ agent[a].permission)
      PROVE  answer'.is \in Named /\ answer'.session = a
  <2>1. ExactCandidates = {a}
    BY <1>1 DEF ExactCandidates
  <2>2. ~ ListExact
    <3> SUFFICES ASSUME ListExact PROVE FALSE
      OBVIOUS
    <3>1. broad = {a}
      BY <1>1 DEF ListExact, Reads, CalmIsListed
    <3> QED BY <1>1, <2>1, <3>1, ListExactAnswers DEF Answers
  <2>3. Inspect
    BY <1>1, <2>2, WhoAnswers
  <2>4. broad = {a} /\ target = a
    BY <1>1, <2>3 DEF Inspect, Reads, CalmIsListed, TargetIsOnly
  <2>5. Inspected(agent[a]) \in Named
    <3>1. agent[a] \in Agent /\ a \in Candidates
      BY <1>1 DEF TypeOK
    <3> QED BY <1>1, <3>1, SoundIsNamed DEF Candidates
  <2>6. answer' = [is |-> Inspected(agent[a]), session |-> a]
    BY <2>3, <2>4, <2>5 DEF Inspect, UnlistedIsActive, Return
  <2> QED BY <2>5, <2>6
<1>2. ASSUME TypeOK, Reads, [Next]_vars, Answers, calm, NEW a \in Agents,
             known = a, agent[a].archived, Candidates = {}, ~ Malformed(agent[a])
      PROVE  answer'.is = "closed" /\ answer'.session = a
  <2>1. known # None /\ ExactCandidates = {}
    BY <1>2, NoneAssumption DEF ExactCandidates
  <2>2. ~ ListExact
    <3> SUFFICES ASSUME ListExact PROVE FALSE
      OBVIOUS
    <3>1. broad = {}
      BY <1>2 DEF ListExact, Reads, CalmIsListed
    <3> QED BY <1>2, <2>1, <3>1, ListExactAnswers DEF Answers
  <2>3. Inspect
    BY <1>2, <2>2, WhoAnswers
  <2>4. target = a
    BY <1>2, <2>1, <2>3 DEF Inspect, Reads, CalmIsListed, TargetIsOnly
  <2>5. Inspected(agent[a]) = "closed"
    <3>1. agent[a] \in Agent /\ agent[a].marks \notin {"child", "elsewhere"}
      BY <1>2, <2>1, <2>3 DEF Inspect, Reads, KnownIsOwn, OwnMarks, TypeOK
    <3> QED BY <1>2, <3>1, ArchivedIsClosed
  <2>6. "closed" \in Named
    BY DEF Named, Observations
  <2>7. answer' = [is |-> "closed", session |-> a]
    BY <2>3, <2>4, <2>5, <2>6 DEF Inspect, UnlistedIsActive, Return
  <2> QED BY <2>7
<1>3. TypeOK /\ Reads /\ [Next]_vars
      => [Answers /\ calm =>
            \A a \in Agents :
              LET x == agent[a] IN
              /\ x.marks = "own" /\ known \in {None, a} /\ Candidates = {a}
                   /\ ~ (x.status = "initializing" /\ x.permission)
                 => answer'.is \in Named /\ answer'.session = a
              /\ known = a /\ x.archived /\ Candidates = {} /\ ~ Malformed(x)
                 => answer'.is = "closed" /\ answer'.session = a]_vars
  BY <1>1, <1>2
<1> QED BY <1>3, QueryInvariant, PTL DEF Spec, QuietQueryIsAnswered
=============================================================================
