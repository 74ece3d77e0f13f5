----------------------------- MODULE Assignment -----------------------------
(***************************************************************************)
(* What `prepare-commits` promises about the agent sessions of one change, *)
(* without workspaces, reads, calls and their failures: a run accompanies  *)
(* one session, a new session begins only while no other is active, and a  *)
(* run that reports the end of a session reports it of a closed one.       *)
(*                                                                         *)
(* The exception the project accepts (ADR 0003) is explicit: once a        *)
(* creation has escaped - its command ended without a proven answer - two  *)
(* sessions may be active.                                                 *)
(***************************************************************************)
CONSTANTS Processes, Sessions, None

VARIABLES
  active,     \* own sessions that are not archived
  closed,     \* own sessions archived for good
  escaped,    \* some creation was left to the daemon
  bound,      \* bound[p]: the session run p accompanies, or None
  report      \* report[p]: what run p has told the user

promise == <<active, closed, escaped, bound, report>>

Results == {"noWork", "completed", "closedWithChanges", "obstacle", "interrupted"}

Nothing == [kind |-> "none", session |-> None]

Init ==
  /\ active = {}
  /\ closed = {}
  /\ escaped = FALSE
  /\ bound = [p \in Processes |-> None]
  /\ report = [p \in Processes |-> Nothing]

\* A session of the change begins.
Begin(s) ==
  /\ s \notin active \cup closed
  /\ active = {} \/ escaped
  /\ active' = active \cup {s}
  /\ UNCHANGED <<closed, escaped, bound, report>>

\* The run or the user closes a session.
Close(s) ==
  /\ s \in active
  /\ active' = active \ {s}
  /\ closed' = closed \cup {s}
  /\ UNCHANGED <<escaped, bound, report>>

Start(p) ==
  /\ bound[p] = None
  /\ report' = [report EXCEPT ![p] = Nothing]
  /\ UNCHANGED <<active, closed, escaped, bound>>

\* Run p takes responsibility for s; no other run has a session then.
Accompany(p, s) ==
  /\ \A q \in Processes : bound[q] = None
  /\ s \in active \cup closed
  /\ bound' = [bound EXCEPT ![p] = s]
  /\ UNCHANGED <<active, closed, escaped, report>>

\* The end of a run, told once.  Only the two results that speak of the end of
\* a session name one: a closed one, and no other than the one accompanied.
Report(p, kind, s) ==
  /\ report[p] = Nothing
  /\ report' = [report EXCEPT ![p] = [kind |-> kind, session |-> s]]
  /\ kind \in {"completed", "closedWithChanges"} => s \in closed /\ bound[p] \in {None, s}
  /\ kind = "noWork" => bound[p] = None
  /\ bound' = [bound EXCEPT ![p] = None]
  /\ escaped' \in {escaped, TRUE}
  /\ UNCHANGED <<active, closed>>

Next ==
  \/ \E s \in Sessions : Begin(s) \/ Close(s)
  \/ \E p \in Processes : Start(p) \/ \E s \in Sessions : Accompany(p, s)
  \/ \E p \in Processes :
       /\ report'[p] # report[p]     \* implied by Report; cheap to check first
       /\ \E s \in Sessions \cup {None}, kind \in Results : Report(p, kind, s)

Spec == Init /\ [][Next]_promise
-----------------------------------------------------------------------------
(* What it amounts to.                                                     *)

\* The end of a session was told of one that is closed, and stays closed.
EndIsOfClosed ==
  \A p \in Processes :
    report[p].kind \in {"completed", "closedWithChanges"} => report[p].session \in closed

\* Two runs never accompany a session at the same time, not even different ones.
OneAccompanies ==
  \A p, q \in Processes : bound[p] # None /\ bound[q] # None => p = q

\* Unless a creation has escaped, one session is active.
OneActive == ~ escaped => \A s, t \in active : s = t

Meaning == EndIsOfClosed /\ OneAccompanies /\ OneActive
=============================================================================
