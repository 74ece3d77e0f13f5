----------------------------- MODULE ChangeLock -----------------------------
(***************************************************************************)
(* What the change lock promises, without directories, descriptors and     *)
(* signals: one invocation at a time accompanies the change, it begins     *)
(* with taking the lock, and the lock becomes free only together with or   *)
(* after the end of the accompaniment, whatever ended it.                  *)
(*                                                                         *)
(* It stands between two modules: CommitPreparation relies on it, and      *)
(* Invocation provides it as long as the change root stays in its place.   *)
(***************************************************************************)
CONSTANTS Processes, None

VARIABLES
  owner,      \* the invocation that holds the lock of the change, or None
  working     \* the invocations that accompany the change

lock == <<owner, working>>

Init ==
  /\ owner = None
  /\ working = {}

\* A free lock is taken and the accompaniment begins.
Take(p) ==
  /\ owner = None
  /\ owner' = p
  /\ working' = {p}

\* The accompaniment is over; its lock may still be held.
Finish(p) ==
  /\ working = {p}
  /\ owner' \in {p, None}
  /\ working' = {}

\* The lock is given back: closed, or dropped by the kernel.
Release(p) ==
  /\ owner = p
  /\ working = {}
  /\ owner' = None
  /\ UNCHANGED working

Next == \E p \in Processes : Take(p) \/ Finish(p) \/ Release(p)

Spec == Init /\ [][Next]_lock
=============================================================================
