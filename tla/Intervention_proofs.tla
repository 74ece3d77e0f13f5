------------------------- MODULE Intervention_proofs -------------------------
(***************************************************************************)
(* Proofs about Intervention: how often and how a need is told.  The run   *)
(* keeps two memories of the need it handles, `delivered` and `episode`;   *)
(* the invariants relate both to what happened: a confirmed need is the    *)
(* one the reconciler remembers, an attempt is under way or the run has    *)
(* paused since the last one, and nothing is being retried after a turn.   *)
(***************************************************************************)
EXTENDS Intervention, TLAPS

\* What the service confirmed of the need handled last, the reconciler knows.
ConfirmedIsDelivered ==
  /\ pc = "post" => last = reason
  /\ confirmed => delivered = last

\* Only an attempt that is under way, or just over, has not been paused after.
PausedSinceAttempt == pc \notin {"post", "pause", "ended"} => paused

\* A turn that was observed has ended what was being retried.
TurnEndsRetry ==
  /\ pc = "post" => ~ resumed
  /\ resumed => ~ retrying

Memories == ConfirmedIsDelivered /\ PausedSinceAttempt /\ TurnEndsRetry

\* A need that is handled is one.
NeedIsKnown == pc \in {"deliver", "post"} => reason \in Reasons

\* Types, and the need that is handled.
LEMMA EpisodeInvariant == Spec => [](TypeOK /\ NeedIsKnown)
<1>1. Init => TypeOK /\ NeedIsKnown
  BY DEF Init, TypeOK, NeedIsKnown
<1>2. TypeOK /\ NeedIsKnown /\ [Next]_vars => TypeOK'
  <2> SUFFICES ASSUME TypeOK, NeedIsKnown, [Next]_vars PROVE TypeOK'
    OBVIOUS
  <2> USE DEF TypeOK, channelState, history, NeedVanishes
  <2>1. CASE ObserveWorking
    BY <2>1 DEF ObserveWorking, EpisodeEnds, observeSessionProgress
  <2>2. CASE ObserveObstacle
    BY <2>2 DEF ObserveObstacle, Need, Reasons
  <2>15. CASE ObserveFinished \/ ObserveClosed
    BY <2>15 DEF ObserveFinished, ObserveClosed
  <2>3. CASE ReadDirtyTree
    BY <2>3 DEF ReadDirtyTree, Need, Reasons
  <2>13. CASE ReadCleanTreeHanded
    BY <2>13 DEF ReadCleanTreeHanded
  <2>14. CASE ReadCleanTree
    BY <2>14 DEF ReadCleanTree
  <2>4. CASE Archive
    BY <2>4 DEF Archive
  <2>5. CASE SkipDelivered
    BY <2>5 DEF SkipDelivered
  <2>6. CASE StartDelivery
    BY <2>6 DEF StartDelivery, Resolved
  <2>7. CASE PostConfirmed
    <3>1. reason \in Reasons /\ told' \in SUBSET Reasons
      BY <2>7 DEF PostConfirmed, NeedIsKnown
    <3> QED BY <2>7, <3>1 DEF PostConfirmed
  <2>8. CASE PostFails
    BY <2>8 DEF PostFails, FailureIsForgotten, RetryAfterPause
  <2>9. CASE WaitReturns \/ PauseEnds \/ RunEnds
    BY <2>9 DEF WaitReturns, PauseEnds, RunEnds
  <2>10. CASE Restart
    <3>1. told' \in SUBSET Reasons /\ session' \in Reasons \cup {"working", "closed"}
      BY <2>10 DEF Restart
    <3>2. /\ dirty' \in BOOLEAN /\ handed' \in BOOLEAN /\ retrying' \in BOOLEAN
          /\ confirmed' \in BOOLEAN /\ paused' \in BOOLEAN /\ resumed' \in BOOLEAN
      BY <2>10 DEF Restart
    <3>3. /\ pc' = "observe" /\ reason' = "none" /\ delivered' = "none"
          /\ snapshot' \in {"usable", "unusable"} /\ channel' = "unresolved"
          /\ episode' = "none" /\ line' = "none" /\ last' = "none"
      BY <2>10 DEF Restart
    <3> QED BY <3>1, <3>2, <3>3
  <2>11. CASE Environment
    <3>1. session' \in Reasons \cup {"working", "closed"} /\ dirty' \in BOOLEAN
      BY <2>11 DEF Environment
    <3>2. /\ pc' = pc /\ reason' = reason /\ told' = told /\ handed' = handed
          /\ retrying' = retrying /\ confirmed' = confirmed /\ paused' = paused
          /\ resumed' = resumed
      BY <2>11 DEF Environment
    <3>3. /\ delivered' = delivered /\ snapshot' = snapshot /\ channel' = channel
          /\ episode' = episode /\ line' = line /\ last' = last
      BY <2>11 DEF Environment, channelState, history
    <3> QED BY <3>1, <3>2, <3>3
  <2>12. CASE UNCHANGED vars
    BY <2>12 DEF vars
  <2> QED
    BY <2>1, <2>2, <2>3, <2>4, <2>5, <2>6, <2>7, <2>8, <2>9, <2>10, <2>11, <2>12,
       <2>13, <2>14, <2>15
       DEF Next, Command
<1>3. TypeOK /\ NeedIsKnown /\ [Next]_vars => NeedIsKnown'
  BY DEF TypeOK, NeedIsKnown, Next, Command, ObserveWorking, ObserveObstacle, ObserveFinished,
         ObserveClosed, ReadDirtyTree, ReadCleanTreeHanded, ReadCleanTree, Archive, SkipDelivered,
         StartDelivery, PostConfirmed, PostFails, RetryAfterPause, WaitReturns, PauseEnds, RunEnds,
         Restart, Environment, Need, Reasons, vars
<1> QED
  BY <1>1, <1>2, <1>3, PTL DEF Spec

\* Every variable keeps its type.
THEOREM EpisodeTypeCorrect == Spec => []TypeOK
BY EpisodeInvariant, PTL

-----------------------------------------------------------------------------
(* The memories of the run.                                                *)

\* Every step keeps what they tell.
LEMMA MemoriesHold == Spec => []Memories
<1>1. Init => Memories
  BY DEF Init, Memories, ConfirmedIsDelivered, PausedSinceAttempt, TurnEndsRetry
<1>2. TypeOK /\ Memories /\ [Next]_vars => Memories'
  <2> SUFFICES ASSUME TypeOK, Memories, [Next]_vars PROVE Memories'
    OBVIOUS
  <2> USE DEF Memories, channelState, history
  <2>1. ConfirmedIsDelivered'
    <3>1. CASE StartDelivery
      BY <3>1 DEF StartDelivery, AlreadyDelivered, ConfirmedIsDelivered
    <3>2. CASE PostConfirmed
      BY <3>2 DEF PostConfirmed, ConfirmedIsDelivered
    <3>3. CASE SkipDelivered
      BY <3>3 DEF SkipDelivered, AlreadyDelivered, ConfirmedIsDelivered
    <3>4. CASE ObserveWorking \/ ReadCleanTreeHanded
      BY <3>4 DEF ObserveWorking, ReadCleanTreeHanded, NeedVanishes, ConfirmedIsDelivered
    <3>5. CASE Restart
      BY <3>5 DEF Restart, ConfirmedIsDelivered
    <3>6. CASE delivered' = delivered /\ last' = last /\ confirmed' = confirmed
               /\ (pc' = "post" => pc = "post" /\ reason' = reason)
      BY <3>6 DEF ConfirmedIsDelivered
    <3>7. CASE ObserveObstacle \/ ObserveFinished \/ ObserveClosed \/ ReadDirtyTree
               \/ ReadCleanTree \/ Archive \/ PostFails \/ WaitReturns \/ PauseEnds
               \/ RunEnds \/ Environment
      BY <3>6, <3>7
         DEF ObserveObstacle, ObserveFinished, ObserveClosed, ReadDirtyTree, ReadCleanTree,
             Archive, PostFails, FailureIsForgotten, RetryAfterPause, WaitReturns, PauseEnds,
             RunEnds, Environment, Need
    <3> QED
      BY <3>1, <3>2, <3>3, <3>4, <3>5, <3>6, <3>7 DEF Next, Command, vars
  <2>2. PausedSinceAttempt'
    BY DEF PausedSinceAttempt, Next, Command, ObserveWorking, ObserveObstacle, ObserveFinished,
           ObserveClosed, ReadDirtyTree, ReadCleanTreeHanded, ReadCleanTree, Archive,
           SkipDelivered, StartDelivery, PostConfirmed, PostFails, RetryAfterPause, WaitReturns,
           PauseEnds, RunEnds, Restart, Environment, Need, NeedVanishes, vars
  <2>3. TurnEndsRetry'
    BY DEF TurnEndsRetry, Next, Command, ObserveWorking, observeSessionProgress, ObserveObstacle,
           ObserveFinished, ObserveClosed, ReadDirtyTree, ReadCleanTreeHanded, ReadCleanTree,
           Archive, SkipDelivered, StartDelivery, PostConfirmed, PostFails, RetryAfterPause,
           WaitReturns, PauseEnds, RunEnds, Restart, Environment, Need, NeedVanishes, vars
  <2> QED BY <2>1, <2>2, <2>3
<1> QED
  BY <1>1, <1>2, EpisodeInvariant, PTL DEF Spec

\* Only the two ways to handle a need leave `deliver` for the service or the
\* pause.
LEMMA HandledBy ==
  ASSUME Next, pc = "deliver", pc' \in {"post", "pause"}
  PROVE  SkipDelivered \/ StartDelivery
BY DEF Next, Command, ObserveWorking, ObserveObstacle, ObserveFinished, ObserveClosed,
       ReadDirtyTree, ReadCleanTreeHanded, ReadCleanTree, Archive, PostConfirmed, PostFails,
       WaitReturns, PauseEnds, RunEnds, Restart, Environment

\* A need the service has confirmed is not posted again before the run has seen
\* it vanish or change.
THEOREM ConfirmedIsNotRepeated == Spec => ConfirmedOnce
<1>1. Memories /\ [Next]_vars
      => [pc = "deliver" /\ pc' = "post" => ~ (confirmed /\ last = reason)]_vars
  <2> SUFFICES ASSUME Memories, Next, pc = "deliver", pc' = "post"
               PROVE  ~ (confirmed /\ last = reason)
    OBVIOUS
  <2>1. ~ AlreadyDelivered
    BY HandledBy DEF SkipDelivered, StartDelivery
  <2> QED BY <2>1 DEF Memories, ConfirmedIsDelivered, AlreadyDelivered
<1> QED
  BY <1>1, MemoriesHold, PTL DEF Spec, ConfirmedOnce

\* Between two attempts the run has paused.
THEOREM AttemptsPause == Spec => AttemptsArePaced
<1>1. Memories /\ [Next]_vars => [Handles /\ line' # "none" => paused]_vars
  BY DEF Memories, PausedSinceAttempt, Handles
<1> QED
  BY <1>1, MemoriesHold, PTL DEF Spec, AttemptsArePaced

\* What is announced as a retry was not interrupted by a turn.
THEOREM RetryIsWithinTurn == Spec => NewTurnIsNoRetry
<1>1. Memories /\ [Next]_vars => [Handles /\ line' = "retry" => ~ resumed]_vars
  <2> SUFFICES ASSUME Memories, Next, Handles, line' = "retry"
               PROVE  ~ resumed
    OBVIOUS
  <2>1. StartDelivery
    BY HandledBy DEF Handles, SkipDelivered
  <2> QED BY <2>1 DEF StartDelivery, Memories, TurnEndsRetry
<1> QED
  BY <1>1, MemoriesHold, PTL DEF Spec, NewTurnIsNoRetry


-----------------------------------------------------------------------------
(* Silence.                                                                *)

\* What the reconciler remembers was confirmed in this run, which has handed
\* the session over, and no need has vanished since.
DeliveredWasTold ==
  /\ delivered \in told \cup {"none"}
  /\ delivered # "none" => handed /\ last # "none"
  /\ pc \in {"deliver", "post"} => handed

\* Every step keeps it.
LEMMA DeliveredStep ==
  ASSUME TypeOK, NeedIsKnown, Memories, DeliveredWasTold, [Next]_vars
  PROVE  DeliveredWasTold'
<1> USE DEF DeliveredWasTold, channelState, history
<1>1. CASE ObserveWorking
  BY <1>1 DEF ObserveWorking, EpisodeEnds, NeedVanishes, TypeOK
<1>2. CASE ObserveObstacle \/ ReadDirtyTree
  BY <1>2 DEF ObserveObstacle, ReadDirtyTree, Need
<1>3. CASE ReadCleanTreeHanded
  BY <1>3 DEF ReadCleanTreeHanded, NeedVanishes
<1>4. CASE SkipDelivered \/ StartDelivery
  <2>1. last' # "none" /\ delivered' = delivered /\ told' = told /\ handed' = handed
    BY <1>4 DEF SkipDelivered, StartDelivery, NeedIsKnown, Reasons
  <2>2. pc = "deliver"
    BY <1>4 DEF SkipDelivered, StartDelivery
  <2> QED BY <2>1, <2>2
<1>5. CASE PostConfirmed
  <2>1. pc = "post" /\ delivered' = reason /\ reason \in told' /\ handed' = handed /\ last' = last
        /\ pc' = "pause"
    BY <1>5 DEF PostConfirmed
  <2>2. last # "none"
    BY <2>1 DEF NeedIsKnown, Reasons, Memories, ConfirmedIsDelivered
  <2> QED BY <2>1, <2>2
<1>6. CASE Restart
  BY <1>6 DEF Restart
<1>7. CASE ObserveFinished \/ ObserveClosed \/ ReadCleanTree \/ Archive \/ PostFails
           \/ WaitReturns \/ PauseEnds \/ RunEnds \/ Environment
  BY <1>7 DEF ObserveFinished, ObserveClosed, ReadCleanTree, Archive, PostFails,
     FailureIsForgotten, RetryAfterPause, WaitReturns, PauseEnds, RunEnds, Environment
<1>8. CASE UNCHANGED vars
  BY <1>8 DEF vars
<1> QED
  BY <1>1, <1>2, <1>3, <1>4, <1>5, <1>6, <1>7, <1>8 DEF Next, Command

\* A need is passed over in silence only if it was confirmed in this run, none
\* has vanished since, and no other was confirmed in between.
THEOREM SilenceIsTold == Spec => SilenceIsOfToldNeed
<1>1. Init => DeliveredWasTold
  BY DEF Init, DeliveredWasTold
<1>2. TypeOK /\ NeedIsKnown /\ Memories /\ DeliveredWasTold /\ [Next]_vars => DeliveredWasTold'
  BY DeliveredStep
<1>3. NeedIsKnown /\ Memories /\ DeliveredWasTold /\ [Next]_vars
      => [Handles /\ line' = "none" =>
            reason \in told /\ last # "none" /\ (confirmed => last = reason)]_vars
  <2> SUFFICES ASSUME NeedIsKnown, Memories, DeliveredWasTold, Next, Handles, line' = "none"
               PROVE  reason \in told /\ last # "none" /\ (confirmed => last = reason)
    OBVIOUS
  <2>1. delivered = reason
    BY HandledBy DEF Handles, StartDelivery, SkipDelivered, AlreadyDelivered
  <2>2. reason # "none"
    BY DEF Handles, NeedIsKnown, Reasons
  <2> QED BY <2>1, <2>2 DEF DeliveredWasTold, Memories, ConfirmedIsDelivered
<1> QED
  BY <1>1, <1>2, <1>3, EpisodeInvariant, MemoriesHold, PTL DEF Spec, SilenceIsOfToldNeed
=============================================================================
