---------------------------- MODULE Intervention ----------------------------
(***************************************************************************)
(* How one run of `prepare-commits` tells the user that the session it     *)
(* accompanies needs a human: the episode remembered by the reconciler     *)
(* (deliveredEpisode), the memory of snapshotInterventionDelivery (channel *)
(* of the configuration snapshot, last event, retrying), the ntfy adapter  *)
(* and the pause between two looks at a handed over session.               *)
(*                                                                         *)
(* The run is past the discovery of its session: CommitPreparation models  *)
(* the reads that lead to an observation, here one step stands for them.   *)
(* The key of an episode is the session and the reason; the session being  *)
(* fixed within a run, the reason stands for the key.                      *)
(***************************************************************************)

Reasons == {"finished", "permission", "error"}

VARIABLES
  session,     \* "working", a reason to wait for a human, or "closed"
  dirty,       \* the Git working tree has uncommitted changes
  pc,          \* what the run does next
  reason,      \* the need being handled
  handed,      \* handedToHuman
  delivered,   \* deliveredEpisode of the reconciler, or "none"
  snapshot,    \* whether the configuration snapshot yields an adapter
  channel,     \* delivery.resolved, delivery.err
  episode,     \* delivery.episode while delivery.hasEvent, or "none"
  retrying,    \* delivery.retrying
  line,        \* how Deliver announced the last need: "required", "retry",
               \* or "none" when the need was not announced at all
  last,        \* history: the need handled before, "none" since it vanished
  told,        \* history: reasons the service confirmed in this run
  confirmed,   \* history: the service confirmed the need `last`
  paused,      \* history: the run has paused since its latest attempt
  resumed      \* history: a turn was observed since the latest attempt

channelState == <<snapshot, channel, episode, retrying>>
history == <<line, last, told, confirmed, paused, resumed>>
vars == <<session, dirty, pc, reason, handed, delivered, snapshot, channel, episode, retrying,
          line, last, told, confirmed, paused, resumed>>

TypeOK ==
  /\ session \in Reasons \cup {"working", "closed"}
  /\ dirty \in BOOLEAN
  /\ pc \in {"observe", "tree", "archive", "deliver", "post", "wait", "pause", "ended"}
  /\ reason \in Reasons \cup {"none"}
  /\ handed \in BOOLEAN
  /\ delivered \in Reasons \cup {"none"}
  /\ snapshot \in {"usable", "unusable"}
  /\ channel \in {"unresolved", "ready", "broken"}
  /\ episode \in Reasons \cup {"none"}
  /\ retrying \in BOOLEAN
  /\ line \in {"required", "retry", "none"}
  /\ last \in Reasons \cup {"none"}
  /\ told \in SUBSET Reasons
  /\ confirmed \in BOOLEAN
  /\ paused \in BOOLEAN
  /\ resumed \in BOOLEAN

\* A new process that has discovered its session, or has just created it.
Init ==
  /\ session \in Reasons \cup {"working"}
  /\ dirty \in BOOLEAN
  /\ pc = "observe"
  /\ reason = "none"
  /\ handed = FALSE
  /\ delivered = "none"
  /\ snapshot \in {"usable", "unusable"}
  /\ channel = "unresolved"
  /\ episode = "none"
  /\ retrying = FALSE
  /\ line = "none"
  /\ last = "none"
  /\ told = {}
  /\ confirmed = FALSE
  /\ paused = TRUE
  /\ resumed = FALSE
-----------------------------------------------------------------------------
(* Observation.                                                            *)

\* The need vanished, as far as the run can see.
NeedVanishes == last' = "none" /\ confirmed' = FALSE /\ UNCHANGED <<line, told, paused>>

\* Mutant: a new turn does not end the episode for the gateway.
TurnUnnoticed == UNCHANGED <<snapshot, channel, episode, retrying>>

\* observeSessionProgress: a working session ends the episode.
observeSessionProgress ==
  /\ episode' = "none"
  /\ retrying' = FALSE
  /\ UNCHANGED <<snapshot, channel>>

\* Mutant: the reconciler remembers the episode across a turn.
EpisodeKept == delivered' = delivered

EpisodeEnds == delivered' = IF handed THEN "none" ELSE delivered

ObserveWorking ==
  /\ pc = "observe"
  /\ session = "working"
  /\ pc' = "wait"
  /\ EpisodeEnds
  /\ observeSessionProgress
  /\ NeedVanishes
  /\ resumed' = TRUE
  /\ UNCHANGED <<session, dirty, reason, handed>>

\* HumanInterventionRequired with reason r.
Need(r) ==
  /\ reason' = r
  /\ handed' = TRUE
  /\ pc' = "deliver"

ObserveObstacle ==
  /\ pc = "observe"
  /\ session \in {"permission", "error"}
  /\ Need(session)
  /\ UNCHANGED <<session, dirty, delivered, channelState, history>>

ObserveFinished ==
  /\ pc = "observe"
  /\ session = "finished"
  /\ pc' = "tree"
  /\ UNCHANGED <<session, dirty, reason, handed, delivered, channelState, history>>

\* A closed session ends the run once Git is read, with or without success.
ObserveClosed ==
  /\ pc = "observe"
  /\ session = "closed"
  /\ pc' = "ended"
  /\ UNCHANGED <<session, dirty, reason, handed, delivered, channelState, history>>

ReadDirtyTree ==
  /\ pc = "tree"
  /\ dirty
  /\ Need("finished")
  /\ UNCHANGED <<session, dirty, delivered, channelState, history>>

\* monitorInterventionSessionAction.
ReadCleanTreeHanded ==
  /\ pc = "tree"
  /\ ~ dirty
  /\ handed
  /\ delivered' = "none"
  /\ pc' = "pause"
  /\ NeedVanishes
  /\ UNCHANGED <<session, dirty, reason, handed, channelState, resumed>>

\* archiveCommitSessionAction.
ReadCleanTree ==
  /\ pc = "tree"
  /\ ~ dirty
  /\ ~ handed
  /\ pc' = "archive"
  /\ UNCHANGED <<session, dirty, reason, handed, delivered, channelState, history>>

Archive ==
  /\ pc = "archive"
  /\ \/ session \in {"finished", "closed"} /\ session' = "closed" /\ pc' = "ended"
     \/ session \notin {"finished", "closed"} /\ pc' = "observe" /\ UNCHANGED session
  /\ UNCHANGED <<dirty, reason, handed, delivered, channelState, history>>
-----------------------------------------------------------------------------
(* Delivery.                                                               *)

\* Mutant: the outcome of the snapshot is taken for that of the channel.
ResolvedUnchecked == IF channel # "unresolved" THEN channel ELSE snapshot

\* snapshotInterventionDelivery.Resolve: the snapshot is asked once.
Resolved ==
  IF channel # "unresolved" THEN channel
  ELSE IF snapshot = "usable" THEN "ready" ELSE "broken"

\* Mutant: every look at a waiting session delivers.
NeverDelivered == FALSE

AlreadyDelivered == delivered = reason

\* deliverIntervention: the episode delivered last is not delivered again.
SkipDelivered ==
  /\ pc = "deliver"
  /\ AlreadyDelivered
  /\ pc' = "pause"
  /\ line' = "none"
  /\ last' = reason
  /\ confirmed' = (confirmed /\ last = reason)
  /\ UNCHANGED <<session, dirty, reason, handed, delivered, channelState, told, paused, resumed>>

\* Deliver up to the adapter: announce locally, resolve the channel.
StartDelivery ==
  /\ pc = "deliver"
  /\ ~ AlreadyDelivered
  /\ line' = IF episode = reason /\ retrying THEN "retry" ELSE "required"
  /\ episode' = reason
  /\ channel' = Resolved
  /\ IF Resolved = "ready"
       THEN pc' = "post" /\ UNCHANGED retrying
       ELSE pc' = "pause" /\ retrying' = TRUE
  /\ last' = reason
  /\ confirmed' = (confirmed /\ last = reason)
  /\ paused' = FALSE
  /\ resumed' = FALSE
  /\ UNCHANGED <<session, dirty, reason, handed, delivered, snapshot, told>>

\* The service answers 2xx within ten seconds.
PostConfirmed ==
  /\ pc = "post"
  /\ retrying' = FALSE
  /\ delivered' = reason
  /\ pc' = "pause"
  /\ told' = told \cup {reason}
  /\ confirmed' = TRUE
  /\ UNCHANGED <<session, dirty, reason, handed, snapshot, channel, episode, line, last, paused, resumed>>

\* Mutant: a failed delivery counts as a delivered episode.
FailureIsRemembered == delivered' = reason

FailureIsForgotten == delivered' = delivered

\* Mutant: a failed delivery is repeated without the pause.
RetryAtOnce == pc' = "observe"

RetryAfterPause == pc' = "pause"

\* No token, no answer, a redirect, an error or an oversized answer: the service
\* may have notified the user and only its answer be lost.
PostFails ==
  /\ pc = "post"
  /\ retrying' = TRUE
  /\ FailureIsForgotten
  /\ RetryAfterPause
  /\ UNCHANGED <<session, dirty, reason, handed, snapshot, channel, episode, history>>
-----------------------------------------------------------------------------
(* Waiting, ending and starting anew.                                      *)

\* `paseo wait` returns, also on its own timeout.
WaitReturns ==
  /\ pc = "wait"
  /\ pc' = "observe"
  /\ UNCHANGED <<session, dirty, reason, handed, delivered, channelState, history>>

\* Thirty seconds have passed.
PauseEnds ==
  /\ pc = "pause"
  /\ pc' = "observe"
  /\ paused' = TRUE
  /\ UNCHANGED <<session, dirty, reason, handed, delivered, channelState, line, last, told,
                 confirmed, resumed>>

\* A read fails, the configuration of the session link is unusable, a signal.
RunEnds ==
  /\ pc # "ended"
  /\ pc' = "ended"
  /\ UNCHANGED <<session, dirty, reason, handed, delivered, channelState, history>>

\* A new process knows nothing of the deliveries of the old one.
Restart ==
  /\ pc = "ended"
  /\ session # "closed"
  /\ pc' = "observe"
  /\ reason' = "none"
  /\ handed' = FALSE
  /\ delivered' = "none"
  /\ snapshot' \in {"usable", "unusable"}
  /\ channel' = "unresolved"
  /\ episode' = "none"
  /\ retrying' = FALSE
  /\ line' = "none"
  /\ last' = "none"
  /\ told' = {}
  /\ confirmed' = FALSE
  /\ paused' = TRUE
  /\ resumed' = FALSE
  /\ UNCHANGED <<session, dirty>>

Command ==
  \/ ObserveWorking \/ ObserveObstacle \/ ObserveFinished \/ ObserveClosed
  \/ ReadDirtyTree \/ ReadCleanTreeHanded \/ ReadCleanTree \/ Archive
  \/ SkipDelivered \/ StartDelivery \/ PostConfirmed \/ PostFails
  \/ WaitReturns \/ PauseEnds

\* The agent, and the user who answers, resumes, closes, edits and commits.
Environment ==
  /\ \/ /\ session # "closed"
        /\ session' \in Reasons \cup {"working", "closed"}
        /\ session' # session
        /\ session # "working" => session' \in {"working", "closed"}
        /\ UNCHANGED dirty
     \/ dirty' = ~ dirty /\ UNCHANGED session
  /\ UNCHANGED <<pc, reason, handed, delivered, channelState, history>>

Next == Command \/ RunEnds \/ Restart \/ Environment

Spec == Init /\ [][Next]_vars

(***************************************************************************)
(* The run always takes its next step; of the service only this is         *)
(* assumed: when asked again and again it confirms some time.              *)
(***************************************************************************)
FairSpec == Spec /\ WF_vars(Command) /\ SF_vars(PostConfirmed)
-----------------------------------------------------------------------------
\* The need of the moment.
CurrentNeed ==
  IF session = "finished" /\ ~ dirty THEN "none"
  ELSE IF session \in Reasons THEN session ELSE "none"

\* deliverIntervention takes its decision.
Handles == pc = "deliver" /\ pc' \in {"post", "pause"}

\* "An unchanged wait must not cause a new notification on every read": after
\* the service has confirmed a need nothing is posted about it until the run
\* has seen it vanish or change.
ConfirmedOnce ==
  [][pc = "deliver" /\ pc' = "post" => ~ (confirmed /\ last = reason)]_vars

\* "Repeated attempts have a bounded rate": between two attempts lies a pause.
AttemptsArePaced ==
  [][Handles /\ line' # "none" => paused]_vars

\* A need that arises after a new turn of the agent is not called a retry.
NewTurnIsNoRetry ==
  [][Handles /\ line' = "retry" => ~ resumed]_vars

\* A need that lasts is confirmed by the service in the end, whatever failed
\* before, unless the configuration snapshot has no usable channel.
LastingNeedIsTold ==
  \A r \in Reasons :
    <>[](CurrentNeed = r /\ pc # "ended" /\ snapshot = "usable") => <>[](r \in told)

\* "The CLI must report the need of a human and explain the observed reason":
\* a need other than the one handled before is announced.
ChangedNeedIsAnnounced ==
  [][Handles /\ last # reason => line' # "none"]_vars

\* What the code does promise in its place: in silence a run passes over a need
\* only if the service has confirmed that very need in this run, if no need has
\* vanished since as far as the run could see, and if it is not the first after
\* a confirmed other one - what came in between was not delivered.
SilenceIsOfToldNeed ==
  [][Handles /\ line' = "none" =>
       reason \in told /\ last # "none" /\ (confirmed => last = reason)]_vars
=============================================================================
