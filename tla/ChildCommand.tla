---------------------------- MODULE ChildCommand ----------------------------
(***************************************************************************)
(* One call of an external command: the runner that starts the child,      *)
(* copies its two streams into capped buffers, kills it when its context   *)
(* is done and judges what came of it - the same code for `openspec`,      *)
(* `git` and `paseo` - and the caller that waits for the judgement.  The   *)
(* wait for a session runs in a goroutine of its own: its caller returns   *)
(* at once when the process is told to stop.                               *)
(*                                                                         *)
(* Output is counted, not spelled out: a pipe keeps the order, so what a   *)
(* buffer holds is a beginning of what was printed.                        *)
(***************************************************************************)
EXTENDS Naturals

CONSTANTS
  Limit,       \* stdoutLimit and stderrLimit
  PipeSize,    \* how much the pipe of a stream holds
  MaxOutput    \* bound: how much is printed on one stream

ASSUME LimitAssumption  == Limit \in Nat \ {0}
ASSUME PipeAssumption   == PipeSize \in Nat \ {0}
ASSUME OutputAssumption == MaxOutput \in Nat

VARIABLES
  front,       \* the caller
  mode,        \* "bounded": Run with its deadline, "wait": RunUntilContextDone
  cancelled,   \* the context of the caller is cancelled
  expired,     \* the deadline of the command has passed
  runner,      \* how far cmd.Run is
  child,       \* the child process
  heir,        \* a process the child has left behind holds its pipes
  written,     \* written[c]: printed on stream c so far
  buffer,      \* buffer[c]: the cappedBuffer of stream c
  cut,         \* WaitDelay has closed the pipes
  reply        \* what the caller got

process == <<child, heir, written>>
pipes   == <<buffer, cut>>
vars == <<front, mode, cancelled, expired, runner, child, heir, written, buffer, cut, reply>>
-----------------------------------------------------------------------------
Streams == {"stdout", "stderr"}

Kinds == {"answer", "refused", "canceled", "timeout", "overflow", "unstarted"}

Replies == [kind: Kinds, text: 0 .. Limit]

NoReply == [kind |-> "none", text |-> 0]

TypeOK ==
  /\ front \in {"idle", "calling", "replied", "gone"}
  /\ mode \in {"bounded", "wait"}
  /\ cancelled \in BOOLEAN
  /\ expired \in BOOLEAN
  /\ runner \in {"off", "called", "starting", "running", "returned", "over"}
  /\ child \in {"none", "running", "done", "failed", "killed"}
  /\ heir \in BOOLEAN
  /\ written \in [Streams -> 0 .. MaxOutput]
  /\ buffer \in [Streams -> [data: 0 .. Limit, total: 0 .. MaxOutput, overflow: BOOLEAN]]
  /\ cut \in BOOLEAN
  /\ reply \in Replies \cup {NoReply}

Init ==
  /\ front = "idle"
  /\ mode \in {"bounded", "wait"}
  /\ cancelled = FALSE
  /\ expired = FALSE
  /\ runner = "off"
  /\ child = "none"
  /\ heir = FALSE
  /\ written = [c \in Streams |-> 0]
  /\ buffer = [c \in Streams |-> [data |-> 0, total |-> 0, overflow |-> FALSE]]
  /\ cut = FALSE
  /\ reply = NoReply
-----------------------------------------------------------------------------
(* The context.                                                            *)

\* commandContext.Err() # nil: derived from the caller's, with a deadline.
ContextDone == cancelled \/ expired

\* A signal; the process goes on until its caller has unwound.
Cancel ==
  /\ ~ cancelled
  /\ front # "gone"
  /\ cancelled' = TRUE
  /\ UNCHANGED <<front, mode, expired, runner, process, pipes, reply>>

\* Only context.WithTimeout has a deadline; it runs from the call on.
Deadline ==
  /\ mode = "bounded"
  /\ runner \in {"called", "starting", "running", "returned"}
  /\ ~ expired
  /\ expired' = TRUE
  /\ UNCHANGED <<front, mode, cancelled, runner, process, pipes, reply>>
-----------------------------------------------------------------------------
(* cmd.Run: start, copy, wait.                                             *)

Call ==
  /\ front = "idle"
  /\ front' = "calling"
  /\ runner' = "called"
  /\ UNCHANGED <<mode, cancelled, expired, process, pipes, reply>>

\* A context that is done already starts nothing.
Launch ==
  /\ runner = "called"
  /\ runner' = IF ContextDone THEN "returned" ELSE "starting"
  /\ UNCHANGED <<front, mode, cancelled, expired, process, pipes, reply>>

\* The process begins, or cannot be started.
Fork ==
  /\ runner = "starting"
  /\ \/ runner' = "running" /\ child' = "running"
     \/ runner' = "returned" /\ UNCHANGED child
  /\ UNCHANGED <<front, mode, cancelled, expired, heir, written, pipes, reply>>

\* Mutant: what does not fit is stored all the same.
StoredWhole(b, n) ==
  [data |-> b.data + n, total |-> b.total + n, overflow |-> b.overflow]

\* cappedBuffer.Write of a chunk of n bytes.
Stored(b, n) ==
  LET remaining == Limit - b.data IN
  [data     |-> b.data + (IF n > remaining THEN remaining ELSE n),
   total    |-> b.total + n,
   overflow |-> b.overflow \/ n > remaining]

\* Mutant: no more is read than the buffer has to know (a LimitReader).
ReadsUpToLimit(c) == ~ buffer[c].overflow

\* Write accepts the whole chunk, stored or not, so that copying goes on.
KeepsReading(c) == TRUE

\* The copying goroutine of stream c reads a chunk from its pipe.
Copy(c) ==
  /\ runner = "running"
  /\ ~ cut
  /\ KeepsReading(c)
  /\ \E n \in 1 .. (written[c] - buffer[c].total) :
       buffer' = [buffer EXCEPT ![c] = Stored(@, n)]
  /\ UNCHANGED <<front, mode, cancelled, expired, runner, process, cut, reply>>

\* exec.CommandContext kills the child, and nobody but the child.
Kill ==
  /\ runner = "running"
  /\ ContextDone
  /\ child = "running"
  /\ child' = "killed"
  /\ UNCHANGED <<front, mode, cancelled, expired, runner, heir, written, pipes, reply>>

\* Mutant: no WaitDelay.
NoWaitDelay == FALSE

\* WaitDelay after the end of the child: the pipes are closed as they are.
DelayOver ==
  /\ runner = "running"
  /\ child # "running"
  /\ ~ cut
  /\ cut' = TRUE
  /\ UNCHANGED <<front, mode, cancelled, expired, runner, process, buffer, reply>>

\* Every pipe has reached its end: no writer is left, nothing is unread.
Drained == ~ heir /\ \A c \in Streams : buffer[c].total = written[c]

RunReturns ==
  /\ runner = "running"
  /\ child # "running"
  /\ cut \/ Drained
  /\ runner' = "returned"
  /\ UNCHANGED <<front, mode, cancelled, expired, process, pipes, reply>>
-----------------------------------------------------------------------------
(* The judgement.                                                          *)

\* The error of cmd.Run; ErrWaitDelay replaces a success only.
RunError ==
  CASE child = "none"            -> "start"
    [] child = "done" /\ ~ cut   -> "none"
    [] child = "done" /\ cut     -> "delay"
    [] OTHER                     -> "exit"

\* Mutant: a full buffer is an answer.
VerdictWithoutLimit ==
  CASE cancelled          -> "canceled"
    [] expired            -> "timeout"
    [] RunError = "none"  -> "answer"
    [] RunError = "exit"  -> "refused"
    [] OTHER              -> "unstarted"

\* The contexts, then the limits, then the error: a killed child is no
\* refusal, and what was cut off is no answer.
Verdict ==
  CASE cancelled                                          -> "canceled"
    [] ~ cancelled /\ expired                             -> "timeout"
    [] ~ ContextDone /\ \E c \in Streams : buffer[c].overflow -> "overflow"
    [] OTHER -> CASE RunError = "none" -> "answer"
                  [] RunError = "exit" -> "refused"
                  [] OTHER             -> "unstarted"

\* The result goes to the caller, if it still listens: the channel of the
\* wait has room for it.
Judge ==
  /\ runner = "returned"
  /\ runner' = "over"
  /\ IF front = "calling"
       THEN front' = "replied" /\ reply' = [kind |-> Verdict, text |-> buffer["stdout"].data]
       ELSE UNCHANGED <<front, reply>>
  /\ UNCHANGED <<mode, cancelled, expired, process, pipes>>

\* Mutant: every call is abandoned like a wait.
MayGiveUpAlways == TRUE

\* Only the wait for a session has a caller that does not wait for cmd.Run.
MayGiveUp == mode = "wait"

\* ctx.Done() of WaitOwnSession.
GiveUp ==
  /\ front = "calling"
  /\ cancelled
  /\ MayGiveUp
  /\ front' = "replied"
  /\ reply' = [kind |-> "canceled", text |-> 0]
  /\ UNCHANGED <<mode, cancelled, expired, runner, process, pipes>>

\* main returns: goroutines end with it, child processes do not.
ProcessExits ==
  /\ front = "replied"
  /\ front' = "gone"
  /\ runner' = "off"
  /\ UNCHANGED <<mode, cancelled, expired, process, pipes, reply>>
-----------------------------------------------------------------------------
(* The child and what it leaves behind.                                    *)

\* A writer blocks as long as nothing is read from the pipe.
PipeIsFull(c) == written[c] - buffer[c].total >= PipeSize

WriteOut(c) ==
  /\ child = "running" \/ heir
  /\ runner = "running"
  /\ ~ cut
  /\ ~ PipeIsFull(c)
  /\ written[c] < MaxOutput
  /\ written' = [written EXCEPT ![c] = @ + 1]
  /\ UNCHANGED <<front, mode, cancelled, expired, runner, child, heir, pipes, reply>>

ChildForks ==
  /\ child = "running"
  /\ ~ heir
  /\ heir' = TRUE
  /\ UNCHANGED <<front, mode, cancelled, expired, runner, child, written, pipes, reply>>

HeirEnds ==
  /\ heir
  /\ heir' = FALSE
  /\ UNCHANGED <<front, mode, cancelled, expired, runner, child, written, pipes, reply>>

ChildExits ==
  /\ child = "running"
  /\ child' \in {"done", "failed"}
  /\ UNCHANGED <<front, mode, cancelled, expired, runner, heir, written, pipes, reply>>
-----------------------------------------------------------------------------
RunnerStep ==
  \/ Launch \/ Fork \/ Kill \/ DelayOver \/ RunReturns \/ Judge \/ GiveUp
  \/ \E c \in Streams : Copy(c)

Child == (\E c \in Streams : WriteOut(c)) \/ ChildForks \/ HeirEnds \/ ChildExits

Next == Call \/ RunnerStep \/ ProcessExits \/ Cancel \/ Deadline \/ Child

Spec == Init /\ [][Next]_vars

(***************************************************************************)
(* The goroutines of the process are scheduled and its timers fire.        *)
(* Nothing is assumed of the child: it may hang, and what it left behind   *)
(* may hold the pipes for ever.                                            *)
(***************************************************************************)
Fairness ==
  /\ WF_vars(Launch) /\ WF_vars(Fork) /\ WF_vars(RunReturns) /\ WF_vars(Judge)
  /\ WF_vars(Kill) /\ WF_vars(DelayOver) /\ WF_vars(GiveUp) /\ WF_vars(Deadline)
  /\ \A c \in Streams : WF_vars(Copy(c))

FairSpec == Spec /\ Fairness
-----------------------------------------------------------------------------
Promise == INSTANCE CommandAnswer WITH work <- child, output <- written["stdout"]

\* Whatever the order of output, exit, deadline, signal and WaitDelay: an
\* answer is the whole output of a child that succeeded and left no writer, a
\* refusal is the exit code of a child that was not killed.  Rests on it: an
\* empty answer of `git status` is a clean tree, an answer of `run` is a new
\* session.
ImplementsCommand == Promise!Spec

\* No command that changes Paseo goes on under a process that has ended after a
\* signal; `paseo wait`, which changes nothing, may.
OnlyWaitOutlives == front = "gone" /\ child = "running" => mode = "wait" /\ cancelled

\* A hanging child, a child that hands its pipes on, or both, hold up neither a
\* bounded call nor the end after a signal.
CallReturns == (front = "calling" /\ (mode = "bounded" \/ cancelled)) ~> (front # "calling")

\* The child of a runner that waits for it cannot print on: its pipe is full.
Blocked(c) == runner = "running" /\ child = "running" /\ PipeIsFull(c)

\* A child that prints beyond the limit is not held up by the full buffer, not
\* even `paseo wait`, which has no deadline to end it.
ChildIsNotBlocked == \A c \in Streams : Blocked(c) ~> ~ Blocked(c)
=============================================================================
