------------------------ MODULE ChildCommand_proofs ------------------------
(***************************************************************************)
(* Theorems about one call of an external command, for any limit of the    *)
(* buffers and any amount of output.  The invariant says how far the       *)
(* runner, the child and the caller may be apart.                          *)
(***************************************************************************)
EXTENDS ChildCommand, TLAPS

\* A buffer never holds more than was read, nor less unless it says so.
BuffersTell ==
  \A c \in Streams :
    /\ buffer[c].total <= written[c]
    /\ ~ buffer[c].overflow => buffer[c].data = buffer[c].total

\* The child exists only once it was started, and has ended when Run has
\* returned - with its pipes drained, unless they were cut.
RunnerAndChild ==
  /\ runner \in {"called", "starting"} => child = "none"
  /\ runner \in {"returned", "over"} => child # "running"
  /\ child = "none" => ~ heir
  /\ child = "killed" => ContextDone
  /\ runner = "returned" /\ child # "none" /\ ~ cut => Drained

\* A caller leaves before the judgement only when it gives up a wait.
CallerAndRunner ==
  /\ front = "idle" => runner = "off" /\ child = "none"
  /\ front \in {"idle", "calling"} => reply = NoReply
  /\ front = "calling" => runner # "off"
  /\ front = "replied" /\ runner # "over" => mode = "wait" /\ cancelled
  /\ front = "gone" => runner = "off"
  /\ reply.kind \in {"answer", "refused"} => runner \in {"off", "over"}
  /\ front = "gone" /\ child = "running" => mode = "wait" /\ cancelled

Inv == TypeOK /\ BuffersTell /\ RunnerAndChild /\ CallerAndRunner

\* What a buffer keeps of a chunk fits into it and is counted whole:
\* cappedBuffer.Write.
LEMMA StoredFits ==
  ASSUME NEW b \in [data: 0 .. Limit, total: 0 .. MaxOutput, overflow: BOOLEAN],
         NEW n \in Nat, b.total + n <= MaxOutput
  PROVE  /\ Stored(b, n) \in [data: 0 .. Limit, total: 0 .. MaxOutput, overflow: BOOLEAN]
         /\ Stored(b, n).total = b.total + n
         /\ (~ b.overflow => b.data = b.total) =>
              (~ Stored(b, n).overflow => Stored(b, n).data = Stored(b, n).total)
<1> DEFINE room == Limit - b.data
           kept == IF n > room THEN room ELSE n
<1>1. Stored(b, n) = [data |-> b.data + kept, total |-> b.total + n,
                      overflow |-> b.overflow \/ n > room]
  BY DEF Stored
<1>2. Limit \in Nat /\ MaxOutput \in Nat
  BY LimitAssumption, OutputAssumption
<1>3. b.data \in 0 .. Limit /\ b.total \in 0 .. MaxOutput /\ b.overflow \in BOOLEAN
  OBVIOUS
<1>4. b.data + kept \in 0 .. Limit
  BY <1>2, <1>3
<1>5. b.total + n \in 0 .. MaxOutput
  BY <1>2, <1>3
<1>6. ~ (n > room) => kept = n
  BY <1>2, <1>3
<1>7. Stored(b, n) \in [data: 0 .. Limit, total: 0 .. MaxOutput, overflow: BOOLEAN]
  <2>1. (b.overflow \/ n > room) \in BOOLEAN
    OBVIOUS
  <2> HIDE DEF room, kept
  <2> QED BY <1>1, <1>4, <1>5, <2>1
<1>8. ~ Stored(b, n).overflow => ~ b.overflow /\ ~ (n > room)
  <2> DEFINE full == n > room
  <2>1. Stored(b, n).overflow = (b.overflow \/ full)
    <3> HIDE DEF full, kept
    <3> QED BY <1>1 DEF full
  <2> HIDE DEF full
  <2>2. ~ Stored(b, n).overflow => ~ b.overflow /\ ~ full
    BY <2>1
  <2> QED BY <2>2 DEF full
<1>9. Stored(b, n).total = b.total + n /\ Stored(b, n).data = b.data + kept
  <2> HIDE DEF room, kept
  <2> QED BY <1>1
<1> HIDE DEF room, kept
<1> QED BY <1>6, <1>7, <1>8, <1>9

-----------------------------------------------------------------------------
(* Type correctness.                                                       *)

LEMMA CopyType ==
  ASSUME TypeOK, BuffersTell, NEW c \in Streams, Copy(c)
  PROVE  /\ buffer' \in [Streams -> [data: 0 .. Limit, total: 0 .. MaxOutput, overflow: BOOLEAN]]
         /\ BuffersTell'
         /\ \A d \in Streams : buffer[d].total = written[d] => buffer'[d].total = written[d]
<1>1. PICK n \in 1 .. (written[c] - buffer[c].total) :
        buffer' = [buffer EXCEPT ![c] = Stored(@, n)]
  BY DEF Copy
<1>2. written[c] \in 0 .. MaxOutput /\ MaxOutput \in Nat
  BY OutputAssumption DEF TypeOK
<1>3. buffer[c] \in [data: 0 .. Limit, total: 0 .. MaxOutput, overflow: BOOLEAN]
  BY DEF TypeOK
<1>4. buffer[c].total \in 0 .. MaxOutput
  BY <1>3
<1>5. n \in Nat /\ buffer[c].total + n <= written[c] /\ buffer[c].total + n <= MaxOutput
  BY <1>2, <1>4
<1>6. /\ Stored(buffer[c], n) \in [data: 0 .. Limit, total: 0 .. MaxOutput, overflow: BOOLEAN]
      /\ Stored(buffer[c], n).total = buffer[c].total + n
      /\ ~ Stored(buffer[c], n).overflow => Stored(buffer[c], n).data = Stored(buffer[c], n).total
  BY <1>3, <1>5, StoredFits DEF BuffersTell
<1>7. buffer' \in [Streams -> [data: 0 .. Limit, total: 0 .. MaxOutput, overflow: BOOLEAN]]
  BY <1>1, <1>6 DEF TypeOK
<1>8. buffer'[c] = Stored(buffer[c], n)
  BY <1>1 DEF TypeOK
<1>9. \A d \in Streams \ {c} : buffer'[d] = buffer[d]
  BY <1>1 DEF TypeOK
<1>10. written' = written
  BY DEF Copy, process
<1>11. BuffersTell'
  <2> SUFFICES ASSUME NEW d \in Streams
               PROVE  /\ buffer'[d].total <= written[d]
                      /\ ~ buffer'[d].overflow => buffer'[d].data = buffer'[d].total
    BY <1>10 DEF BuffersTell
  <2>1. CASE d = c
    BY <2>1, <1>5, <1>6, <1>8
  <2>2. CASE d # c
    BY <2>2, <1>9 DEF BuffersTell
  <2> QED BY <2>1, <2>2
<1>12. ASSUME NEW d \in Streams, buffer[d].total = written[d]
       PROVE  buffer'[d].total = written[d]
  <2>1. d # c
    BY <1>1, <1>2, <1>4, <1>12
  <2> QED BY <2>1, <1>9, <1>12
<1> QED BY <1>7, <1>11, <1>12

LEMMA JudgementType == Verdict \in Kinds
  BY DEF Verdict, RunError, Kinds

LEMMA InitType == Init => TypeOK
<1> SUFFICES ASSUME Init PROVE TypeOK
  OBVIOUS
<1>1. 0 \in 0 .. Limit /\ 0 \in 0 .. MaxOutput
  BY LimitAssumption, OutputAssumption
<1>2. written \in [Streams -> 0 .. MaxOutput]
  BY <1>1 DEF Init
<1>3. buffer \in [Streams -> [data: 0 .. Limit, total: 0 .. MaxOutput, overflow: BOOLEAN]]
  BY <1>1 DEF Init
<1> QED BY <1>2, <1>3 DEF Init, TypeOK

LEMMA NextType ==
  ASSUME TypeOK, BuffersTell, [Next]_vars
  PROVE  TypeOK'
<1>1. CASE UNCHANGED vars
  BY <1>1 DEF TypeOK, vars
<1>2. CASE Call
  BY <1>2 DEF Call, TypeOK, process, pipes
<1>3. CASE Launch \/ Fork \/ Kill \/ DelayOver \/ RunReturns
  BY <1>3 DEF Launch, Fork, Kill, DelayOver, RunReturns, TypeOK, process, pipes
<1>4. CASE Judge
  <2>1. buffer["stdout"].data \in 0 .. Limit
    BY DEF TypeOK, Streams
  <2>2. [kind |-> Verdict, text |-> buffer["stdout"].data] \in Replies
    BY <2>1, JudgementType DEF Replies
  <2> QED BY <1>4, <2>2 DEF Judge, TypeOK, process, pipes
<1>5. CASE GiveUp
  <2>1. [kind |-> "canceled", text |-> 0] \in Replies
    BY LimitAssumption DEF Replies, Kinds
  <2> QED BY <1>5, <2>1 DEF GiveUp, TypeOK, process, pipes
<1>6. ASSUME NEW c \in Streams, Copy(c) PROVE TypeOK'
  <2>1. buffer' \in [Streams -> [data: 0 .. Limit, total: 0 .. MaxOutput, overflow: BOOLEAN]]
    BY <1>6, CopyType
  <2> QED BY <1>6, <2>1 DEF Copy, TypeOK, process, pipes
<1>7. CASE ProcessExits \/ Cancel \/ Deadline
  BY <1>7 DEF ProcessExits, Cancel, Deadline, TypeOK, process, pipes
<1>8. ASSUME NEW c \in Streams, WriteOut(c) PROVE TypeOK'
  <2>0. written[c] \in 0 .. MaxOutput
    BY DEF TypeOK
  <2>1. written[c] + 1 \in 0 .. MaxOutput
    BY <1>8, <2>0, OutputAssumption DEF WriteOut
  <2>2. written' \in [Streams -> 0 .. MaxOutput]
    BY <1>8, <2>1 DEF WriteOut, TypeOK
  <2>3. UNCHANGED <<front, mode, cancelled, expired, runner, child, heir, buffer, cut, reply>>
    BY <1>8 DEF WriteOut, pipes
  <2> QED BY <2>2, <2>3 DEF TypeOK
<1>9. CASE ChildForks \/ HeirEnds \/ ChildExits
  <2>1. heir' \in BOOLEAN
    BY <1>9 DEF ChildForks, HeirEnds, ChildExits, TypeOK
  <2>2. child' \in {"none", "running", "done", "failed", "killed"}
    BY <1>9 DEF ChildForks, HeirEnds, ChildExits, TypeOK
  <2>3. UNCHANGED <<front, mode, cancelled, expired, runner, written, buffer, cut, reply>>
    BY <1>9 DEF ChildForks, HeirEnds, ChildExits, pipes
  <2> QED BY <2>1, <2>2, <2>3 DEF TypeOK
<1> QED
  BY <1>1, <1>2, <1>3, <1>4, <1>5, <1>6, <1>7, <1>8, <1>9 DEF Next, RunnerStep, Child

-----------------------------------------------------------------------------
(* The invariant.                                                          *)

LEMMA InitInv == Init => Inv
<1> SUFFICES ASSUME Init PROVE Inv
  OBVIOUS
<1>1. TypeOK
  BY InitType
<1>2. BuffersTell
  BY DEF Init, BuffersTell
<1>3. RunnerAndChild /\ CallerAndRunner
  BY DEF Init, RunnerAndChild, CallerAndRunner, NoReply
<1> QED BY <1>1, <1>2, <1>3 DEF Inv

LEMMA BuffersInductive ==
  ASSUME Inv, [Next]_vars
  PROVE  BuffersTell'
<1> USE DEF Inv
<1>1. CASE UNCHANGED <<written, buffer>>
  BY <1>1 DEF BuffersTell
<1>2. ASSUME NEW c \in Streams, Copy(c) PROVE BuffersTell'
  BY <1>2, CopyType
<1>3. ASSUME NEW c \in Streams, WriteOut(c) PROVE BuffersTell'
  <2>1. UNCHANGED buffer
    BY <1>3 DEF WriteOut, pipes
  <2>2. \A d \in Streams : written[d] \in Nat /\ buffer[d].total \in Nat
    BY OutputAssumption DEF TypeOK
  <2>3. \A d \in Streams : written[d] <= written'[d]
    BY <1>3, <2>2 DEF WriteOut, TypeOK
  <2>4. \A d \in Streams : written'[d] \in Nat
    BY <1>3, NextType, OutputAssumption DEF TypeOK
  <2> QED BY <2>1, <2>2, <2>3, <2>4 DEF BuffersTell
<1> QED
  BY <1>1, <1>2, <1>3 DEF Next, RunnerStep, Child, Call, Launch, Fork, Kill, DelayOver,
     RunReturns, Judge, GiveUp, ProcessExits, Cancel, Deadline, ChildForks, HeirEnds,
     ChildExits, process, pipes, vars

LEMMA RunnerInductive ==
  ASSUME Inv, [Next]_vars
  PROVE  RunnerAndChild'
<1> USE DEF Inv
<1>1. CASE UNCHANGED vars
  BY <1>1 DEF vars, RunnerAndChild, ContextDone, Drained
<1>2. CASE Call
  BY <1>2 DEF Call, process, pipes, RunnerAndChild, CallerAndRunner, ContextDone
<1>3. CASE Launch \/ Fork
  BY <1>3 DEF Launch, Fork, process, pipes, RunnerAndChild, ContextDone
<1>4. CASE Kill
  BY <1>4 DEF Kill, pipes, RunnerAndChild, ContextDone
<1>5. CASE DelayOver \/ RunReturns
  BY <1>5 DEF DelayOver, RunReturns, process, RunnerAndChild, ContextDone, pipes, Drained
<1>6. CASE Judge \/ GiveUp \/ ProcessExits
  BY <1>6 DEF Judge, GiveUp, ProcessExits, process, pipes, RunnerAndChild, ContextDone, Drained
<1>7. CASE Cancel \/ Deadline
  BY <1>7 DEF Cancel, Deadline, process, pipes, RunnerAndChild, ContextDone, Drained
<1>8. ASSUME NEW c \in Streams, Copy(c) \/ WriteOut(c) PROVE RunnerAndChild'
  BY <1>8 DEF Copy, WriteOut, process, pipes, RunnerAndChild, ContextDone
<1>9. CASE ChildForks \/ HeirEnds \/ ChildExits
  BY <1>9 DEF ChildForks, HeirEnds, ChildExits, pipes, RunnerAndChild, ContextDone, Drained
<1> QED
  BY <1>1, <1>2, <1>3, <1>4, <1>5, <1>6, <1>7, <1>8, <1>9 DEF Next, RunnerStep, Child

LEMMA CallerInductive ==
  ASSUME Inv, [Next]_vars
  PROVE  CallerAndRunner'
<1> USE DEF Inv
<1>1. CASE UNCHANGED vars
  BY <1>1 DEF vars, CallerAndRunner
<1>2. CASE Call
  BY <1>2 DEF Call, process, pipes, CallerAndRunner, NoReply
<1>3. CASE Launch \/ Fork \/ Kill \/ DelayOver \/ RunReturns
  BY <1>3 DEF Launch, Fork, Kill, DelayOver, RunReturns, process, pipes,
     CallerAndRunner, NoReply
<1>4. CASE Judge
  BY <1>4 DEF Judge, process, pipes, CallerAndRunner, RunnerAndChild, NoReply
<1>5. CASE GiveUp
  BY <1>5 DEF GiveUp, MayGiveUp, process, pipes, CallerAndRunner
<1>6. CASE ProcessExits
  BY <1>6 DEF ProcessExits, process, pipes, CallerAndRunner, RunnerAndChild
<1>7. CASE Cancel \/ Deadline
  BY <1>7 DEF Cancel, Deadline, process, pipes, CallerAndRunner
<1>8. ASSUME NEW c \in Streams, Copy(c) \/ WriteOut(c) PROVE CallerAndRunner'
  BY <1>8 DEF Copy, WriteOut, process, pipes, CallerAndRunner
<1>9. CASE ChildForks \/ HeirEnds \/ ChildExits
  BY <1>9 DEF ChildForks, HeirEnds, ChildExits, pipes, CallerAndRunner
<1> QED
  BY <1>1, <1>2, <1>3, <1>4, <1>5, <1>6, <1>7, <1>8, <1>9 DEF Next, RunnerStep, Child

LEMMA NextInv ==
  ASSUME Inv, [Next]_vars
  PROVE  Inv'
<1>1. TypeOK'
  BY NextType DEF Inv
<1> QED BY <1>1, BuffersInductive, RunnerInductive, CallerInductive DEF Inv

LEMMA Invariant == Spec => []Inv
  BY InitInv, NextInv, PTL DEF Spec

\* Type correctness of a call.
THEOREM CallTypeCorrect == Spec => []TypeOK
<1>1. Inv => TypeOK
  BY DEF Inv
<1> QED BY <1>1, Invariant, PTL

\* No command but `paseo wait` goes on under a process that has ended: the
\* caller of every other one waits for cmd.Run.
THEOREM MutationsDoNotOutlive == Spec => []OnlyWaitOutlives
<1>1. Inv => OnlyWaitOutlives
  BY DEF Inv, CallerAndRunner, OnlyWaitOutlives
<1> QED BY <1>1, Invariant, PTL

-----------------------------------------------------------------------------
(* The refinement.                                                         *)

\* The verdict "answer" is given on nothing less than the whole output of a
\* child that has succeeded; "refused" on its own exit code.
LEMMA VerdictIsProven ==
  ASSUME Inv, runner = "returned"
  PROVE  /\ Verdict = "answer" => child = "done" /\ buffer["stdout"].data = written["stdout"]
         /\ Verdict = "refused" => child = "failed"
<1> USE DEF Inv
<1>1. child \in {"none", "done", "failed", "killed"}
  BY DEF TypeOK, RunnerAndChild
<1>2. ASSUME Verdict = "answer"
      PROVE  child = "done" /\ buffer["stdout"].data = written["stdout"]
  <2>1. ~ (\E c \in Streams : buffer[c].overflow) /\ RunError = "none"
    BY <1>2 DEF Verdict, ContextDone
  <2>2. child = "done" /\ ~ cut
    BY <2>1 DEF RunError
  <2>3. "stdout" \in Streams
    BY DEF Streams
  <2>4. Drained
    BY <2>2 DEF RunnerAndChild
  <2> QED BY <2>1, <2>2, <2>3, <2>4 DEF Drained, BuffersTell
<1>3. ASSUME Verdict = "refused" PROVE child = "failed"
  <2>1. ~ ContextDone /\ RunError = "exit"
    BY <1>3 DEF Verdict, ContextDone
  <2>2. child # "killed"
    BY <2>1 DEF RunnerAndChild
  <2>3. child \notin {"none", "done"}
    BY <2>1 DEF RunError
  <2> QED BY <1>1, <2>2, <2>3
<1> QED BY <1>2, <1>3

LEMMA InitRefines == Init => Promise!Init
  BY DEF Init, Promise!Init, NoReply, Promise!NoReply, Streams

LEMMA NextRefines ==
  ASSUME Inv, [Next]_vars
  PROVE  [Promise!Next]_(Promise!call)
<1> USE DEF Inv
<1>1. CASE UNCHANGED <<child, written, reply>>
  BY <1>1 DEF Promise!call
<1>2. CASE Fork
  <2>1. CASE child' = "running"
    <3>1. child = "none" /\ reply.kind \notin {"answer", "refused"}
      BY <1>2 DEF Fork, RunnerAndChild, CallerAndRunner
    <3>2. Promise!Begin
      BY <1>2, <2>1, <3>1 DEF Fork, Promise!Begin, pipes
    <3> QED BY <3>2 DEF Promise!Next
  <2>2. CASE child' # "running"
    BY <1>1, <1>2, <2>2 DEF Fork, pipes
  <2> QED BY <2>1, <2>2
<1>3. CASE Kill \/ ChildExits
  <2>1. Promise!End
    BY <1>3 DEF Kill, ChildExits, Promise!End, Promise!Ends, pipes
  <2> QED BY <2>1 DEF Promise!Next
<1>4. CASE Judge
  <2>1. CASE front = "calling"
    <3> DEFINE r == [kind |-> Verdict, text |-> buffer["stdout"].data]
    <3>1. r \in Replies
      BY JudgementType DEF Replies, TypeOK, Streams
    <3>2. reply = Promise!NoReply
      BY <2>1 DEF CallerAndRunner, NoReply, Promise!NoReply
    <3>3. /\ Verdict = "answer" => child = "done" /\ buffer["stdout"].data = written["stdout"]
          /\ Verdict = "refused" => child = "failed"
      BY <1>4, VerdictIsProven DEF Judge
    <3>4. reply' = r /\ UNCHANGED <<child, written>>
      BY <1>4, <2>1 DEF Judge, process
    <3>5. Promise!Reply(r)
      BY <3>2, <3>3, <3>4 DEF Promise!Reply
    <3> QED BY <3>1, <3>5 DEF Promise!Next
  <2>2. CASE front # "calling"
    BY <1>1, <1>4, <2>2 DEF Judge, process
  <2> QED BY <2>1, <2>2
<1>5. CASE GiveUp
  <2> DEFINE r == [kind |-> "canceled", text |-> 0]
  <2>1. r \in Replies
    BY LimitAssumption DEF Replies, Kinds
  <2>2. reply = Promise!NoReply
    BY <1>5 DEF GiveUp, CallerAndRunner, NoReply, Promise!NoReply
  <2>3. Promise!Reply(r)
    BY <1>5, <2>2 DEF GiveUp, Promise!Reply, process
  <2> QED BY <2>1, <2>3 DEF Promise!Next
<1>6. ASSUME NEW c \in Streams, WriteOut(c) PROVE [Promise!Next]_(Promise!call)
  <2>1. CASE c = "stdout"
    <3>1. child # "none" /\ reply.kind # "answer"
      BY <1>6 DEF WriteOut, RunnerAndChild, CallerAndRunner
    <3>2. written["stdout"] < MaxOutput /\ written'["stdout"] = written["stdout"] + 1
      BY <1>6, <2>1 DEF WriteOut, TypeOK
    <3>3. UNCHANGED <<child, reply>>
      BY <1>6 DEF WriteOut, pipes
    <3>4. Promise!WriteOut
      BY <3>1, <3>2, <3>3 DEF Promise!WriteOut
    <3> QED BY <3>4 DEF Promise!Next
  <2>2. CASE c # "stdout"
    <3>1. written'["stdout"] = written["stdout"]
      BY <1>6, <2>2 DEF WriteOut, TypeOK
    <3> QED BY <1>6, <3>1 DEF WriteOut, pipes, Promise!call
  <2> QED BY <2>1, <2>2
<1> QED
  BY <1>1, <1>2, <1>3, <1>4, <1>5, <1>6 DEF Next, RunnerStep, Child, Call, Launch, Copy,
     DelayOver, RunReturns, ProcessExits, Cancel, Deadline, ChildForks, HeirEnds,
     process, pipes, vars

\* The runner keeps the promise of CommandAnswer: whatever the order of output,
\* exit, deadline, signal and WaitDelay, an answer is the whole output of a
\* child that succeeded and a refusal the exit code of one nobody killed.
THEOREM RunnerKeepsPromise == Spec => ImplementsCommand
  BY Invariant, InitRefines, NextRefines, PTL DEF Spec, ImplementsCommand, Promise!Spec

-----------------------------------------------------------------------------
(* What the promise means.                                                 *)

\* A consequence of the abstract specification alone.
LEMMA PromiseMeans == Promise!Spec => []Promise!Meaning
<1> USE DEF Promise!Meaning, Promise!AnswerIsWhole, Promise!RefusalIsOwn
<1>1. Promise!Init => Promise!Meaning
  BY DEF Promise!Init, Promise!NoReply
<1>2. ASSUME Promise!Meaning, [Promise!Next]_(Promise!call)
      PROVE  Promise!Meaning'
  <2>1. CASE Promise!Begin
    BY <1>2, <2>1 DEF Promise!Begin
  <2>2. CASE Promise!WriteOut
    BY <1>2, <2>2 DEF Promise!WriteOut
  <2>3. CASE Promise!End
    BY <1>2, <2>3 DEF Promise!End
  <2>4. ASSUME NEW r \in Replies, Promise!Reply(r)
        PROVE  Promise!Meaning'
    BY <2>4 DEF Promise!Reply
  <2>5. CASE UNCHANGED Promise!call
    BY <1>2, <2>5 DEF Promise!call
  <2> QED BY <1>2, <2>1, <2>2, <2>3, <2>4, <2>5 DEF Promise!Next
<1> QED BY <1>1, <1>2, PTL DEF Promise!Spec

\* At any later time, too, an answer is everything the child has printed, and
\* a refusal the exit code of a child nobody killed: no process that the child
\* left behind adds to an answer that was believed.
THEOREM AnswerStaysTrue == Spec => []Promise!Meaning
BY RunnerKeepsPromise, PromiseMeans, PTL DEF ImplementsCommand
=============================================================================
