--------------------------- MODULE CommandAnswer ---------------------------
(***************************************************************************)
(* What a caller may conclude from one call of `openspec`, `git` or        *)
(* `paseo`, without processes, pipes, buffers, deadlines and signals: an   *)
(* answer is everything a command that succeeded has printed, a refusal is *)
(* the own decision of the command, and any other reply says nothing about *)
(* what has become of the command - it may still begin and still end.      *)
(***************************************************************************)
EXTENDS Naturals

CONSTANTS
  MaxOutput,   \* bound: how much a command prints
  Replies      \* the replies a caller can get, "none" is not among them

VARIABLES
  work,        \* the command: not begun, at work, or how it has ended
  output,      \* how much it has printed
  reply        \* what its caller was told: [kind, text]

call == <<work, output, reply>>

Ends == {"done", "failed", "killed"}

NoReply == [kind |-> "none", text |-> 0]

Init ==
  /\ work = "none"
  /\ output = 0
  /\ reply = NoReply

\* Also after a reply that proves nothing.
Begin ==
  /\ work = "none"
  /\ reply.kind \notin {"answer", "refused"}
  /\ work' = "running"
  /\ UNCHANGED <<output, reply>>

\* The command, or a process it has left behind, prints more.
WriteOut ==
  /\ work # "none"
  /\ reply.kind # "answer"
  /\ output < MaxOutput
  /\ output' = output + 1
  /\ UNCHANGED <<work, reply>>

End ==
  /\ work = "running"
  /\ work' \in Ends
  /\ UNCHANGED <<output, reply>>

Reply(r) ==
  /\ reply = NoReply
  /\ r.kind = "answer"  => work = "done" /\ r.text = output
  /\ r.kind = "refused" => work = "failed"
  /\ reply' = r
  /\ UNCHANGED <<work, output>>

Next == Begin \/ WriteOut \/ End \/ \E r \in Replies : Reply(r)

Spec == Init /\ [][Next]_call
-----------------------------------------------------------------------------
(* What it amounts to: a reply that proves something stays true.           *)

\* The text of an answer is, for good, all that the command has printed.
AnswerIsWhole == reply.kind = "answer" => work = "done" /\ reply.text = output

\* A command that has refused did not succeed and was not killed.
RefusalIsOwn == reply.kind = "refused" => work = "failed"

Meaning == AnswerIsWhole /\ RefusalIsOwn
=============================================================================
