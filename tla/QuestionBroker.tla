--------------------------- MODULE QuestionBroker ---------------------------
(***************************************************************************)
(* The broker that suspends an ask_user tool call until the user answers   *)
(* (pico/tui_rpc/question_broker.py).  A question is registered twice:     *)
(* under its conversation and, through a reverse index, under its request  *)
(* id; an answer may be addressed either way.                              *)
(*                                                                         *)
(* Questions are numbered in the order they are asked.  The call of        *)
(* await_question is suspended in send_frame ("sending"), then in wait_for *)
(* ("waiting"); between the step that completes its future and the step    *)
(* that resumes it the registry still holds it.                            *)
(***************************************************************************)
EXTENDS Naturals, Sequences

CONSTANTS
  Conversations,
  MaxQuestions   \* bound on the questions asked

VARIABLES
  asked,     \* conversation of each question asked so far
  pending,   \* _pending: the question registered for a conversation
  index,     \* _by_request: the request ids that are registered
  stage,     \* where the await_question call of each question stands
  future     \* the state of each question's future, while its call lasts

brokerVars == <<asked, pending, index, stage, future>>

NoQuestion == 0
Questions == 1..MaxQuestions

\* A future is open, completed with the default, cancelled by the timeout, or
\* completed with an answer: the handle it was addressed by, and the question
\* its sender meant.
Handles == {"request_id", "conversation_id"}
Open == [by |-> "open", meant |-> NoQuestion]
Default == [by |-> "default", meant |-> NoQuestion]
TimedOut == [by |-> "timeout", meant |-> NoQuestion]
Futures == {Open, Default, TimedOut} \cup [by : Handles, meant : Questions]

BrokerTypeOK ==
  /\ asked \in Seq(Conversations) /\ Len(asked) <= MaxQuestions
  /\ pending \in [Conversations -> Questions \cup {NoQuestion}]
  /\ index \subseteq Questions
  /\ stage \in [Questions -> {"new", "sending", "waiting", "over"}]
  /\ future \in [Questions -> Futures]

BrokerInit ==
  /\ asked = <<>>
  /\ pending = [v \in Conversations |-> NoQuestion]
  /\ index = {}
  /\ stage = [q \in Questions |-> "new"]
  /\ future = [q \in Questions |-> Open]

\* await_question up to send_frame.  A question that is still registered for
\* the conversation is given its default and replaced.
Ask(v) ==
  LET q == Len(asked) + 1
      old == pending[v]
  IN /\ q \in Questions
     /\ asked' = Append(asked, v)
     /\ index' = (index \ {old}) \cup {q}
     /\ pending' = [pending EXCEPT ![v] = q]
     /\ stage' = [stage EXCEPT ![q] = "sending"]
     /\ future' = IF old # NoQuestion /\ future[old] = Open
                    THEN [future EXCEPT ![old] = Default] ELSE future

\* The clarify.request frame is written.
FrameSent(q) ==
  /\ stage[q] = "sending"
  /\ stage' = [stage EXCEPT ![q] = "waiting"]
  /\ UNCHANGED <<asked, pending, index, future>>

\* wait_for's timeout fires: the call returns the default, even if an answer
\* has completed the future in the meantime.
Expire(q) ==
  /\ stage[q] = "waiting"
  /\ future[q] # TimedOut
  /\ future' = [future EXCEPT ![q] = TimedOut]
  /\ UNCHANGED <<asked, pending, index, stage>>

\* Mutant: the reverse index keeps the request id.
WithdrawHalf(q) ==
  /\ pending' = [v \in Conversations |-> IF pending[v] = q THEN NoQuestion ELSE pending[v]]
  /\ UNCHANGED index

\* The finally clause: only the call's own entries are withdrawn.
Withdraw(q) ==
  /\ pending' = [v \in Conversations |-> IF pending[v] = q THEN NoQuestion ELSE pending[v]]
  /\ index' = index \ {q}

\* The call ends, by a return or by an exception.
Leave(q) ==
  /\ stage' = [stage EXCEPT ![q] = "over"]
  /\ future' = [future EXCEPT ![q] = Open]
  /\ Withdraw(q)
  /\ UNCHANGED asked

\* send_frame raises: the tool gets the default.
FrameFails(q) == stage[q] = "sending" /\ Leave(q)

\* The call resumes with its future done, and returns the answer or the default.
Resume(q) == stage[q] = "waiting" /\ future[q] # Open /\ Leave(q)

\* The task is cancelled while the call is suspended.
Interrupt(q) == stage[q] \in {"sending", "waiting"} /\ Leave(q)

\* reply(key, answer), sent by someone who was asked q.  The key is the
\* conversation, or a request id that the reverse index leads to it; the
\* question registered there takes the answer if its future is open.
ReplyTo(q, key) ==
  /\ q \in DOMAIN asked
  /\ key = "request_id" => q \in index
  /\ LET target == pending[asked[q]]
     IN /\ target # NoQuestion /\ future[target] = Open
        /\ future' = [future EXCEPT ![target] = [by |-> key, meant |-> q]]
  /\ UNCHANGED <<asked, pending, index, stage>>

\* cancel_all: every registered question gets its default.
CancelAll ==
  /\ future' = [q \in Questions |->
       IF future[q] = Open /\ \E v \in Conversations : pending[v] = q
         THEN Default ELSE future[q]]
  /\ UNCHANGED <<asked, pending, index, stage>>
=============================================================================
