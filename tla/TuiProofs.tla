----------------------------- MODULE TuiProofs -----------------------------
(***************************************************************************)
(* Proofs about TuiTurn and QuestionBroker, for any number of turns,       *)
(* questions, suspended turn.cancel handlers and queued tokens.            *)
(***************************************************************************)
EXTENDS TuiTurn, SequenceFacts

\* The phases in which the runner or the sink has the turn.
Active == {"running", "asking"} \cup Terminal

\* A turn is queued once, running or over, never two of these; only a running
\* turn is cancelled.
LaneOrder ==
  /\ IsInjective(queue)
  /\ ToSet(queue) \cap (done \cup {running}) = {}
  /\ running \notin done
  /\ cancelReq => running # None

\* While the runner or the sink has a turn, running_requests names it, and if
\* its ids are bound the message on show is its own.
Correlated ==
  phase \in Active =>
    /\ runningReq = running
    /\ running \in bound =>
         shown = running /\ wire[running] # <<>> /\ Head(wire[running]) = "start"

\* A turn that keeps the slot when it is cancelled, or when its task is over,
\* has a turn.cancel call waiting for it.
ReleasePending ==
  link = "up" /\ slot = running /\ (cancelReq \/ phase = "done") /\ running # None
    => \E c \in Callers : waiting[c] = slot

\* No event of a turn before it runs; an error of turn.cancel means that the
\* turn is over, is failing anyway, or has its cancellation coming; bound ids
\* have had no terminal event; and a start is the first event.
WireHistory ==
  \A t \in Turns :
    /\ wire[t] # <<>> => t \in done \/ (t = running /\ (phase # "taken" \/ cancelReq))
    /\ "cancelled" \in ToSet(wire[t]) =>
         t \in done \/ (t = running /\ (cancelReq \/ phase \in {"failing", "cancelling", "done"}))
    /\ t \in bound => ~Told(t)
    /\ \A i \in DOMAIN wire[t] : wire[t][i] = "start" => i = 1

\* The tokens still to be rendered are the running turn's, unless its terminal
\* event was cut.
HubKept ==
  \A i \in DOMAIN hub :
    hub[i] \in cut \/ (hub[i] = running /\ phase \in Active /\ running \in bound)

\* A request id in the reverse index leads to its own question, and the
\* question registered for a conversation is the last one it was asked.
IndexMatches ==
  /\ \A q \in index : q \in DOMAIN asked /\ pending[asked[q]] = q
  /\ \A v \in Conversations : pending[v] # NoQuestion =>
       /\ pending[v] \in DOMAIN asked /\ asked[pending[v]] = v
       /\ \A r \in DOMAIN asked : asked[r] = v => r <= pending[v]

BrokerInv == BrokerTypeOK /\ IndexMatches /\ AnswersTheQuestion

LaneInv ==
  TypeOK /\ LaneOrder /\ Correlated /\ ReleasePending /\ WireHistory /\ HubKept
    /\ SlotFollowsTurn /\ StreamsKeptApart

\* The inductive invariant.
TuiInv == LaneInv /\ BrokerInv

-----------------------------------------------------------------------------
(* The broker. *)

\* A future that is set without an answer breaks no promise.
LEMMA NoAnswer ==
  ASSUME BrokerInv, UNCHANGED asked,
         \A q \in Questions : future'[q] \in {future[q], Open, Default, TimedOut}
  PROVE  AnswersTheQuestion'
<1> SUFFICES ASSUME NEW q \in Questions
             PROVE  /\ future'[q].by = "request_id" => future'[q].meant = q
                    /\ future'[q].by = "conversation_id" =>
                         /\ q \in DOMAIN asked /\ future'[q].meant \in 1..q
                         /\ asked[future'[q].meant] = asked[q]
  BY DEF AnswersTheQuestion
<1>1. CASE future'[q] = future[q]
  BY <1>1 DEF BrokerInv, AnswersTheQuestion
<1>2. CASE future'[q] \in {Open, Default, TimedOut}
  BY <1>2 DEF Open, Default, TimedOut
<1> QED
  BY <1>1, <1>2

\* A call that ends withdraws its own entries and no other.
LEMMA LeaveBroker ==
  ASSUME BrokerInv, NEW q \in Nat, Leave(q)
  PROVE  BrokerInv'
<1> USE DEF BrokerInv, BrokerTypeOK
<1>1. BrokerTypeOK'
  BY DEF Leave, Withdraw, Futures
<1>2. IndexMatches'
  BY DEF IndexMatches, Leave, Withdraw, NoQuestion
<1>3. AnswersTheQuestion'
  BY NoAnswer DEF Leave
<1> QED
  BY <1>1, <1>2, <1>3

\* A new question replaces the one of its conversation in both registries.
LEMMA AskBroker ==
  ASSUME BrokerInv, NEW v \in Conversations, Ask(v)
  PROVE  BrokerInv'
<1> DEFINE q == Len(asked) + 1
           old == pending[v]
<1> USE DEF BrokerInv, BrokerTypeOK
<1>0. /\ q \in Questions
      /\ asked' = Append(asked, v)
      /\ index' = (index \ {old}) \cup {q}
      /\ pending' = [pending EXCEPT ![v] = q]
      /\ stage' = [stage EXCEPT ![q] = "sending"]
      /\ future' = IF old # NoQuestion /\ future[old] = Open
                     THEN [future EXCEPT ![old] = Default] ELSE future
  BY DEF Ask
<1>1. /\ asked' \in Seq(Conversations)
      /\ Len(asked') = q /\ DOMAIN asked' = DOMAIN asked \cup {q}
      /\ asked'[q] = v
      /\ \A r \in DOMAIN asked : asked'[r] = asked[r] /\ r # q
  BY <1>0
<1>2. BrokerTypeOK'
  <2>1. Len(asked') <= MaxQuestions
    BY <1>0, <1>1, TuiAssumption DEF Questions
  <2>2. /\ pending' \in [Conversations -> Questions \cup {NoQuestion}]
        /\ stage' \in [Questions -> {"new", "sending", "waiting", "over"}]
        /\ index' \subseteq Questions
    BY <1>0
  <2>3. future' \in [Questions -> Futures]
    BY <1>0 DEF Futures
  <2> QED
    BY <1>1, <2>1, <2>2, <2>3
<1>a. ASSUME NEW r \in index' PROVE r \in DOMAIN asked' /\ pending'[asked'[r]] = r
  <2>1. CASE r = q
    BY <1>0, <1>1, <2>1
  <2>2. CASE r # q
    <3>1. r \in index /\ r # pending[v]
      BY <1>0, <1>a, <2>2
    <3>2. r \in DOMAIN asked /\ pending[asked[r]] = r /\ asked[r] # v
      BY <3>1 DEF IndexMatches
    <3>3. pending'[asked[r]] = r
      BY <1>0, <3>2
    <3> QED
      BY <1>1, <3>2, <3>3
  <2> QED
    BY <2>1, <2>2
<1>b. ASSUME NEW w \in Conversations, pending'[w] # NoQuestion
      PROVE  /\ pending'[w] \in DOMAIN asked' /\ asked'[pending'[w]] = w
             /\ \A r \in DOMAIN asked' : asked'[r] = w => r <= pending'[w]
  <2>1. CASE w = v
    <3>1. \A r \in DOMAIN asked' : r <= q
      BY <1>1
    <3> QED
      BY <1>0, <1>1, <2>1, <3>1
  <2>2. CASE w # v
    <3>1. pending'[w] = pending[w]
      BY <1>0, <2>2
    <3> QED
      BY <1>1, <1>b, <2>2, <3>1 DEF IndexMatches
  <2> QED
    BY <2>1, <2>2
<1>3. IndexMatches'
  BY <1>a, <1>b DEF IndexMatches
<1>4. AnswersTheQuestion'
  <2> SUFFICES ASSUME NEW r \in Questions
               PROVE  /\ future'[r].by = "request_id" => future'[r].meant = r
                      /\ future'[r].by = "conversation_id" =>
                           /\ r \in DOMAIN asked' /\ future'[r].meant \in 1..r
                           /\ asked'[future'[r].meant] = asked'[r]
    BY DEF AnswersTheQuestion
  <2>1. CASE future'[r] = Default
    BY <2>1 DEF Default
  <2>2. CASE future'[r] = future[r]
    <3>1. CASE future[r].by = "conversation_id"
      <4>1. /\ r \in DOMAIN asked /\ future[r].meant \in 1..r
            /\ asked[future[r].meant] = asked[r]
        BY <3>1 DEF AnswersTheQuestion
      <4>2. future[r].meant \in DOMAIN asked
        BY <4>1
      <4> QED
        BY <1>1, <2>2, <3>1, <4>1, <4>2
    <3> QED
      BY <2>2, <3>1 DEF AnswersTheQuestion
  <2> QED
    BY <1>0, <2>1, <2>2
<1> QED
  BY <1>2, <1>3, <1>4

\* An answer by request id completes the question its sender meant: the id
\* leads to the conversation, and that to the same question.  One by
\* conversation completes the last question asked there.
LEMMA ReplyBroker ==
  ASSUME BrokerInv, NEW q \in Questions, NEW key \in Handles, ReplyTo(q, key)
  PROVE  BrokerInv'
<1> DEFINE target == pending[asked[q]]
           answer == [by |-> key, meant |-> q]
<1> USE DEF BrokerInv, BrokerTypeOK
<1>1. /\ q \in DOMAIN asked /\ target # NoQuestion /\ (key = "request_id" => q \in index)
      /\ future' = [future EXCEPT ![target] = answer]
      /\ UNCHANGED <<asked, pending, index, stage>>
  BY DEF ReplyTo
<1>2. asked[q] \in Conversations /\ q \in Nat
  BY <1>1
<1>3. /\ target \in Questions /\ target \in DOMAIN asked
      /\ asked[target] = asked[q] /\ q <= target
  BY <1>1, <1>2 DEF IndexMatches
<1>4. key = "request_id" => target = q
  BY <1>1 DEF IndexMatches
<1>5. answer \in Futures
  BY DEF Futures
<1>6. BrokerTypeOK'
  BY <1>1, <1>5
<1>7. IndexMatches'
  BY <1>1 DEF IndexMatches
<1>8. /\ answer.by = "request_id" => answer.meant = target
      /\ answer.meant \in 1..target /\ asked[answer.meant] = asked[target]
  BY <1>2, <1>3, <1>4, TuiAssumption DEF Questions
<1>9. AnswersTheQuestion'
  <2> HIDE DEF target, answer
  <2> SUFFICES ASSUME NEW r \in Questions
               PROVE  /\ future'[r].by = "request_id" => future'[r].meant = r
                      /\ future'[r].by = "conversation_id" =>
                           /\ r \in DOMAIN asked /\ future'[r].meant \in 1..r
                           /\ asked[future'[r].meant] = asked[r]
    BY <1>1 DEF AnswersTheQuestion
  <2>1. CASE r = target
    BY <1>1, <1>3, <1>8, <2>1
  <2>2. CASE r # target
    BY <1>1, <2>2 DEF AnswersTheQuestion
  <2> QED
    BY <2>1, <2>2
<1> QED
  BY <1>6, <1>7, <1>9

\* Every step of the system keeps the registries of the broker.
LEMMA NextBroker == BrokerInv /\ [Next]_vars => BrokerInv'
<1> SUFFICES ASSUME BrokerInv, [Next]_vars PROVE BrokerInv'
  OBVIOUS
<1>0. Len(asked) \in Nat
  BY DEF BrokerInv, BrokerTypeOK
<1>1. CASE UNCHANGED brokerVars
  BY <1>1 DEF brokerVars, BrokerInv, BrokerTypeOK, IndexMatches, AnswersTheQuestion
<1>2. CASE AskUser
  BY <1>2, AskBroker, TuiAssumption DEF AskUser
<1>3. CASE Asking
  <2>1. CASE FrameSent(Current)
    <3>1. UNCHANGED <<asked, pending, index, future>>
      BY <2>1 DEF FrameSent
    <3>2. stage' \in [Questions -> {"new", "sending", "waiting", "over"}]
      BY <2>1 DEF FrameSent, BrokerInv, BrokerTypeOK
    <3> QED
      BY <3>1, <3>2 DEF BrokerInv, BrokerTypeOK, IndexMatches, AnswersTheQuestion
  <2>2. CASE Expire(Current)
    <3>1. UNCHANGED <<asked, pending, index, stage>>
      BY <2>2 DEF Expire
    <3>2. future' \in [Questions -> Futures]
      BY <2>2 DEF Expire, BrokerInv, BrokerTypeOK, Futures
    <3>3. AnswersTheQuestion'
      BY <2>2, NoAnswer DEF Expire, BrokerInv, BrokerTypeOK
    <3> QED
      BY <3>1, <3>2, <3>3 DEF BrokerInv, BrokerTypeOK, IndexMatches
  <2> QED
    BY <1>3, <2>1, <2>2 DEF Asking
<1>4. CASE ClarifyRespond
  BY <1>4, ReplyBroker DEF ClarifyRespond
<1>5. CASE Answered \/ AskCancelled
  BY <1>0, <1>5, LeaveBroker DEF Answered, AskCancelled, Resume, FrameFails, Interrupt, Current
<1>6. CASE Sweep
  <2>1. UNCHANGED <<asked, pending, index, stage>>
    BY <1>6 DEF Sweep, CancelAll
  <2>2. \A q \in Questions : future'[q] \in {future[q], Default}
    BY <1>6 DEF Sweep, CancelAll
  <2>3. future' \in [Questions -> Futures]
    BY <1>6 DEF Sweep, CancelAll, BrokerInv, BrokerTypeOK, Futures
  <2>4. AnswersTheQuestion'
    BY <2>1, <2>2, NoAnswer
  <2> QED
    BY <2>1, <2>3, <2>4 DEF BrokerInv, BrokerTypeOK, IndexMatches
<1>7. CASE TurnSend \/ SystemSubmit \/ CancelAtOnce \/ Hangup \/ Teardown
  BY <1>1, <1>7 DEF TurnSend, SystemSubmit, CancelAtOnce, Hangup, Teardown, still
<1>8. CASE \E c \in Callers : CancelRunning(c) \/ CancelReturns(c)
  BY <1>1, <1>8 DEF CancelRunning, CancelReturns, still
<1>9. CASE Lane \/ EmitToken \/ RunnerLeaves \/ HubDeliver
  BY <1>1, <1>9 DEF Lane, WorkerStart, WorkerCollect, EmitToken, RunnerLeaves, HubDeliver, still
<1>10. CASE RunnerStart \/ CancelledEarly \/ SinkEnds \/ SinkCut
  BY <1>1, <1>10 DEF RunnerStart, CancelledEarly, SinkEnds, SinkCut, still
<1> QED
  BY <1>1, <1>2, <1>3, <1>4, <1>5, <1>6, <1>7, <1>8, <1>9, <1>10
     DEF Next, Client, Payload, Cleanup, vars, still

-----------------------------------------------------------------------------
(* The lane. *)

\* Turns are numbered from 1, and the queues hold accepted ones.
LEMMA LaneFacts ==
  ASSUME TypeOK
  PROVE  /\ Accepted = 1 .. Len(origin) /\ Len(origin) \in Nat
         /\ None \notin Accepted /\ Accepted \subseteq Turns
         /\ ToSet(queue) \subseteq Accepted
         /\ ToSet(hub) \subseteq Accepted
<1>1. /\ Accepted = 1 .. Len(origin) /\ Len(origin) \in Nat
      /\ None \notin Accepted /\ Accepted \subseteq Turns
  BY TuiAssumption DEF TypeOK, Accepted, None, Turns
<1>2. ToSet(queue) \subseteq Accepted /\ ToSet(hub) \subseteq Accepted
  BY ToSetType DEF TypeOK
<1> QED
  BY <1>1, <1>2

\* The initial state satisfies every part of the invariant.
LEMMA InitTui == Init => TuiInv
<1> SUFFICES ASSUME Init PROVE TuiInv
  OBVIOUS
<1>1. BrokerInv
  <2>1. BrokerTypeOK
    BY TuiAssumption DEF Init, BrokerInit, BrokerTypeOK, Futures
  <2> QED
    BY <2>1 DEF Init, BrokerInit, BrokerInv, IndexMatches, AnswersTheQuestion, Open
<1>2. TypeOK
  <2>1. /\ origin \in Seq({"user", "system"}) /\ Len(origin) <= MaxTurns
        /\ queue \in Seq(Accepted) /\ hub \in Seq(Accepted) /\ Len(hub) <= HubMax
    BY TuiAssumption DEF Init
  <2>2. wire \in [Turns -> Seq(Events)] /\ waiting \in [Callers -> Accepted \cup {None}]
    BY DEF Init
  <2> QED
    BY <1>1, <2>1, <2>2 DEF Init, TypeOK, BrokerInv, Phases
<1>3. LaneOrder
  BY EmptySet DEF Init, LaneOrder
<1>4. Correlated /\ ReleasePending /\ HubKept /\ StreamsKeptApart
  BY DEF Init, Correlated, Active, Terminal, ReleasePending, HubKept, StreamsKeptApart
<1>5. WireHistory
  BY EmptySet DEF Init, WireHistory, Told
<1>6. SlotFollowsTurn
  BY DEF Init, SlotFollowsTurn, Accepted
<1> QED
  BY <1>1, <1>2, <1>3, <1>4, <1>5, <1>6 DEF TuiInv, LaneInv

\* What an event adds to the history of its turn.
LEMMA SendFacts ==
  ASSUME TypeOK, NEW t \in Turns, NEW event \in Events, Send(t, event)
  PROVE  /\ wire' \in [Turns -> Seq(Events)]
         /\ \A u \in Turns : u # t => wire'[u] = wire[u]
         /\ wire'[t] = Append(wire[t], event) /\ wire'[t] # <<>>
         /\ Len(wire'[t]) = Len(wire[t]) + 1 /\ Last(wire'[t]) = event
         /\ \A i \in DOMAIN wire[t] : wire'[t][i] = wire[t][i]
         /\ Head(wire'[t]) = IF wire[t] = <<>> THEN event ELSE Head(wire[t])
         /\ ToSet(wire'[t]) = ToSet(wire[t]) \cup {event}
<1>1. wire \in [Turns -> Seq(Events)] /\ wire[t] \in Seq(Events)
  BY DEF TypeOK
<1>2. wire' = [wire EXCEPT ![t] = Append(wire[t], event)]
  BY DEF Send
<1>3. wire'[t] = Append(wire[t], event) /\ wire' \in [Turns -> Seq(Events)]
  BY <1>1, <1>2
<1>4. \A u \in Turns : u # t => wire'[u] = wire[u]
  BY <1>1, <1>2
<1>5. ToSet(wire'[t]) = ToSet(wire[t]) \cup {event}
  BY <1>1, <1>3, AppendSet
<1>6. /\ wire'[t] # <<>> /\ Len(wire'[t]) = Len(wire[t]) + 1
      /\ Last(wire'[t]) = event
      /\ \A i \in DOMAIN wire[t] : wire'[t][i] = wire[t][i]
  BY <1>1, <1>3 DEF Last
<1>7. Head(wire'[t]) = IF wire[t] = <<>> THEN event ELSE Head(wire[t])
  <2>1. CASE wire[t] = <<>>
    BY <1>1, <1>3, <2>1
  <2>2. CASE wire[t] # <<>>
    BY <1>1, <1>3, <1>6, <2>2
  <2> QED
    BY <2>1, <2>2
<1> QED
  BY <1>3, <1>4, <1>5, <1>6, <1>7

\* An event of a turn that has been taken, or is over in the same step, keeps
\* the history in order: a start comes first, a terminal event with the loss
\* of the ids, an error of turn.cancel with a cancellation on its way.
LEMMA SendHistory ==
  ASSUME TypeOK, WireHistory, NEW t \in Turns, NEW event \in Events, Send(t, event),
         t \in done' \/ (t = running' /\ (phase' # "taken" \/ cancelReq')),
         event = "start" => wire[t] = <<>>,
         event = "cancelled" \/ "cancelled" \in ToSet(wire[t]) =>
           \/ t \in done'
           \/ t = running' /\ (cancelReq' \/ phase' \in {"failing", "cancelling", "done"}),
         event \in {"complete", "failed"} => t \notin bound',
         bound' \subseteq bound, done \subseteq done',
         UNCHANGED running,
         \A u \in Turns : u # t /\ u = running => UNCHANGED <<phase, cancelReq>>
  PROVE  WireHistory'
<1>1. /\ wire' \in [Turns -> Seq(Events)] /\ wire[t] \in Seq(Events)
      /\ \A u \in Turns : u # t => wire'[u] = wire[u]
      /\ Len(wire'[t]) = Len(wire[t]) + 1 /\ wire'[t] = Append(wire[t], event)
      /\ \A i \in DOMAIN wire[t] : wire'[t][i] = wire[t][i]
      /\ ToSet(wire'[t]) = ToSet(wire[t]) \cup {event}
  BY SendFacts DEF TypeOK
<1> SUFFICES ASSUME NEW u \in Turns
             PROVE  /\ wire'[u] # <<>> =>
                         u \in done' \/ (u = running' /\ (phase' # "taken" \/ cancelReq'))
                    /\ "cancelled" \in ToSet(wire'[u]) =>
                         \/ u \in done'
                         \/ u = running' /\ (cancelReq' \/ phase' \in {"failing", "cancelling", "done"})
                    /\ u \in bound' => ToSet(wire'[u]) \cap {"complete", "failed"} = {}
                    /\ \A i \in DOMAIN wire'[u] : wire'[u][i] = "start" => i = 1
  BY DEF WireHistory, Told
<1>2. CASE u # t
  <2>1. wire'[u] = wire[u] /\ (u = running => UNCHANGED <<phase, cancelReq>>)
    BY <1>1, <1>2
  <2>2. wire'[u] # <<>> =>
          u \in done' \/ (u = running' /\ (phase' # "taken" \/ cancelReq'))
    BY <2>1 DEF WireHistory
  <2>3. "cancelled" \in ToSet(wire'[u]) =>
          \/ u \in done'
          \/ u = running' /\ (cancelReq' \/ phase' \in {"failing", "cancelling", "done"})
    BY <2>1 DEF WireHistory
  <2>4. u \in bound' => ToSet(wire'[u]) \cap {"complete", "failed"} = {}
    BY <2>1 DEF WireHistory, Told
  <2> QED
    BY <2>1, <2>2, <2>3, <2>4 DEF WireHistory
<1>3. CASE u = t
  <2>1. u \in bound' => ToSet(wire'[u]) \cap {"complete", "failed"} = {}
    BY <1>1, <1>3 DEF WireHistory, Told
  <2>2. \A i \in DOMAIN wire'[t] : wire'[t][i] = "start" => i = 1
    <3> SUFFICES ASSUME NEW i \in DOMAIN wire'[t], wire'[t][i] = "start" PROVE i = 1
      OBVIOUS
    <3>1. CASE i \in DOMAIN wire[t]
      BY <1>1, <3>1 DEF WireHistory
    <3>2. CASE i \notin DOMAIN wire[t]
      <4>1. i = Len(wire[t]) + 1
        BY <1>1, <3>2
      <4> QED
        BY <1>1, <4>1
    <3> QED
      BY <3>1, <3>2
  <2> QED
    BY <1>1, <1>3, <2>1, <2>2
<1> QED
  BY <1>2, <1>3

\* What a submission does to the lane: one new turn, at the end of the queue.
LEMMA EnqueueFacts ==
  ASSUME TypeOK, LaneOrder, NEW o \in {"user", "system"}, Enqueue(o)
  PROVE  LET new == Len(origin) + 1
         IN /\ new \notin Accepted /\ new # None /\ new \in Turns
            /\ origin' \in Seq({"user", "system"}) /\ Len(origin') = new /\ Len(origin') <= MaxTurns
            /\ Accepted' = Accepted \cup {new}
            /\ origin'[new] = o /\ \A t \in Accepted : origin'[t] = origin[t]
            /\ queue' \in Seq(Accepted') /\ IsInjective(queue')
            /\ ToSet(queue') = ToSet(queue) \cup {new}
            /\ UNCHANGED <<running, phase, cancelReq, done>>
<1> DEFINE new == Len(origin) + 1
<1>1. /\ Len(origin) < MaxTurns /\ origin' = Append(origin, o)
      /\ queue' = Append(queue, Len(origin'))
      /\ UNCHANGED <<running, phase, cancelReq, done>>
  BY DEF Enqueue
<1>2. origin \in Seq({"user", "system"})
  BY DEF TypeOK
<1>3. Accepted = 1 .. Len(origin) /\ Len(origin) \in Nat /\ ToSet(queue) \subseteq Accepted
  BY LaneFacts
<1>4. /\ new \notin Accepted /\ new # None /\ new \in Turns
      /\ origin' \in Seq({"user", "system"}) /\ Len(origin') = new /\ Len(origin') <= MaxTurns
      /\ Accepted' = Accepted \cup {new}
      /\ origin'[new] = o /\ \A t \in Accepted : origin'[t] = origin[t]
  BY <1>1, <1>2, <1>3, TuiAssumption DEF Accepted, None, Turns
<1>5. queue \in Seq(Accepted') /\ new \in Accepted'
  BY <1>4 DEF TypeOK
<1>6. /\ ToSet(Append(queue, new)) = ToSet(queue) \cup {new}
      /\ IsInjective(Append(queue, new))
  BY <1>3, <1>4, <1>5, AppendSet DEF LaneOrder
<1>7. queue' \in Seq(Accepted')
  BY <1>1, <1>4, <1>5
<1> QED
  BY <1>1, <1>4, <1>6, <1>7

\* A submission adds a turn that nothing is known of; turn.send gives it the
\* slot, which is free, and the lane has nothing else to do.
LEMMA SubmitStep ==
  ASSUME LaneInv, BrokerTypeOK', SystemSubmit \/ TurnSend
  PROVE  LaneInv'
<1> DEFINE new == Len(origin) + 1
<1> USE DEF LaneInv
<1>1. PICK o \in {"user", "system"} :
        /\ Enqueue(o)
        /\ o = "user" => slot = None /\ running = None /\ queue = <<>>
        /\ o = "user" => slot' = Len(origin') /\ bound' = bound \cup {Len(origin')}
        /\ o = "system" => UNCHANGED <<slot, bound>>
  BY DEF SystemSubmit, TurnSend, bindVars, HasPendingOrRunning
<1>2. UNCHANGED <<runningReq, waiting, hub, shown, wire, leaked, cut, link>>
  BY DEF SystemSubmit, TurnSend, bindVars, wireVars, still
<1>3. /\ new \notin Accepted /\ new # None /\ new \in Turns
      /\ origin' \in Seq({"user", "system"}) /\ Len(origin') = new /\ Len(origin') <= MaxTurns
      /\ Accepted' = Accepted \cup {new}
      /\ origin'[new] = o /\ \A t \in Accepted : origin'[t] = origin[t]
      /\ queue' \in Seq(Accepted') /\ IsInjective(queue')
      /\ ToSet(queue') = ToSet(queue) \cup {new}
      /\ UNCHANGED <<running, phase, cancelReq, done>>
  BY <1>1, EnqueueFacts
<1> HIDE DEF new
<1>4. TypeOK'
  <2>1. waiting' \in [Callers -> Accepted' \cup {None}]
    BY <1>2, <1>3 DEF TypeOK
  <2>2. hub' \in Seq(Accepted')
    BY <1>2, <1>3 DEF TypeOK
  <2> QED
    BY <1>1, <1>2, <1>3, <2>1, <2>2 DEF TypeOK
<1>5. new \notin done /\ running # new /\ new \notin bound /\ slot # new
  BY <1>3 DEF TypeOK
<1>6. LaneOrder'
  BY <1>3, <1>5 DEF LaneOrder
<1>7. Correlated' /\ HubKept' /\ StreamsKeptApart'
  BY <1>1, <1>2, <1>3, <1>5 DEF Correlated, HubKept, StreamsKeptApart
<1>8. wire[new] = <<>>
  BY <1>3, <1>5 DEF WireHistory
<1>9. WireHistory'
  BY <1>1, <1>2, <1>3, <1>8, EmptySet DEF WireHistory, Told
<1>10. ReleasePending'
  BY <1>1, <1>2, <1>3 DEF ReleasePending
<1>11. /\ \A t : Contains(queue, t) <=> t \in ToSet(queue)
       /\ \A t : Contains(queue', t) <=> t \in ToSet(queue')
       /\ None \notin Accepted
  BY <1>3, ContainsSet, LaneFacts DEF TypeOK
<1>12. SlotFollowsTurn'
  <2>1. CASE o = "system"
    <3>1. ~(slot' \in done' /\ slot = new)
      BY <1>3, <1>5
    <3> QED
      BY <1>1, <1>2, <1>3, <1>5, <1>11, <2>1 DEF SlotFollowsTurn
  <2>2. CASE o = "user"
    <3>1. ToSet(queue) = {}
      BY <1>1, <2>2, EmptySet
    <3>2. \A t \in Accepted' : t \in ToSet(queue') \/ t = running' => t = new
      BY <1>1, <1>3, <1>11, <2>2, <3>1
    <3> QED
      BY <1>1, <1>2, <1>3, <1>5, <1>11, <2>2, <3>2 DEF SlotFollowsTurn
  <2> QED
    BY <2>1, <2>2
<1> QED
  BY <1>4, <1>6, <1>7, <1>9, <1>10, <1>12

\* What the worker takes: nothing, or the head of the queue.
LEMMA TakeFacts ==
  ASSUME TypeOK, LaneOrder, Take(queue)
  PROVE  /\ queue' \in Seq(Accepted) /\ IsInjective(queue')
         /\ \/ running' = None /\ phase' = "idle" /\ queue = <<>> /\ ToSet(queue') = {}
            \/ /\ running' \in Accepted /\ phase' = "taken"
               /\ running' \in ToSet(queue) /\ ToSet(queue') = ToSet(queue) \ {running'}
<1>1. CASE queue = <<>>
  BY <1>1, EmptySet DEF Take, TypeOK, LaneOrder
<1>2. CASE queue # <<>>
  <2>1. /\ Head(queue) \in Accepted /\ Tail(queue) \in Seq(Accepted)
        /\ ToSet(Tail(queue)) = ToSet(queue) \ {Head(queue)}
        /\ Head(queue) \in ToSet(queue) /\ IsInjective(Tail(queue))
    BY <1>2, HeadTailType, TailSet DEF TypeOK, LaneOrder
  <2> QED
    BY <1>2, <2>1 DEF Take
<1> QED
  BY <1>1, <1>2

\* The worker goes on to the next turn.  A turn that still has the slot when
\* it is collected has a turn.cancel call waiting for it.
LEMMA WorkerStep ==
  ASSUME LaneInv, BrokerTypeOK', Lane
  PROVE  LaneInv'
<1> USE DEF LaneInv
<1>1. /\ Take(queue)
      /\ UNCHANGED <<origin, slot, bound, runningReq, waiting, hub, shown, wire, leaked, cut, link>>
  BY DEF Lane, WorkerStart, WorkerCollect, bindVars, wireVars, still
<1>2. \/ running = None /\ UNCHANGED <<cancelReq, done>>
      \/ phase = "done" /\ done' = done \cup {running} /\ cancelReq' = FALSE
  BY DEF Lane, WorkerStart, WorkerCollect
<1>3. /\ queue' \in Seq(Accepted) /\ IsInjective(queue')
      /\ \/ running' = None /\ phase' = "idle" /\ queue = <<>> /\ ToSet(queue') = {}
         \/ /\ running' \in Accepted /\ phase' = "taken"
            /\ running' \in ToSet(queue) /\ ToSet(queue') = ToSet(queue) \ {running'}
  BY <1>1, TakeFacts
<1>4. Accepted' = Accepted /\ None \notin Accepted
  BY <1>1, LaneFacts DEF Accepted
<1>5. phase = "done" => running \in Accepted
  BY DEF TypeOK
<1>6. TypeOK'
  BY <1>1, <1>2, <1>3, <1>4, <1>5 DEF TypeOK, Phases
<1>7. /\ ToSet(queue') \subseteq ToSet(queue) /\ running' \notin ToSet(queue')
      /\ running' # None => running' \in ToSet(queue)
      /\ cancelReq' = FALSE
  BY <1>2, <1>3, <1>4, LaneFacts DEF LaneOrder, TypeOK
<1>8. LaneOrder'
  BY <1>2, <1>3, <1>4, <1>5, <1>7, LaneFacts DEF LaneOrder, TypeOK
<1>9. Correlated' /\ ReleasePending' /\ StreamsKeptApart'
  BY <1>1, <1>3, <1>7 DEF Correlated, Active, Terminal, ReleasePending, StreamsKeptApart
<1>10. WireHistory'
  <2>1. None \notin Turns
    BY DEF None, Turns
  <2>2. \A t \in Turns : wire[t] # <<>> => t \in done'
    BY <1>2, <1>3, <2>1 DEF WireHistory, TypeOK
  <2>3. \A t \in Turns : "cancelled" \in ToSet(wire[t]) => wire[t] # <<>>
    BY EmptySet
  <2> QED
    BY <1>1, <2>2, <2>3 DEF WireHistory, Told
<1>11. HubKept'
  BY <1>1, <1>2, <1>4 DEF HubKept, Active, Terminal, TypeOK
<1>12. /\ \A t : Contains(queue, t) <=> t \in ToSet(queue)
       /\ \A t : Contains(queue', t) <=> t \in ToSet(queue')
  BY <1>3, ContainsSet DEF TypeOK
<1>13. \A t \in Accepted' :
         origin'[t] = "user" /\ (Contains(queue', t) \/ (t = running' /\ phase' # "done"))
           => slot' = t
  BY <1>1, <1>4, <1>7, <1>12 DEF SlotFollowsTurn
<1>14. link' = "up" /\ slot' \in done' => \E c \in Callers : waiting'[c] = slot'
  BY <1>1, <1>2, <1>5, <1>4 DEF SlotFollowsTurn, ReleasePending
<1>15. SlotFollowsTurn'
  BY <1>13, <1>14 DEF SlotFollowsTurn
<1> QED
  BY <1>6, <1>8, <1>9, <1>10, <1>11, <1>15

\* A step of the payload task that only moves it on: the runner leaves, a
\* question begins or ends, or the task is over because it was cancelled.
LEMMA PhaseStep ==
  ASSUME LaneInv, BrokerTypeOK',
         CancelledEarly \/ RunnerLeaves \/ AskUser \/ Answered \/ AskCancelled \/ SinkCut
  PROVE  LaneInv'
<1> USE DEF LaneInv
<1>1. UNCHANGED <<origin, queue, running, done, slot, bound, runningReq, waiting,
                  hub, shown, wire, leaked, link>>
  BY DEF CancelledEarly, RunnerLeaves, AskUser, Answered, AskCancelled, SinkCut,
         bindVars, wireVars, still
<1>2. Accepted' = Accepted
  BY <1>1 DEF Accepted
<1>3. /\ phase # "idle" /\ running # None
      /\ \/ /\ cancelReq /\ phase' = "done" /\ UNCHANGED cancelReq
            /\ phase = "taken" \/ cut' = cut \cup {running}
            /\ cut' \in {cut, cut \cup {running}}
         \/ /\ phase \in {"running", "asking"} /\ phase' \in Active
            /\ UNCHANGED cut
            /\ \/ UNCHANGED cancelReq /\ phase' \in {"running", "asking"}
               \/ /\ cancelReq' = FALSE
                  /\ phase' = "ending" => ~cancelReq
                  /\ phase' \in Terminal
  BY DEF CancelledEarly, RunnerLeaves, AskUser, Answered, AskCancelled, SinkCut,
         wireVars, Active, Terminal, TypeOK
<1>4. TypeOK'
  <2>1. cut' \subseteq Accepted
    BY <1>3 DEF TypeOK
  <2>2. phase' \in Phases /\ phase' # "idle" /\ cancelReq' \in BOOLEAN
    BY <1>3 DEF TypeOK, Phases, Active, Terminal
  <2> QED
    BY <1>1, <1>2, <1>3, <2>1, <2>2 DEF TypeOK
<1>5. LaneOrder' /\ Correlated'
  BY <1>1, <1>3 DEF LaneOrder, Correlated, Active, Terminal
<1>6. ReleasePending' /\ StreamsKeptApart'
  BY <1>1, <1>3 DEF ReleasePending, StreamsKeptApart, Active, Terminal
<1>7. WireHistory'
  BY <1>1, <1>3 DEF WireHistory, Told, Active, Terminal
<1>8. HubKept'
  BY <1>1, <1>3 DEF HubKept, Active, Terminal
<1>9. SlotFollowsTurn'
  BY <1>1, <1>2, <1>3 DEF SlotFollowsTurn, Active, Terminal
<1> QED
  BY <1>4, <1>5, <1>6, <1>7, <1>8, <1>9

\* The runner begins: nothing has been said of the turn yet, and no token of
\* an earlier one is left but those of a turn that was cut.
LEMMA RunnerStartStep ==
  ASSUME LaneInv, BrokerTypeOK', RunnerStart
  PROVE  LaneInv'
<1> USE DEF LaneInv
<1>1. /\ UNCHANGED <<origin, queue, running, cancelReq, done, slot, bound, waiting,
                     hub, leaked, cut, link>>
      /\ phase = "taken" /\ ~cancelReq /\ phase' = "running" /\ runningReq' = running
      /\ IF running \in bound
           THEN Send(running, "start") /\ shown' = running
           ELSE UNCHANGED <<wire, shown>>
  BY DEF RunnerStart, still
<1>2. Accepted' = Accepted /\ running \in Accepted /\ running \in Turns /\ running # None
  BY <1>1, LaneFacts DEF Accepted, TypeOK
<1>3. wire' \in [Turns -> Seq(Events)] /\ shown' \in Accepted \cup {None}
  BY <1>1, <1>2, SendFacts DEF TypeOK, Events
<1>4. TypeOK'
  BY <1>1, <1>2, <1>3 DEF TypeOK, Phases
<1>5. LaneOrder' /\ ReleasePending' /\ StreamsKeptApart'
  BY <1>1 DEF LaneOrder, ReleasePending, StreamsKeptApart
<1>6. wire[running] = <<>>
  BY <1>1, <1>2 DEF WireHistory, LaneOrder
<1>7. Correlated'
  BY <1>1, <1>2, <1>6, SendFacts DEF Correlated, Events
<1>8. WireHistory'
  <2>1. CASE running \in bound
    <3>1. "cancelled" \notin ToSet(wire[running])
      BY <1>6, EmptySet
    <3> QED
      BY <1>1, <1>2, <1>6, <2>1, <3>1, SendHistory DEF Events
  <2>2. CASE running \notin bound
    BY <1>1, <2>2 DEF WireHistory, Told
  <2> QED
    BY <2>1, <2>2
<1>9. HubKept'
  BY <1>1 DEF HubKept, Active, Terminal
<1>10. SlotFollowsTurn'
  BY <1>1, <1>2 DEF SlotFollowsTurn
<1> QED
  BY <1>4, <1>5, <1>7, <1>8, <1>9, <1>10

\* A token of the running turn, whose message is on show, joins the queue; a
\* token leaves it and is shown in that message, or its turn was cut.
LEMMA TokenStep ==
  ASSUME LaneInv, BrokerTypeOK', EmitToken \/ HubDeliver
  PROVE  LaneInv'
<1> USE DEF LaneInv
<1>1. UNCHANGED <<origin, queue, running, phase, cancelReq, done, slot, bound, runningReq,
                  waiting, shown, wire, cut, link>>
  BY DEF EmitToken, HubDeliver, laneVars, bindVars, still
<1>2. Accepted' = Accepted
  BY <1>1 DEF Accepted
<1>3. hub' \in Seq(Accepted) /\ Len(hub') <= HubMax /\ HubKept' /\ leaked' \subseteq leaked \cup cut
  <2>1. CASE EmitToken
    <3>1. /\ phase = "running" /\ running \in bound /\ running \in Accepted
          /\ hub \in Seq(Accepted) /\ Len(hub) < HubMax /\ hub' = Append(hub, running)
          /\ leaked' = leaked
      BY <2>1 DEF EmitToken, TypeOK
    <3>2. hub' \in Seq(Accepted) /\ Len(hub') <= HubMax
      BY <3>1, TuiAssumption
    <3>3. \A i \in DOMAIN hub' : (i \in DOMAIN hub /\ hub'[i] = hub[i]) \/ hub'[i] = running
      BY <3>1
    <3> QED
      BY <1>1, <3>1, <3>2, <3>3 DEF HubKept, Active
  <2>2. CASE HubDeliver
    <3>1. /\ hub # <<>> /\ hub' = Tail(hub)
          /\ leaked' = IF shown # Head(hub) \/ Told(Head(hub))
                         THEN leaked \cup {Head(hub)} ELSE leaked
      BY <2>2 DEF HubDeliver
    <3>2. hub \in Seq(Accepted) /\ Len(hub) <= HubMax
      BY DEF TypeOK
    <3>3. /\ hub' \in Seq(Accepted) /\ Len(hub') <= HubMax
          /\ Head(hub) = hub[1] /\ 1 \in DOMAIN hub
          /\ \A i \in DOMAIN hub' : i + 1 \in DOMAIN hub /\ hub'[i] = hub[i + 1]
      BY <3>1, <3>2, TuiAssumption
    <3>4. HubKept'
      BY <1>1, <3>3 DEF HubKept
    <3>5. leaked' \subseteq leaked \cup cut
      <4>1. CASE hub[1] \in cut
        BY <3>1, <3>3, <4>1
      <4>2. CASE hub[1] \notin cut
        <5>1. hub[1] = running /\ phase \in Active /\ running \in bound
          BY <3>3, <4>2 DEF HubKept
        <5>2. shown = running /\ running \in Turns
          BY <5>1, LaneFacts DEF Correlated, TypeOK
        <5>3. ~Told(running)
          BY <5>1, <5>2 DEF WireHistory
        <5> QED
          BY <3>1, <3>3, <5>1, <5>2, <5>3
      <4> QED
        BY <4>1, <4>2
    <3> QED
      BY <3>3, <3>4, <3>5
  <2> QED
    BY <2>1, <2>2
<1>4. StreamsKeptApart' /\ leaked' \subseteq Accepted
  BY <1>1, <1>3 DEF StreamsKeptApart, TypeOK
<1>5. TypeOK'
  BY <1>1, <1>2, <1>3, <1>4 DEF TypeOK
<1>6. LaneOrder' /\ Correlated' /\ ReleasePending' /\ WireHistory'
  BY <1>1 DEF LaneOrder, Correlated, ReleasePending, WireHistory, Told
<1>7. SlotFollowsTurn'
  BY <1>1, <1>2 DEF SlotFollowsTurn
<1> QED
  BY <1>3, <1>4, <1>5, <1>6, <1>7

\* The sink ends the turn that ran: all its tokens are shown, the slot and the
\* ids it drops are that turn's, and a later turn keeps its own.
LEMMA SinkEndsStep ==
  ASSUME LaneInv, BrokerTypeOK', SinkEnds
  PROVE  LaneInv'
<1> USE DEF LaneInv
<1>1. /\ UNCHANGED <<origin, queue, running, cancelReq, done, waiting, hub, shown, leaked, cut, link>>
      /\ phase \in Terminal /\ ~cancelReq /\ hub = <<>> /\ phase' = "done"
  BY DEF SinkEnds, Rendered, still
<1>2. Accepted' = Accepted /\ runningReq = running /\ running \in Accepted /\ running \in Turns
      /\ running # None
  BY <1>1, LaneFacts DEF Accepted, Correlated, Active, TypeOK, Terminal
<1>3. /\ runningReq' = None /\ bound' = bound \ {running}
      /\ slot' = IF slot = running THEN None ELSE slot
      /\ \/ UNCHANGED wire
         \/ \E e \in {"complete", "failed"} : Send(running, e) /\ wire[running] # <<>>
  BY <1>1, <1>2 DEF SinkEnds, ClearActive, Correlated, Active
<1>4. wire' \in [Turns -> Seq(Events)]
  BY <1>2, <1>3, SendFacts DEF TypeOK, Events
<1>5. TypeOK'
  BY <1>1, <1>2, <1>3, <1>4 DEF TypeOK, Phases
<1>6. LaneOrder' /\ Correlated' /\ ReleasePending' /\ StreamsKeptApart' /\ HubKept'
  BY <1>1, <1>2, <1>3 DEF LaneOrder, Correlated, Active, Terminal, ReleasePending,
                          StreamsKeptApart, HubKept
<1>7. WireHistory'
  <2>1. CASE UNCHANGED wire
    BY <1>1, <1>3, <2>1 DEF WireHistory, Told
  <2>2. ASSUME NEW e \in {"complete", "failed"}, Send(running, e), wire[running] # <<>>
        PROVE  WireHistory'
    BY <1>1, <1>2, <1>3, <2>2, SendHistory DEF Events
  <2> QED
    BY <1>3, <2>1, <2>2
<1>8. \A t : Contains(queue, t) <=> t \in ToSet(queue)
  BY ContainsSet DEF TypeOK
<1>9. SlotFollowsTurn'
  <2>1. \A t \in Accepted :
          origin[t] = "user" /\ Contains(queue, t) => slot = t /\ t # running
    BY <1>8 DEF SlotFollowsTurn, LaneOrder
  <2>2. None \notin done
    BY LaneFacts DEF TypeOK
  <2> QED
    BY <1>1, <1>2, <1>3, <2>1, <2>2 DEF SlotFollowsTurn
<1> QED
  BY <1>5, <1>6, <1>7, <1>9

\* turn.cancel of a turn that is queued or resolved: it leaves the queue, and
\* the slot and the ids are dropped in the same step.
LEMMA CancelAtOnceStep ==
  ASSUME LaneInv, BrokerTypeOK', CancelAtOnce
  PROVE  LaneInv'
<1> USE DEF LaneInv
<1>1. /\ UNCHANGED <<origin, running, phase, cancelReq, runningReq, waiting, hub, shown,
                     leaked, cut, link>>
      /\ slot # None /\ slot # running
      /\ done' = done \cup {slot} /\ Send(slot, "cancelled")
      /\ slot' = None /\ bound' = bound \ {slot}
  BY DEF CancelAtOnce, SendCancelled, Released, ClearActive, still
<1>2. Accepted' = Accepted /\ slot \in Accepted /\ slot \in Turns /\ None \notin Accepted
  BY <1>1, LaneFacts DEF Accepted, TypeOK
<1>3. \A t : Contains(queue, t) <=> t \in ToSet(queue)
  BY ContainsSet DEF TypeOK
<1>4. /\ queue' \in Seq(Accepted) /\ IsInjective(queue')
      /\ ToSet(queue') = ToSet(queue) \ {slot}
  <2>1. CASE Contains(queue, slot)
    <3>1. PICK i \in DOMAIN queue : queue[i] = slot /\ queue' = RemoveAt(queue, i)
      BY <2>1 DEF CancelAtOnce
    <3>2. queue \in Seq(Accepted) /\ i \in 1 .. Len(queue) /\ IsInjective(queue)
      BY <3>1 DEF TypeOK, LaneOrder
    <3> QED
      BY <3>1, <3>2, RemoveAtType, RemoveAtSet
  <2>2. CASE ~Contains(queue, slot)
    BY <1>3, <2>2 DEF CancelAtOnce, TypeOK, LaneOrder
  <2> QED
    BY <2>1, <2>2
<1>5. wire' \in [Turns -> Seq(Events)]
  BY <1>1, <1>2, SendFacts DEF Events
<1>6. TypeOK'
  BY <1>1, <1>2, <1>4, <1>5 DEF TypeOK
<1>7. LaneOrder' /\ ReleasePending' /\ StreamsKeptApart' /\ HubKept'
  BY <1>1, <1>4 DEF LaneOrder, ReleasePending, StreamsKeptApart, HubKept
<1>8. Correlated'
  <2>1. phase \in Active => running \in Turns
    BY LaneFacts DEF TypeOK, Active, Terminal
  <2>2. phase \in Active => wire'[running] = wire[running]
    BY <1>1, <1>2, <2>1, SendFacts DEF Events
  <2> QED
    BY <1>1, <2>2 DEF Correlated
<1>9. WireHistory'
  BY <1>1, <1>2, SendHistory DEF Events
<1>10. \A t : Contains(queue', t) <=> t \in ToSet(queue')
  BY <1>4, ContainsSet
<1>11. None \notin done'
  BY <1>1, <1>2 DEF TypeOK
<1>12. SlotFollowsTurn'
  BY <1>1, <1>2, <1>3, <1>4, <1>10, <1>11 DEF SlotFollowsTurn
<1> QED
  BY <1>6, <1>7, <1>8, <1>9, <1>12

\* turn.cancel of the running turn: from here on its call waits for the turn.
LEMMA CancelRunningStep ==
  ASSUME LaneInv, BrokerTypeOK', NEW c \in Callers, CancelRunning(c)
  PROVE  LaneInv'
<1> USE DEF LaneInv
<1>1. /\ UNCHANGED <<origin, queue, running, phase, done, slot, bound, runningReq, hub, shown,
                     leaked, cut, link>>
      /\ slot # None /\ slot = running
      /\ cancelReq' = (cancelReq \/ phase # "done")
      /\ Send(slot, "cancelled")
      /\ waiting' = [waiting EXCEPT ![c] = slot]
      /\ waiting[c] = None
  BY DEF CancelRunning, SendCancelled, still
<1>2. Accepted' = Accepted /\ slot \in Accepted /\ slot \in Turns /\ None \notin Accepted
  BY <1>1, LaneFacts DEF Accepted, TypeOK
<1>3. /\ wire' \in [Turns -> Seq(Events)]
      /\ waiting' \in [Callers -> Accepted \cup {None}]
      /\ waiting'[c] = slot
      /\ \A d \in Callers : waiting[d] = slot => waiting'[d] = slot
  BY <1>1, <1>2, SendFacts DEF TypeOK, Events
<1>4. TypeOK'
  BY <1>1, <1>2, <1>3 DEF TypeOK
<1>5. LaneOrder' /\ StreamsKeptApart' /\ HubKept' /\ ReleasePending'
  BY <1>1, <1>3 DEF LaneOrder, StreamsKeptApart, HubKept, ReleasePending
<1>6. Correlated'
  BY <1>1, <1>2, SendFacts DEF Correlated, TypeOK, Events
<1>7. WireHistory'
  <2>1. phase \in {"taken", "done", "running", "asking"} \cup Terminal
    BY <1>1, <1>2 DEF TypeOK, Phases
  <2> QED
    BY <1>1, <1>2, <2>1, SendHistory DEF Events, Terminal
<1>8. SlotFollowsTurn'
  BY <1>1, <1>2, <1>3 DEF SlotFollowsTurn
<1> QED
  BY <1>4, <1>5, <1>6, <1>7, <1>8

\* The call returns when its turn is over: what it drops is that turn's, even
\* if a later turn has the slot by then.
LEMMA CancelReturnsStep ==
  ASSUME LaneInv, BrokerTypeOK', NEW c \in Callers, CancelReturns(c)
  PROVE  LaneInv'
<1> DEFINE t0 == waiting[c]
<1> USE DEF LaneInv
<1>1. /\ UNCHANGED <<origin, queue, running, phase, cancelReq, done, runningReq, hub, shown,
                     wire, leaked, cut, link>>
      /\ t0 \in done
      /\ slot' = (IF slot = t0 THEN None ELSE slot) /\ bound' = bound \ {t0}
      /\ waiting' = [waiting EXCEPT ![c] = None]
  BY DEF CancelReturns, Released, ClearActive, laneVars, wireVars, still
<1>2. Accepted' = Accepted /\ t0 \in Accepted /\ None \notin Accepted
  BY <1>1, LaneFacts DEF Accepted, TypeOK
<1>3. /\ waiting' \in [Callers -> Accepted \cup {None}]
      /\ \A d \in Callers : waiting[d] # t0 => waiting'[d] = waiting[d]
  BY <1>1 DEF TypeOK
<1> HIDE DEF t0
<1>4. TypeOK'
  BY <1>1, <1>2, <1>3 DEF TypeOK
<1>5. LaneOrder' /\ StreamsKeptApart' /\ WireHistory' /\ Correlated'
  BY <1>1 DEF LaneOrder, StreamsKeptApart, WireHistory, Told, Correlated
<1>6. t0 # running /\ t0 \notin ToSet(queue)
  BY <1>1 DEF LaneOrder
<1>7. HubKept'
  BY <1>1, <1>6 DEF HubKept
<1>8. ReleasePending'
  BY <1>1, <1>3, <1>6 DEF ReleasePending
<1>9. \A t : Contains(queue, t) <=> t \in ToSet(queue)
  BY ContainsSet DEF TypeOK
<1>10. SlotFollowsTurn'
  <2>1. None \notin done
    BY <1>2 DEF TypeOK
  <2> QED
    BY <1>1, <1>2, <1>3, <1>6, <1>9, <2>1 DEF SlotFollowsTurn
<1> QED
  BY <1>4, <1>5, <1>7, <1>8, <1>10

\* The connection goes down and the host cleans up: no slot is owed to anyone
\* then, and a drained turn is over.
LEMMA LinkStep ==
  ASSUME LaneInv, BrokerTypeOK', Hangup \/ Teardown
  PROVE  LaneInv'
<1> USE DEF LaneInv
<1>1. /\ UNCHANGED <<origin, running, phase, slot, bound, runningReq, hub, shown, wire, leaked, cut>>
      /\ link' \in {"down", "torn"}
      /\ waiting' \in {waiting, [c \in Callers |-> None]}
      /\ \/ UNCHANGED <<queue, done, cancelReq>>
         \/ queue' = <<>> /\ done' = done \cup Range(queue) /\ cancelReq' = (running # None /\ phase # "done")
  BY DEF Hangup, Teardown, laneVars, bindVars, wireVars
<1>2. Accepted' = Accepted
  BY <1>1 DEF Accepted
<1>3. Range(queue) = ToSet(queue)
  BY DEF Range, ToSet
<1>4. /\ queue' \in Seq(Accepted) /\ IsInjective(queue')
      /\ ToSet(queue') \subseteq ToSet(queue)
      /\ done \subseteq done' /\ done' \subseteq done \cup ToSet(queue)
      /\ ToSet(queue') \cap done' = {}
      /\ cancelReq' \in BOOLEAN
  <2>1. cancelReq' \in BOOLEAN
    BY <1>1 DEF TypeOK
  <2>2. CASE UNCHANGED <<queue, done>>
    BY <2>1, <2>2 DEF TypeOK, LaneOrder
  <2>3. CASE queue' = <<>> /\ done' = done \cup Range(queue)
    BY <1>3, <2>1, <2>3, EmptySet
  <2> QED
    BY <1>1, <2>2, <2>3
<1>5. cancelReq => cancelReq' \/ phase = "done"
  BY <1>1 DEF LaneOrder
<1>6. TypeOK'
  <2>1. waiting' \in [Callers -> Accepted \cup {None}]
    BY <1>1 DEF TypeOK
  <2> QED
    BY <1>1, <1>2, <1>4, <2>1, LaneFacts DEF TypeOK
<1>7. LaneOrder'
  BY <1>1, <1>3, <1>4 DEF LaneOrder
<1>8. Correlated' /\ ReleasePending' /\ StreamsKeptApart' /\ HubKept'
  BY <1>1 DEF Correlated, ReleasePending, StreamsKeptApart, HubKept
<1>9. WireHistory'
  BY <1>1, <1>4, <1>5 DEF WireHistory, Told
<1>10. /\ \A t : Contains(queue, t) <=> t \in ToSet(queue)
       /\ \A t : Contains(queue', t) <=> t \in ToSet(queue')
  BY <1>4, ContainsSet DEF TypeOK
<1>11. SlotFollowsTurn'
  BY <1>1, <1>2, <1>4, <1>10 DEF SlotFollowsTurn
<1> QED
  BY <1>6, <1>7, <1>8, <1>9, <1>11

\* A step that touches neither the lane nor the slot nor the wire.
LEMMA QuietLaneStep ==
  ASSUME LaneInv, BrokerTypeOK', UNCHANGED <<laneVars, bindVars, wireVars>>,
         link' \in {link, "swept"}
  PROVE  LaneInv'
<1> USE DEF LaneInv
<1>1. UNCHANGED <<origin, queue, running, phase, cancelReq, done, slot, bound, runningReq,
                  waiting, hub, shown, wire, leaked, cut>>
  BY DEF laneVars, bindVars, wireVars
<1>2. Accepted' = Accepted
  BY <1>1 DEF Accepted
<1>3. TypeOK'
  BY <1>1, <1>2 DEF TypeOK
<1>4. LaneOrder' /\ Correlated' /\ StreamsKeptApart' /\ HubKept' /\ WireHistory'
  BY <1>1 DEF LaneOrder, Correlated, StreamsKeptApart, HubKept, WireHistory, Told
<1>5. ReleasePending' /\ SlotFollowsTurn'
  BY <1>1, <1>2 DEF ReleasePending, SlotFollowsTurn
<1> QED
  BY <1>3, <1>4, <1>5

\* Every step keeps the invariant.
LEMMA NextTui == TuiInv /\ [Next]_vars => TuiInv'
<1> SUFFICES ASSUME TuiInv, [Next]_vars PROVE TuiInv'
  OBVIOUS
<1>1. BrokerInv' /\ BrokerTypeOK' /\ LaneInv
  BY NextBroker DEF TuiInv, BrokerInv
<1>2. CASE UNCHANGED vars
  BY <1>1, <1>2, QuietLaneStep DEF vars, still, TuiInv
<1>3. CASE Client
  BY <1>1, <1>3, SubmitStep, CancelAtOnceStep, LinkStep, CancelRunningStep, QuietLaneStep
     DEF Client, ClarifyRespond, TuiInv
<1>4. CASE Lane
  BY <1>1, <1>4, WorkerStep DEF TuiInv
<1>5. CASE Payload
  BY <1>1, <1>5, RunnerStartStep, SinkEndsStep, PhaseStep DEF Payload, TuiInv
<1>6. CASE Cleanup
  BY <1>1, <1>6, LinkStep, QuietLaneStep DEF Cleanup, Sweep, TuiInv
<1>7. CASE EmitToken \/ RunnerLeaves \/ AskUser \/ Asking \/ HubDeliver
  BY <1>1, <1>7, TokenStep, PhaseStep, QuietLaneStep DEF Asking, TuiInv
<1>8. CASE \E c \in Callers : CancelReturns(c)
  BY <1>1, <1>8, CancelReturnsStep DEF TuiInv
<1> QED
  BY <1>2, <1>3, <1>4, <1>5, <1>6, <1>7, <1>8 DEF Next

-----------------------------------------------------------------------------
(* Theorems. *)

\* The tables of the front end name only submitted turns, the slot of a
\* session always has its ids bound, and the hub's queue stays in its bound.
THEOREM TuiTyped == Safety => []TypeOK
<1>1. TuiInv => TypeOK
  BY DEF TuiInv, LaneInv
<1> QED
  BY <1>1, InitTui, NextTui, PTL DEF Safety

\* turn.send, turn.cancel, the sink and the system turns of the lane agree on
\* the session's slot, however many turns are submitted and however many
\* turn.cancel calls are suspended: a user turn under way owns it, and a turn
\* that is over owns it only while a call is about to release it.
THEOREM SlotIsTheTurns == Safety => []SlotFollowsTurn
<1>1. TuiInv => SlotFollowsTurn
  BY DEF TuiInv, LaneInv
<1> QED
  BY <1>1, InitTui, NextTui, PTL DEF Safety

\* The render barrier of the sink keeps every token in the message of its own
\* turn, for a hub queue of any length; only a turn cancelled again while the
\* sink waits is exempt.
THEOREM MessagesKeptApart == Safety => []StreamsKeptApart
<1>1. TuiInv => StreamsKeptApart
  BY DEF TuiInv, LaneInv
<1> QED
  BY <1>1, InitTui, NextTui, PTL DEF Safety

\* The two registries of the broker agree: clarify.respond by request id
\* completes the question it names or none, and by conversation id the last
\* question of that conversation, which is not older than the one its sender
\* was asked.
THEOREM AnswersMatch == Safety => []AnswersTheQuestion
<1>1. TuiInv => AnswersTheQuestion
  BY DEF TuiInv, BrokerInv
<1> QED
  BY <1>1, InitTui, NextTui, PTL DEF Safety

\* What the subscribers of a session are told of a turn is told in order:
\* message.start once and first, message.complete or the sink's error last,
\* once and for the turn that ran, and complete only without an error of
\* turn.cancel.
THEOREM EventsAreOrdered == Safety => EventsInOrder
<1> DEFINE Orderly(t) ==
      wire'[t] # wire[t] =>
        LET event == Last(wire'[t])
        IN /\ wire'[t] = Append(wire[t], event)
           /\ ~Told(t)
           /\ event = "start" => t = running /\ wire[t] = <<>>
           /\ event = "complete" => t = running /\ wire[t] = <<"start">>
           /\ event = "failed" => t = running /\ wire[t] # <<>> /\ Head(wire[t]) = "start"
<1>1. TuiInv /\ [Next]_vars => [\A t \in Turns : Orderly(t)]_vars
  <2> SUFFICES ASSUME TuiInv, Next, NEW t \in Turns
               PROVE  Orderly(t)
    OBVIOUS
  <2> USE DEF TuiInv, LaneInv
  <2>0. wire[t] \in Seq(Events) /\ (slot # None => slot \in bound /\ slot \in Turns)
    BY LaneFacts DEF TypeOK
  <2>1. CASE UNCHANGED wire
    BY <2>1
  <2>2. CASE RunnerStart
    <3>1. /\ phase = "taken" /\ ~cancelReq
          /\ UNCHANGED wire \/ Send(running, "start")
      BY <2>2 DEF RunnerStart
    <3>2. running \in Turns /\ running \notin done
      BY <3>1, LaneFacts DEF LaneOrder, TypeOK
    <3>3. wire[running] = <<>> /\ ~Told(running)
      BY <3>1, <3>2, EmptySet DEF WireHistory, Told
    <3> QED
      BY <2>1, <3>1, <3>2, <3>3, SendFacts DEF Events
  <2>3. CASE SinkEnds
    <3>1. /\ phase \in Terminal /\ ~cancelReq /\ running \in Turns /\ running \notin done
          /\ \/ UNCHANGED wire
             \/ /\ running \in bound /\ phase # "cancelling"
                /\ Send(running, IF phase = "ending" THEN "complete" ELSE "failed")
      BY <2>3, LaneFacts DEF SinkEnds, TypeOK, Correlated, Active, LaneOrder, Terminal
    <3>2. running \in bound =>
            ~Told(running) /\ wire[running] # <<>> /\ Head(wire[running]) = "start"
      BY <3>1 DEF Correlated, Active, WireHistory
    <3>3. running \in bound /\ phase = "ending" => wire[running] = <<"start">>
      <4> SUFFICES ASSUME running \in bound, phase = "ending" PROVE wire[running] = <<"start">>
        OBVIOUS
      <4>1. "cancelled" \notin ToSet(wire[running])
        BY <3>1 DEF WireHistory
      <4>2. wire[running] \in Seq(Events)
        BY <3>1 DEF TypeOK
      <4>3. \A i \in DOMAIN wire[running] : wire[running][i] \in ToSet(wire[running]) \cap Events
        BY <4>2 DEF ToSet
      <4>4. \A i \in DOMAIN wire[running] : wire[running][i] = "start"
        BY <3>2, <4>1, <4>3 DEF Told, Events
      <4>5. \A i \in DOMAIN wire[running] : i = 1
        BY <3>1, <4>4 DEF WireHistory
      <4>6. Len(wire[running]) = 1
        <5>1. Len(wire[running]) \in Nat /\ DOMAIN wire[running] = 1 .. Len(wire[running])
          BY <4>2
        <5>2. Len(wire[running]) # 0
          BY <3>2, <4>2
        <5>3. Len(wire[running]) \in DOMAIN wire[running]
          BY <5>1, <5>2
        <5> QED
          BY <4>5, <5>3
      <4> QED
        BY <4>2, <4>4, <4>6
    <3> QED
      BY <2>1, <3>1, <3>2, <3>3, SendFacts DEF Events
  <2>4. CASE CancelAtOnce \/ \E c \in Callers : CancelRunning(c)
    <3>1. slot # None /\ Send(slot, "cancelled")
      BY <2>4 DEF CancelAtOnce, CancelRunning, SendCancelled
    <3>2. ~Told(slot)
      BY <2>0, <3>1 DEF WireHistory
    <3> QED
      BY <2>0, <3>1, <3>2, SendFacts DEF Events
  <2>5. CASE TurnSend \/ SystemSubmit \/ ClarifyRespond \/ Hangup \/ Cleanup \/ Lane
    BY <2>1, <2>5 DEF TurnSend, SystemSubmit, ClarifyRespond, Hangup, Cleanup, Sweep, Teardown,
                      Lane, WorkerStart, WorkerCollect, wireVars
  <2>6. CASE CancelledEarly \/ SinkCut \/ Answered \/ AskCancelled \/ EmitToken \/ RunnerLeaves
    BY <2>1, <2>6 DEF CancelledEarly, SinkCut, Answered, AskCancelled, EmitToken, RunnerLeaves, wireVars
  <2>7. CASE AskUser \/ Asking \/ HubDeliver \/ \E c \in Callers : CancelReturns(c)
    BY <2>1, <2>7 DEF AskUser, Asking, HubDeliver, CancelReturns, wireVars
  <2> QED
    BY <2>2, <2>3, <2>4, <2>5, <2>6, <2>7 DEF Next, Client, Payload
<1> QED
  BY <1>1, InitTui, NextTui, PTL DEF Safety, EventsInOrder
=============================================================================
