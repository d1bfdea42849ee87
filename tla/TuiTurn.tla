------------------------------ MODULE TuiTurn ------------------------------
(***************************************************************************)
(* The life of a turn behind the terminal front end: the handlers of       *)
(* turn.send and turn.cancel (pico/tui_rpc/methods/turn.py), the runner    *)
(* and the event sink of the spine they drive (pico/tui_rpc/spine.py), the *)
(* questions a turn asks (QuestionBroker), and of the scheduler and the    *)
(* delivery hub what these see: one lane, its worker, its payload task and *)
(* the queue of tokens still to be rendered.                               *)
(*                                                                         *)
(* One session key on one connection, until the connection is lost and the *)
(* host tears the spine down (pico/cli/tui_commands.py).  Turns are        *)
(* numbered in the order they are submitted; the number stands for the     *)
(* request's identity, id(req), which the code uses as a key.  System      *)
(* turns (cron jobs, subagent results) share the lane and are never bound  *)
(* to the front end.  Each RPC frame is handled by a task of its own, so   *)
(* two turn.cancel calls may be suspended at the same time.                *)
(***************************************************************************)
EXTENDS QuestionBroker, SequencesExt

CONSTANTS
  Session,    \* the conversation
  MaxTurns,   \* bound on the turns submitted
  Callers,    \* turn.cancel handlers that may be suspended at the same time
  HubMax      \* bound on the tokens queued for rendering

ASSUME TuiAssumption ==
  /\ Session \in Conversations
  /\ MaxTurns \in Nat /\ MaxQuestions \in Nat
  /\ HubMax \in Nat \ {0}

VARIABLES
  origin,      \* origin of each turn submitted so far
  queue,       \* Lane._pending
  running,     \* the turn of Lane._running_fut, or None
  phase,       \* where its payload task stands
  cancelReq,   \* the payload task has a cancellation to deliver
  done,        \* turns whose handle is resolved
  slot,        \* _active_turns and _active_request_keys of the session
  bound,       \* turns with an entry in turn_ids and submission_ids
  runningReq,  \* running_requests of the conversation
  waiting,     \* per handler, the turn whose handle.result() it awaits
  hub,         \* turns of the tokens the hub still has to deliver
  shown,       \* the turn of the last message.start on the wire
  wire,        \* lifecycle events sent for each turn, in order
  leaked,      \* turns with a token shown outside their own message
  cut,         \* turns whose terminal event was cancelled in the sink
  link         \* the connection: up, down, questions swept, spine torn down

laneVars == <<origin, queue, running, phase, cancelReq, done>>
bindVars == <<slot, bound, runningReq, waiting>>
wireVars == <<hub, shown, wire, leaked, cut>>
still == <<link, brokerVars>>
vars == <<laneVars, bindVars, wireVars, still>>

None == 0
Turns == 1..MaxTurns
Accepted == DOMAIN origin
Terminal == {"ending", "failing", "cancelling"}
Phases == {"idle", "taken", "running", "asking", "done"} \cup Terminal
Events == {"start", "complete", "failed", "cancelled"}

\* The sink has told the front end how the turn ended.
Told(t) == ToSet(wire[t]) \cap {"complete", "failed"} # {}

TypeOK ==
  /\ BrokerTypeOK
  /\ link \in {"up", "down", "swept", "torn"}
  /\ origin \in Seq({"user", "system"}) /\ Len(origin) <= MaxTurns
  /\ queue \in Seq(Accepted)
  /\ running \in Accepted \cup {None}
  /\ phase \in Phases
  /\ cancelReq \in BOOLEAN
  /\ done \subseteq Accepted
  /\ slot \in Accepted \cup {None}
  /\ bound \subseteq Accepted
  /\ runningReq \in Accepted \cup {None}
  /\ waiting \in [Callers -> Accepted \cup {None}]
  /\ hub \in Seq(Accepted) /\ Len(hub) <= HubMax
  /\ shown \in Accepted \cup {None}
  /\ wire \in [Turns -> Seq(Events)]
  /\ leaked \subseteq Accepted /\ cut \subseteq Accepted
  \* the slot and the ids of a turn are set and dropped together
  /\ slot # None => slot \in bound
  /\ phase = "idle" <=> running = None

Init ==
  /\ origin = <<>> /\ queue = <<>> /\ running = None /\ phase = "idle"
  /\ cancelReq = FALSE /\ done = {}
  /\ slot = None /\ bound = {} /\ runningReq = None
  /\ waiting = [c \in Callers |-> None]
  /\ hub = <<>> /\ shown = None /\ wire = [t \in Turns |-> <<>>]
  /\ leaked = {} /\ cut = {}
  /\ link = "up"
  /\ BrokerInit

-----------------------------------------------------------------------------
(* Submitting.                                                             *)

Enqueue(o) ==
  /\ Len(origin) < MaxTurns
  /\ origin' = Append(origin, o)
  /\ queue' = Append(queue, Len(origin'))
  /\ UNCHANGED <<running, phase, cancelReq, done>>

\* A cron job or a subagent result is submitted to the same conversation.
SystemSubmit ==
  /\ link # "torn"
  /\ Enqueue("system")
  /\ UNCHANGED <<bindVars, wireVars, still>>

HasPendingOrRunning == running # None \/ queue # <<>>

\* turn.send: refused (TurnInProgressError) while a turn is active or the lane
\* has work; the ids and the slot are bound before the worker can run.
TurnSend ==
  /\ link = "up"
  /\ slot = None /\ ~HasPendingOrRunning
  /\ Enqueue("user")
  /\ slot' = Len(origin')
  /\ bound' = bound \cup {slot'}
  /\ UNCHANGED <<runningReq, waiting, wireVars, still>>

-----------------------------------------------------------------------------
(* The lane's worker and the payload task of the running turn.             *)

\* The worker takes the head of the queue and creates its payload task, in
\* the step that leaves the previous turn.
Take(q) ==
  IF q = <<>>
    THEN /\ running' = None /\ phase' = "idle" /\ queue' = q
    ELSE /\ running' = Head(q) /\ phase' = "taken" /\ queue' = Tail(q)

WorkerStart ==
  /\ running = None /\ queue # <<>>
  /\ Take(queue)
  /\ UNCHANGED <<origin, cancelReq, done, bindVars, wireVars, still>>

\* The payload task is over: its future is resolved, the next turn is taken.
WorkerCollect ==
  /\ phase = "done"
  /\ done' = done \cup {running}
  /\ cancelReq' = FALSE
  /\ Take(queue)
  /\ UNCHANGED <<origin, bindVars, wireVars, still>>

\* An event goes out to the subscribers of the session.
Send(t, event) == wire' = [wire EXCEPT ![t] = Append(@, event)]

\* Mutant: only a bound request is recorded as the running one.
RunnerStartBound ==
  /\ phase = "taken" /\ ~cancelReq
  /\ phase' = "running"
  /\ IF running \in bound
       THEN /\ runningReq' = running
            /\ Send(running, "start")
            /\ shown' = running
       ELSE UNCHANGED <<runningReq, wire, shown>>
  /\ UNCHANGED <<origin, queue, running, cancelReq, done, slot, bound, waiting,
                 hub, leaked, cut, still>>

\* TuiTurnRunner.run begins: the request becomes the conversation's running
\* one, and message.start is sent if turn.send bound it.
RunnerStart ==
  /\ phase = "taken" /\ ~cancelReq
  /\ phase' = "running"
  /\ runningReq' = running
  /\ IF running \in bound
       THEN Send(running, "start") /\ shown' = running
       ELSE UNCHANGED <<wire, shown>>
  /\ UNCHANGED <<origin, queue, running, cancelReq, done, slot, bound, waiting,
                 hub, leaked, cut, still>>

\* Cancelled before TurnStarted: no event at all.
CancelledEarly ==
  /\ phase = "taken" /\ cancelReq
  /\ phase' = "done"
  /\ UNCHANGED <<origin, queue, running, cancelReq, done, bindVars, wireVars, still>>

\* emit_bound: only a bound turn renders.
EmitToken ==
  /\ phase = "running" /\ ~cancelReq
  /\ running \in bound
  /\ Len(hub) < HubMax
  /\ hub' = Append(hub, running)
  /\ UNCHANGED <<laneVars, bindVars, shown, wire, leaked, cut, still>>

\* The hub's outlet worker sends the next token, in order.  The wire event
\* names the conversation, not the turn: the front end adds it to the message
\* it shows.
HubDeliver ==
  /\ hub # <<>>
  /\ hub' = Tail(hub)
  /\ LET t == Head(hub)
     IN leaked' = IF shown # t \/ Told(t)
                    THEN leaked \cup {t} ELSE leaked
  /\ UNCHANGED <<laneVars, bindVars, shown, wire, cut, still>>

\* The runner returns, raises (perhaps while unwinding a cancellation) or is
\* cancelled, and the sink is called with the terminal event.
RunnerLeaves ==
  /\ phase = "running"
  /\ \/ ~cancelReq /\ phase' = "ending"
     \/ phase' = "failing"
     \/ cancelReq /\ phase' = "cancelling"
  /\ cancelReq' = FALSE
  /\ UNCHANGED <<origin, queue, running, done, bindVars, wireVars, still>>

-----------------------------------------------------------------------------
(* The sink: close_stream and wait_idle, then the correlation, then _drop, *)
(* then the terminal event.                                                *)

\* Mutant: the slot is cleared whoever owns it.
ClearAlways(t) == slot' = None

\* clear_active with a request key.
ClearActive(t) == slot' = IF slot = t THEN None ELSE slot

\* Mutant: no render barrier.
RenderedAlways == TRUE

\* wait_idle of the hub's channel.
Rendered == hub = <<>>

SinkEnds ==
  /\ phase \in Terminal /\ ~cancelReq
  /\ Rendered
  /\ LET t == runningReq
     IN /\ runningReq' = None
        /\ bound' = bound \ {t}
        /\ ClearActive(t)
        /\ IF t \in bound /\ phase # "cancelling"
             THEN Send(t, IF phase = "ending" THEN "complete" ELSE "failed")
             ELSE UNCHANGED wire
  /\ phase' = "done"
  /\ UNCHANGED <<origin, queue, running, cancelReq, done, waiting,
                 hub, shown, leaked, cut, still>>

\* A cancellation reaches the sink while it waits for the hub: the terminal
\* event and _drop are lost, the task ends cancelled.
SinkCut ==
  /\ phase \in Terminal /\ cancelReq
  /\ phase' = "done"
  /\ cut' = cut \cup {running}
  /\ UNCHANGED <<origin, queue, running, cancelReq, done, bindVars,
                 hub, shown, wire, leaked, still>>

-----------------------------------------------------------------------------
(* turn.cancel.                                                            *)

\* Mutant: the slot is left to the sink.
ReleasedIds(t) == bound' = bound \ {t} /\ UNCHANGED slot

\* What the handler does when handle.result() has returned.
Released(t) ==
  /\ ClearActive(t)
  /\ bound' = bound \ {t}

\* The error sent to the subscribers of the session, by every call.
SendCancelled(t) == Send(t, "cancelled")

\* The handle is queued, or resolved already: result() does not suspend and
\* the call is one step.
CancelAtOnce ==
  /\ link = "up"
  /\ slot # None /\ slot # running
  /\ IF Contains(queue, slot)
       THEN \E i \in DOMAIN queue : queue[i] = slot /\ queue' = RemoveAt(queue, i)
       ELSE UNCHANGED queue
  /\ done' = done \cup {slot}
  /\ SendCancelled(slot)
  /\ Released(slot)
  /\ UNCHANGED <<origin, running, phase, cancelReq, runningReq, waiting,
                 hub, shown, leaked, cut, still>>

\* The turn is the running one: its payload task is cancelled unless it is
\* over, the error is sent, and the handler waits for the turn to unwind.
CancelRunning(c) ==
  /\ link = "up"
  /\ waiting[c] = None
  /\ slot # None /\ slot = running
  /\ cancelReq' = (cancelReq \/ phase # "done")
  /\ SendCancelled(slot)
  /\ waiting' = [waiting EXCEPT ![c] = slot]
  /\ UNCHANGED <<origin, queue, running, phase, done, slot, bound, runningReq,
                 hub, shown, leaked, cut, still>>

CancelReturns(c) ==
  /\ waiting[c] \in done
  /\ Released(waiting[c])
  /\ waiting' = [waiting EXCEPT ![c] = None]
  /\ UNCHANGED <<laneVars, runningReq, wireVars, still>>

-----------------------------------------------------------------------------
(* The ask_user tool.  A turn asks one question at a time.                 *)

\* The question the running turn waits for.
Current == Len(asked)

AskUser ==
  /\ phase = "running" /\ ~cancelReq
  /\ Ask(Session)
  /\ phase' = "asking"
  /\ UNCHANGED <<origin, queue, running, cancelReq, done, bindVars, wireVars, link>>

\* A step of the broker that leaves the turn suspended: the frame goes out or
\* the timeout fires.
Asking ==
  /\ phase = "asking"
  /\ (link = "up" /\ FrameSent(Current)) \/ Expire(Current)
  /\ UNCHANGED <<laneVars, bindVars, wireVars, link>>

\* clarify.respond: the answer may be for a question that is over or that was
\* answered already, and names its conversation or its request.
ClarifyRespond ==
  /\ link = "up"
  /\ \E q \in Questions, key \in Handles : ReplyTo(q, key)
  /\ UNCHANGED <<laneVars, bindVars, wireVars, link>>

\* await_question returns to the tool.
Answered ==
  /\ phase = "asking" /\ ~cancelReq
  /\ Resume(Current) \/ FrameFails(Current)
  /\ phase' = "running"
  /\ UNCHANGED <<origin, queue, running, cancelReq, done, bindVars, wireVars, link>>

\* Mutant: the cancelled call returns its default, and the turn goes on.
AskCancelledQuietly ==
  /\ phase = "asking" /\ cancelReq
  /\ Interrupt(Current)
  /\ phase' = "running"
  /\ cancelReq' = FALSE
  /\ UNCHANGED <<origin, queue, running, done, bindVars, wireVars, link>>

\* The cancellation goes through await_question and on up the runner.
AskCancelled ==
  /\ phase = "asking" /\ cancelReq
  /\ Interrupt(Current)
  /\ phase' = "running"
  /\ UNCHANGED <<origin, queue, running, cancelReq, done, bindVars, wireVars, link>>

-----------------------------------------------------------------------------
(* The connection is lost and the host cleans up.                          *)

\* The server cancels the handlers in flight and closes the transport.
Hangup ==
  /\ link = "up"
  /\ link' = "down"
  /\ waiting' = [c \in Callers |-> None]
  /\ UNCHANGED <<laneVars, slot, bound, runningReq, wireVars, brokerVars>>

Sweep ==
  /\ link = "down"
  /\ link' = "swept"
  /\ CancelAll
  /\ UNCHANGED <<laneVars, bindVars, wireVars>>

\* teardown_spine with no grace: the queue is drained, the payload cancelled.
Teardown ==
  /\ link = "swept"
  /\ link' = "torn"
  /\ queue' = <<>>
  /\ done' = done \cup Range(queue)
  /\ cancelReq' = (running # None /\ phase # "done")
  /\ UNCHANGED <<origin, running, phase, bindVars, wireVars, brokerVars>>

-----------------------------------------------------------------------------
Lane == WorkerStart \/ WorkerCollect
Payload == RunnerStart \/ CancelledEarly \/ SinkEnds \/ SinkCut
  \/ Answered \/ AskCancelled
Cleanup == Sweep \/ Teardown
Client ==
  \/ TurnSend \/ SystemSubmit \/ CancelAtOnce \/ ClarifyRespond \/ Hangup
  \/ \E c \in Callers : CancelRunning(c)

Next ==
  \/ Client
  \/ Lane \/ Payload \/ Cleanup
  \/ EmitToken \/ RunnerLeaves \/ AskUser \/ Asking
  \/ HubDeliver
  \/ \E c \in Callers : CancelReturns(c)

Safety == Init /\ [][Next]_vars

\* The event loop runs every ready task, the outlet makes progress, a
\* cancelled runner unwinds and the host's cleanup goes on.  The client, a
\* runner that is left alone and the question's timeout owe nothing.
Spec ==
  /\ Safety
  /\ WF_vars(Lane) /\ WF_vars(Payload) /\ WF_vars(HubDeliver) /\ WF_vars(Cleanup)
  /\ WF_vars(cancelReq /\ RunnerLeaves)
  /\ \A c \in Callers : WF_vars(CancelReturns(c))

-----------------------------------------------------------------------------
(* Properties.                                                             *)

\* A user turn that is queued or under way owns the session's slot until its
\* terminal event, so turn.cancel always finds it and no system turn, late
\* cancel or later turn takes the slot from it; and a slot outlives its turn
\* only while a turn.cancel call is about to release it, so that turn.send is
\* not refused for ever with TurnInProgressError.
SlotFollowsTurn ==
  /\ \A t \in Accepted :
       /\ origin[t] = "user"
       /\ \/ Contains(queue, t)
          \/ t = running /\ phase # "done"
       => slot = t
  /\ link = "up" /\ slot \in done => \E c \in Callers : waiting[c] = slot

\* What the front end is told of a turn: it starts at most once and before
\* anything else; the sink's terminal event is sent at most once, for the turn
\* that ran and started (never for another one of its lane), and nothing is
\* sent for the turn after it; a turn is reported complete only if no
\* turn.cancel reported it cancelled.
EventsInOrder ==
  [][\A t \in Turns : wire'[t] # wire[t] =>
       LET event == Last(wire'[t])
       IN /\ wire'[t] = Append(wire[t], event)
          /\ ~Told(t)
          /\ event = "start" => t = running /\ wire[t] = <<>>
          /\ event = "complete" => t = running /\ wire[t] = <<"start">>
          /\ event = "failed" => t = running /\ wire[t] # <<>> /\ Head(wire[t]) = "start"]_vars

\* Said of turn.cancel: its error is the only one a cancelled turn gets, since
\* the sink is silent about a cancelled turn.
OneCancelError ==
  \A t \in Turns : "cancelled" \in ToSet(wire[t]) =>
    Len(SelectSeq(wire[t], LAMBDA e : e \in {"cancelled", "failed"})) = 1

\* The render barrier of the sink: a turn's tokens are all shown in its own
\* message, before message.complete or error and before the next
\* message.start.  The exception is a turn cancelled a second time while the
\* sink waits for its tokens.
StreamsKeptApart == leaked \subseteq cut

\* After turn.cancel has told the front end that a turn is cancelled the
\* session's slot becomes free of it, whatever stage the turn was in and
\* however many cancels there are.
CancelFreesSlot ==
  \A t \in Turns : "cancelled" \in ToSet(wire[t]) ~> slot # t \/ link # "up"

\* An answer addressed by request id completes the question it was given to,
\* or none: one that comes late, twice or for an earlier turn never answers
\* another question.  An answer addressed by conversation says less: it
\* completes the question its sender was asked or a later one of the same
\* conversation, never an older one and never another conversation's.
AnswersTheQuestion ==
  \A q \in Questions :
    /\ future[q].by = "request_id" => future[q].meant = q
    /\ future[q].by = "conversation_id" =>
         /\ q \in DOMAIN asked /\ future[q].meant \in 1..q
         /\ asked[future[q].meant] = asked[q]

\* When the connection is lost every turn comes to its end and every question
\* is closed, although nobody is left to answer and no timeout need fire.
HangupEndsTurns ==
  link = "down" ~> running = None /\ queue = <<>> /\ index = {}
=============================================================================
