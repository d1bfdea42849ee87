----------------------------- MODULE DeliveryHub -----------------------------
(***************************************************************************)
(* The delivery side of the Spine, pico/spine/delivery.py: one bounded     *)
(* queue and one serial worker per outlet, retries with a budget, streams  *)
(* opened by the first delta and closed by a marker in the same queue, the *)
(* wait_idle render barrier, and aclose.                                   *)
(*                                                                         *)
(* A caller is the producer of one conversation: the Turn that emits, then *)
(* the lifecycle sink that closes its stream and waits for the barrier.  It*)
(* makes one call at a time and may be cancelled wherever a call suspends. *)
(* A conversation answers on one channel.  The n-th event of conversation  *)
(* v is the item <<v, n>>; ops is the kind of each, and seen the history   *)
(* of the calls the outlet got.                                            *)
(***************************************************************************)
EXTENDS Integers, FiniteSets, SequencesExt

CONSTANTS
  Conversations,   \* callers
  Channels,        \* outlet names
  ChannelOf,       \* source.channel of each conversation
  Streaming,       \* the outlets with the streaming capability
  QueueMax,        \* _OUTLET_QUEUE_MAXSIZE
  Retries,         \* send_max_retries
  Emits,           \* the kinds of events each conversation emits
  OutletCancels,   \* may an outlet let a CancelledError of its own escape?
  MaxOps           \* bound: how many events each conversation emits

ASSUME HubAssumption ==
  /\ IsFiniteSet(Conversations)
  /\ ChannelOf \in [Conversations -> Channels]
  /\ Streaming \subseteq Channels
  /\ QueueMax \in Nat \ {0}
  /\ Retries \in Nat
  /\ Emits \in [Conversations -> SUBSET {"delta", "text", "notice"}]
  /\ OutletCancels \in BOOLEAN
  /\ MaxOps \in [Conversations -> Nat]

Items == Conversations \X (Nat \ {0})
Nothing == <<>>             \* no item at hand
Kinds == {"delta", "text", "notice", "close"}   \* "close" is the _StreamClose marker

VARIABLES
  outlets,     \* registered channels
  queue,       \* the queue of each channel
  unfinished,  \* its count of unfinished tasks
  worker,      \* where each channel's worker is
  hand,        \* the item it has taken
  attempt,     \* deliveries of that item that have failed
  cancelled,   \* Worker.cancel() was called and is not delivered yet
  routed,      \* keys of _stream_channel
  open,        \* keys of _open_streams
  closed,      \* _closed
  closing,     \* where the shared close task is
  pc,          \* where each caller is suspended
  barrier,     \* what the caller's wait_idle has to outlast
  ops,         \* the kinds of the events emitted so far
  seen         \* the events the outlet was called with, in order

hubVars == <<outlets, queue, unfinished, worker, hand, attempt, cancelled,
             routed, open, closed, closing>>
callerVars == <<pc, barrier, ops, seen>>
vars == <<hubVars, callerVars>>

WorkerStates == {"none", "new", "waiting", "chunk", "sending", "backoff", "reporting"}

Kind(item) == ops[item[1]][item[2]]

Init ==
  /\ outlets = {}
  /\ queue = [ch \in Channels |-> <<>>]
  /\ unfinished = [ch \in Channels |-> 0]
  /\ worker = [ch \in Channels |-> "none"]
  /\ hand = [ch \in Channels |-> Nothing]
  /\ attempt = [ch \in Channels |-> 0]
  /\ cancelled = [ch \in Channels |-> FALSE]
  /\ routed = {}
  /\ open = {}
  /\ closed = FALSE
  /\ closing = "none"
  /\ pc = [v \in Conversations |-> "free"]
  /\ barrier = [v \in Conversations |-> {}]
  /\ ops = [v \in Conversations |-> <<>>]
  /\ seen = [v \in Conversations |-> <<>>]

-----------------------------------------------------------------------------
(* The queue's join counter. *)

\* Faulty variant: an empty queue counts as idle.
QueueEmpty(ch) == queue[ch] = <<>>

\* asyncio.Queue.join returns at once.
AllDone(ch) == unfinished[ch] = 0

\* The callers are at "at", except that a join wakes when its count is zero.
Wake(at) ==
  pc' = [v \in Conversations |->
           IF at[v] = "joining" /\ AllDone(ChannelOf[v])' THEN "released" ELSE at[v]]

\* Faulty variant: the discarded items stay counted.
DrainUncounted ==
  /\ queue' = [ch \in Channels |-> <<>>]
  /\ UNCHANGED unfinished

\* DeliveryHub.drain: take every queued item and mark it done.
Drain ==
  /\ queue' = [ch \in Channels |-> <<>>]
  /\ unfinished' = [ch \in Channels |-> unfinished[ch] - Len(queue[ch])]

-----------------------------------------------------------------------------
(* The callers. *)

\* DeliveryHub.register, at start-up.
Register(ch) ==
  /\ ~closed
  /\ ch \notin outlets
  /\ outlets' = outlets \cup {ch}
  /\ UNCHANGED <<queue, unfinished, worker, hand, attempt, cancelled, routed,
                 open, closed, closing, callerVars>>

\* The call of queue.put with the next event of v: done at once or suspended.
Put(v, kind) ==
  LET n == Len(ops[v]) + 1
      ch == ChannelOf[v]
  IN  /\ ops' = [ops EXCEPT ![v] = Append(@, kind)]
      /\ \/ /\ Len(queue[ch]) < QueueMax
            /\ queue' = [queue EXCEPT ![ch] = Append(@, <<v, n>>)]
            /\ unfinished' = [unfinished EXCEPT ![ch] = @ + 1]
            /\ UNCHANGED pc
         \/ /\ Len(queue[ch]) >= QueueMax
            /\ pc' = [pc EXCEPT ![v] = "putting"]
            /\ UNCHANGED <<queue, unfinished>>

CanCall(v) == pc[v] = "free" /\ ~closed /\ Len(ops[v]) < MaxOps[v]

\* dispatch and post.  A closed hub raises, an unknown channel drops the event:
\* neither changes the hub.
Enqueue(v, kind) ==
  LET ch == ChannelOf[v]
  IN  /\ CanCall(v)
      /\ ch \in outlets
      /\ routed' = IF kind = "delta" THEN routed \cup {v} ELSE routed
      /\ worker' = [worker EXCEPT ![ch] = IF @ = "none" THEN "new" ELSE @]
      /\ Put(v, kind)
      /\ UNCHANGED <<outlets, hand, attempt, cancelled, open, closed, closing,
                     barrier, seen>>

\* close_stream; without a recorded channel it does nothing.
CloseStream(v) ==
  /\ CanCall(v)
  /\ v \in routed
  /\ routed' = routed \ {v}
  /\ Put(v, "close")
  /\ UNCHANGED <<outlets, worker, hand, attempt, cancelled, open, closed,
                 closing, barrier, seen>>

\* Faulty variant: the queue has no bound.
PutProceedsAnyway(v) ==
  LET n == Len(ops[v])
      ch == ChannelOf[v]
  IN  /\ pc[v] = "putting"
      /\ ~closed
      /\ queue' = [queue EXCEPT ![ch] = Append(@, <<v, n>>)]
      /\ unfinished' = [unfinished EXCEPT ![ch] = @ + 1]
      /\ pc' = [pc EXCEPT ![v] = "free"]
      /\ UNCHANGED <<outlets, worker, hand, attempt, cancelled, routed, open,
                     closed, closing, barrier, ops, seen>>

\* A suspended put finds a free place.
PutProceeds(v) ==
  LET n == Len(ops[v])
      ch == ChannelOf[v]
  IN  /\ pc[v] = "putting"
      /\ ~closed
      /\ Len(queue[ch]) < QueueMax
      /\ queue' = [queue EXCEPT ![ch] = Append(@, <<v, n>>)]
      /\ unfinished' = [unfinished EXCEPT ![ch] = @ + 1]
      /\ pc' = [pc EXCEPT ![v] = "free"]
      /\ UNCHANGED <<outlets, worker, hand, attempt, cancelled, routed, open,
                     closed, closing, barrier, ops, seen>>

\* Faulty variant: the refused item stays in the queue.
PutRefusedInPlace(v) ==
  LET ch == ChannelOf[v]
  IN  /\ pc[v] = "putting"
      /\ closed
      /\ Len(queue[ch]) < QueueMax
      /\ queue' = [queue EXCEPT ![ch] = Append(@, <<v, Len(ops[v])>>)]
      /\ unfinished' = [unfinished EXCEPT ![ch] = @ + 1]
      /\ pc' = [pc EXCEPT ![v] = "free"]
      /\ UNCHANGED <<outlets, worker, hand, attempt, cancelled, routed, open,
                     closed, closing, barrier, ops, seen>>

\* It finds the hub closed in the meantime: its item and all others are
\* drained, and the call raises.  A marker is not put back.
PutRefused(v) ==
  /\ pc[v] = "putting"
  /\ closed
  /\ Len(queue[ChannelOf[v]]) < QueueMax
  /\ Drain
  /\ Wake([pc EXCEPT ![v] = "free"])
  /\ UNCHANGED <<outlets, worker, hand, attempt, cancelled, routed, open,
                 closed, closing, barrier, ops, seen>>

\* The caller is cancelled in a suspended put.  close_stream puts the channel
\* back so that a later call can try again.
PutCancelled(v) ==
  /\ pc[v] = "putting"
  /\ pc' = [pc EXCEPT ![v] = "free"]
  /\ routed' = IF Last(ops[v]) = "close" /\ ~closed THEN routed \cup {v} ELSE routed
  /\ UNCHANGED <<outlets, queue, unfinished, worker, hand, attempt, cancelled,
                 open, closed, closing, barrier, ops, seen>>

\* wait_idle: what is queued or in flight on the channel now is the barrier.
WaitIdle(v) ==
  LET ch == ChannelOf[v]
  IN  /\ pc[v] = "free"
      /\ pc' = [pc EXCEPT ![v] = IF AllDone(ch) THEN "released" ELSE "joining"]
      /\ barrier' = [barrier EXCEPT ![v] =
                       ToSet(queue[ch]) \cup ({hand[ch]} \ {Nothing})]
      /\ UNCHANGED <<hubVars, ops, seen>>

\* wait_idle returns, or its caller is cancelled.
WaitEnds(v) ==
  /\ pc[v] \in {"joining", "released"}
  /\ pc' = [pc EXCEPT ![v] = "free"]
  /\ barrier' = [barrier EXCEPT ![v] = {}]
  /\ UNCHANGED <<hubVars, ops, seen>>

-----------------------------------------------------------------------------
(* The worker of a channel: _run_outlet. *)

\* Faulty variant: no task_done.
FinishUncounted(ch, next) ==
  /\ hand' = [hand EXCEPT ![ch] = Nothing]
  /\ attempt' = [attempt EXCEPT ![ch] = 0]
  /\ worker' = [worker EXCEPT ![ch] = next]
  /\ UNCHANGED <<unfinished, pc>>

\* The finally clause: task_done, and the worker goes on or ends.
Finish(ch, next) ==
  /\ hand' = [hand EXCEPT ![ch] = Nothing]
  /\ attempt' = [attempt EXCEPT ![ch] = 0]
  /\ unfinished' = [unfinished EXCEPT ![ch] = @ - 1]
  /\ worker' = [worker EXCEPT ![ch] = next]
  /\ Wake(pc)

\* The head of the while loop.
Loop == IF closed THEN "none" ELSE "waiting"

\* The worker task runs for the first time.
WorkerStart(ch) ==
  /\ worker[ch] = "new"
  /\ ~cancelled[ch]
  /\ worker' = [worker EXCEPT ![ch] = Loop]
  /\ UNCHANGED <<outlets, queue, unfinished, hand, attempt, cancelled, routed,
                 open, closed, closing, callerVars>>

\* queue.get returns an item and the worker suspends in its next call.
Take(ch, next) ==
  /\ worker[ch] = "waiting"
  /\ ~cancelled[ch]
  /\ queue[ch] # <<>>
  /\ hand' = [hand EXCEPT ![ch] = Head(queue[ch])]
  /\ queue' = [queue EXCEPT ![ch] = Tail(@)]
  /\ worker' = [worker EXCEPT ![ch] = next]
  /\ seen' = [seen EXCEPT ![hand'[ch][1]] = Append(@, hand'[ch][2])]
  /\ UNCHANGED <<outlets, unfinished, attempt, cancelled, routed, closed,
                 closing, pc, barrier, ops>>

\* _deliver_with_retry begins with the first attempt.
TakeDeliverable(ch) ==
  /\ Take(ch, "sending")
  /\ Kind(hand'[ch]) \in {"text", "notice"}
  /\ UNCHANGED open

\* _stream_chunk: the first delta opens the stream, before it is sent.
TakeDelta(ch) ==
  /\ ch \in Streaming
  /\ Take(ch, "chunk")
  /\ Kind(hand'[ch]) = "delta"
  /\ open' = open \cup {hand'[ch][1]}

\* Faulty variant: the stream stays in the table.
TakeCloseKeeping(ch) ==
  /\ Take(ch, "chunk")
  /\ Kind(hand'[ch]) = "close"
  /\ hand'[ch][1] \in open
  /\ UNCHANGED open

\* _close_stream_chunk on an open stream: forget it, then send done=True.
TakeClose(ch) ==
  /\ Take(ch, "chunk")
  /\ Kind(hand'[ch]) = "close"
  /\ hand'[ch][1] \in open
  /\ open' = open \ {hand'[ch][1]}

\* A delta for an outlet that does not stream, or a marker without a stream:
\* the worker is done with the item without suspending.
Skip(ch) ==
  LET item == Head(queue[ch])
  IN  /\ worker[ch] = "waiting"
      /\ ~cancelled[ch]
      /\ queue[ch] # <<>>
      /\ \/ Kind(item) = "delta" /\ ch \notin Streaming
         \/ Kind(item) = "close" /\ item[1] \notin open
      /\ queue' = [queue EXCEPT ![ch] = Tail(@)]
      /\ unfinished' = [unfinished EXCEPT ![ch] = @ - 1]
      /\ worker' = [worker EXCEPT ![ch] = Loop]
      /\ Wake(pc)
      /\ UNCHANGED <<outlets, hand, attempt, cancelled, routed, open, closed,
                     closing, barrier, ops, seen>>

workerKeeps == <<outlets, queue, cancelled, routed, open, closed, closing,
                 barrier, ops, seen>>

\* The outlet returns from send_stream_chunk or deliver.
Sent(ch) ==
  /\ worker[ch] \in {"chunk", "sending"}
  /\ ~cancelled[ch]
  /\ Finish(ch, Loop)
  /\ UNCHANGED workerKeeps

\* send_stream_chunk raises: the chunk is given up and the worker lives on.
ChunkFails(ch) ==
  /\ worker[ch] = "chunk"
  /\ ~cancelled[ch]
  /\ Finish(ch, Loop)
  /\ UNCHANGED workerKeeps

\* The event is dropped: a terminal deliverable is reported out of band.
Drop(ch) ==
  \/ /\ Kind(hand[ch]) = "text"
     /\ worker' = [worker EXCEPT ![ch] = "reporting"]
     /\ UNCHANGED <<hand, attempt, unfinished, pc>>
  \/ /\ Kind(hand[ch]) # "text"
     /\ Finish(ch, Loop)

\* deliver raises a TerminalDeliveryError, or the last attempt fails.
DeliveryFails(ch) ==
  /\ worker[ch] = "sending"
  /\ ~cancelled[ch]
  /\ Drop(ch)
  /\ UNCHANGED workerKeeps

\* Faulty variant: the item goes back to the end of the queue.
RetryLater(ch) ==
  /\ worker[ch] = "sending"
  /\ ~cancelled[ch]
  /\ attempt[ch] < Retries
  /\ queue' = [queue EXCEPT ![ch] = Append(@, hand[ch])]
  /\ hand' = [hand EXCEPT ![ch] = Nothing]
  /\ worker' = [worker EXCEPT ![ch] = "waiting"]
  /\ UNCHANGED <<outlets, unfinished, attempt, cancelled, routed, open, closed,
                 closing, callerVars>>

\* Another exception with budget left: the worker sleeps on the item.
RetryAfter(ch) ==
  /\ worker[ch] = "sending"
  /\ ~cancelled[ch]
  /\ attempt[ch] < Retries
  /\ attempt' = [attempt EXCEPT ![ch] = @ + 1]
  /\ worker' = [worker EXCEPT ![ch] = "backoff"]
  /\ UNCHANGED <<outlets, queue, unfinished, hand, cancelled, routed, open,
                 closed, closing, callerVars>>

\* The back-off is over.
Resend(ch) ==
  /\ worker[ch] = "backoff"
  /\ ~cancelled[ch]
  /\ worker' = [worker EXCEPT ![ch] = "sending"]
  /\ UNCHANGED <<outlets, queue, unfinished, hand, attempt, cancelled, routed,
                 open, closed, closing, callerVars>>

\* The failure sink returns or raises.
Reported(ch) ==
  /\ worker[ch] = "reporting"
  /\ ~cancelled[ch]
  /\ Finish(ch, Loop)
  /\ UNCHANGED workerKeeps

\* The worker ends without an item.
Leave(ch) ==
  /\ hand[ch] = Nothing
  /\ worker' = [worker EXCEPT ![ch] = "none"]
  /\ UNCHANGED <<hand, attempt, unfinished, pc>>

\* The cancellation by aclose reaches the worker.
WorkerCancelled(ch) ==
  /\ cancelled[ch]
  /\ cancelled' = [cancelled EXCEPT ![ch] = FALSE]
  /\ \/ Leave(ch)
     \/ hand[ch] # Nothing /\ Finish(ch, "none")
  /\ UNCHANGED <<outlets, queue, routed, open, closed, closing, barrier, ops, seen>>

\* A CancelledError of the outlet's own escapes "except Exception" and ends
\* the worker; the next enqueue starts another one.
WorkerDies(ch) ==
  /\ OutletCancels
  /\ worker[ch] \in {"chunk", "sending"}
  /\ ~cancelled[ch]
  /\ Finish(ch, "none")
  /\ UNCHANGED workerKeeps

-----------------------------------------------------------------------------
(* Closing the hub. *)

\* The first aclose; later calls wait for the same task.
Aclose ==
  /\ ~closed
  /\ closed' = TRUE
  /\ closing' = "sealed"
  /\ UNCHANGED <<outlets, queue, unfinished, worker, hand, attempt, cancelled,
                 routed, open, callerVars>>

\* Faulty variant: only workers that wait for an item are cancelled.
CloseCancelsIdle ==
  /\ closing = "sealed"
  /\ closing' = "gathering"
  /\ cancelled' = [ch \in Channels |-> worker[ch] \in {"new", "waiting"}]
  /\ UNCHANGED <<outlets, queue, unfinished, worker, hand, attempt, routed,
                 open, closed, callerVars>>

\* First step of _finish_close.
CloseCancels ==
  /\ closing = "sealed"
  /\ closing' = "gathering"
  /\ cancelled' = [ch \in Channels |-> worker[ch] # "none"]
  /\ UNCHANGED <<outlets, queue, unfinished, worker, hand, attempt, routed,
                 open, closed, callerVars>>

\* All workers have ended.
CloseFinishes ==
  /\ closing = "gathering"
  /\ \A ch \in Channels : worker[ch] = "none"
  /\ closing' = "done"
  /\ Drain
  /\ routed' = {}
  /\ open' = {}
  /\ Wake(pc)
  /\ UNCHANGED <<outlets, worker, hand, attempt, cancelled, closed, barrier,
                 ops, seen>>

\* The hub is closed and nobody waits in it.
Stopped ==
  /\ closing = "done"
  /\ \A v \in Conversations : pc[v] = "free"
  /\ UNCHANGED vars

-----------------------------------------------------------------------------
Caller(v) ==
  \/ \E kind \in Emits[v] : Enqueue(v, kind)
  \/ CloseStream(v) \/ WaitIdle(v)
  \/ PutProceeds(v) \/ PutRefused(v) \/ PutCancelled(v) \/ WaitEnds(v)

\* What the outlet and the failure sink decide.
OutletAnswers(ch) ==
  Sent(ch) \/ ChunkFails(ch) \/ DeliveryFails(ch) \/ RetryAfter(ch) \/ Reported(ch)

\* What the loop owes the worker.
WorkerMoves(ch) ==
  \/ WorkerStart(ch) \/ TakeDeliverable(ch) \/ TakeDelta(ch) \/ TakeClose(ch)
  \/ Skip(ch) \/ Resend(ch) \/ WorkerCancelled(ch)

Close == CloseCancels \/ CloseFinishes

Next ==
  \/ \E ch \in Channels :
       Register(ch) \/ WorkerMoves(ch) \/ OutletAnswers(ch) \/ WorkerDies(ch)
  \/ \E v \in Conversations : Caller(v)
  \/ Aclose \/ Close \/ Stopped

Safety == Init /\ [][Next]_vars

\* The event loop runs every ready task, every sleep ends, and asyncio.Queue
\* wakes a suspended put when there is a place.  Outlets owe nothing.
LoopFairness ==
  /\ \A ch \in Channels : WF_vars(WorkerMoves(ch))
  /\ \A v \in Conversations :
       /\ WF_vars(PutProceeds(v) \/ PutRefused(v))
       /\ WF_vars(pc[v] = "released" /\ WaitEnds(v))
  /\ WF_vars(Close)

Spec == Safety /\ LoopFairness

\* The outlet of one channel answers every call.
OutletFairness(ch) == WF_vars(OutletAnswers(ch))

-----------------------------------------------------------------------------
(* Properties. *)

\* Every variable stays in its range, the queues within their bound and the
\* retries within their budget.
TypeOK ==
  /\ outlets \subseteq Channels
  /\ queue \in [Channels -> Seq(Items)]
  /\ \A ch \in Channels : Len(queue[ch]) <= QueueMax
  /\ unfinished \in [Channels -> Nat]
  /\ worker \in [Channels -> WorkerStates]
  /\ hand \in [Channels -> Items \cup {Nothing}]
  /\ attempt \in [Channels -> 0 .. Retries]
  /\ cancelled \in [Channels -> BOOLEAN]
  /\ routed \subseteq Conversations
  /\ open \subseteq Conversations
  /\ closed \in BOOLEAN
  /\ closing \in {"none", "sealed", "gathering", "done"}
  /\ pc \in [Conversations -> {"free", "putting", "joining", "released"}]
  /\ barrier \in [Conversations -> SUBSET Items]
  /\ ops \in [Conversations -> Seq(Kinds)]
  /\ \A v \in Conversations : Len(ops[v]) <= MaxOps[v]
  /\ seen \in [Conversations -> Seq(Nat \ {0})]

\* The join counter of a queue counts exactly the items it holds and the one
\* its worker has at hand, on every path out of the worker and out of drain:
\* task_done is neither forgotten (join would hang) nor called too often.
JoinCountsWork ==
  \A ch \in Channels :
    unfinished[ch] = Len(queue[ch]) + (IF hand[ch] = Nothing THEN 0 ELSE 1)

\* The outlet gets the events of a conversation in the order in which they
\* were emitted and starts on each once, whatever is retried, refused,
\* cancelled or dropped between.
DeliveryInOrder ==
  \A v \in Conversations : \A i, j \in DOMAIN seen[v] : i < j => seen[v][i] < seen[v][j]

\* A stream gets one done=True chunk: between two of them the outlet
\* got a delta.  A delta whose put was cancelled leaves a recorded channel
\* without a stream, and the marker it causes must be swallowed.
OneDonePerStream ==
  \A v \in Conversations : \A i, j \in DOMAIN seen[v] :
    LET a == seen[v][i]
        b == seen[v][j]
    IN  i < j /\ ops[v][a] = "close" /\ ops[v][b] = "close" =>
          \E k \in i .. j : ops[v][seen[v][k]] = "delta"

\* When wait_idle returns, everything that was queued or in flight on the
\* channel at the call has been handled: it is a render barrier.
RenderBarrier ==
  \A v \in Conversations : pc[v] = "released" =>
    barrier[v] \cap (ToSet(queue[ChannelOf[v]]) \cup {hand[ChannelOf[v]]}) = {}

\* A closed hub holds nothing and never gets anything again, although callers
\* suspended on a full queue wake up after the close.
ClosedHubIsEmpty ==
  closing = "done" =>
    /\ \A ch \in Channels : queue[ch] = <<>> /\ unfinished[ch] = 0 /\ worker[ch] = "none"
    /\ routed = {} /\ open = {}

\* A channel whose outlet answers serves its callers, however the outlets of
\* other channels hang: every suspended put and wait_idle comes back.
ChannelServesItsCallers ==
  \A ch \in Channels : OutletFairness(ch) =>
    \A v \in Conversations : ChannelOf[v] = ch =>
      /\ pc[v] = "putting" ~> pc[v] # "putting"
      /\ pc[v] = "joining" ~> pc[v] # "joining"

\* aclose returns even if no outlet answers, and every caller suspended in the
\* hub at that time comes back, on a full queue as well.
CloseReleasesEveryone ==
  /\ closed ~> closing = "done"
  /\ \A v \in Conversations : closed /\ pc[v] # "free" ~> pc[v] = "free"
=============================================================================
